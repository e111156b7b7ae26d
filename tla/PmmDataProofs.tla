--------------------------- MODULE PmmDataProofs ---------------------------
(***************************************************************************)
(* The memory that clients hold, for any heap, page size, size classes and *)
(* number of processors: no step changes the bytes of a live block, small  *)
(* blocks come zeroed and aligned, the slots of a page stay apart, every   *)
(* list ends, no load, store or loop leaves the heap, no assertion fails   *)
(* except for lack of memory, kalloc returns NULL only when the heap is    *)
(* full, and the lists implement AllocSpec.                                *)
(*                                                                         *)
(* Two hypotheses exclude the slips of pmm.c that break this: blocks are   *)
(* freed on the processor that allocated them (~RemoteFree); no block is   *)
(* freed in a page whose list is empty, be it full or its free slots lost  *)
(* to a merge (pmm.c:376), and none is cut from a node that has no room    *)
(* for its header ([]Careful).                                             *)
(*                                                                         *)
(* The inductive invariant DataInv says that there are a set H of heap     *)
(* nodes and a set P[c] of pages for each processor that are what the      *)
(* lists hold; that the nodes, the pages, the page allockpage has just     *)
(* given and the huge blocks with their headers are pairwise apart; that   *)
(* each page is well formed for the blocks that start in it, those a       *)
(* processor is about to return or has just been given back included; and  *)
(* that each processor's local variables mean what its label says. A step  *)
(* is sound because it changes one page, one node or the bytes of one      *)
(* block, and frame lemmas carry the rest over.                            *)
(*                                                                         *)
(* The sets of DataInv are also the refinement mapping: H gives the free   *)
(* granules of AllocSpec, P and the page just taken its pages.  For it     *)
(* kfree must put a huge block back next to the node it was cut from       *)
(* ([]HugeRejoins), or its header is lost.  So it must for nodes and pages *)
(* to keep starting at multiples of the page size (AlignInv), and for the  *)
(* heap list to hold, in merged nodes, all that is not taken (Covered,     *)
(* Merged), which is why kalloc returns NULL only when the heap is full.   *)
(***************************************************************************)
EXTENDS PmmPages

-----------------------------------------------------------------------------
(* The heap as a whole *)

\* The blocks of BS that start in the page at p.
In(BS, p) == {b \in BS : ~IsHuge(b) /\ p < b.ptr /\ b.ptr < p + PageSize}

Huge(BS) == {b \in BS : IsHuge(b)}

\* The n granules from a on are apart from the k granules from b on.
Off(a, n, b, k) == a + n <= b \/ b + k <= a

\* The listed pages P[c] of processor c, and the one allockpage has just given it.
Pages(P, fr, c) == P[c] \cup ({fr[c]} \ {NULL})

\* The heap list H.
HeapInv(m, h, H) ==
  List(m, h, H) /\ \A n \in H : m[n].size >= 1 /\ n + m[n].size <= HeapEnd

\* The page lists P.
PageInv(m, ph, fr, P) ==
  /\ P \in [CPU -> SUBSET Granule] /\ ph \in [CPU -> Int] /\ fr \in [CPU -> Int]
  /\ \A c \in CPU : List(m, ph[c], P[c]) /\ fr[c] \notin P[c]
  /\ \A c \in CPU : \A p \in Pages(P, fr, c) : PageAt(p)

\* What is in the pages.
FillInv(m, P, BS) ==
  \A c \in CPU : \A p \in P[c] : PageOK(m, p, In(BS, p)) /\ \A b \in In(BS, p) : b.cpu = c

\* Where the blocks are: a huge one behind its header, the others in pages.
HugeOK(m, b) ==
  /\ HeapStart < b.ptr /\ b.ptr + b.size <= HeapEnd
  /\ m[b.ptr - 1].size = b.size /\ m[b.ptr - 1].magic = HUGE_MAGIC
BlockInv(m, P, BS) ==
  /\ BS \subseteq Block
  /\ \A b \in BS : b.size \in SizeClass
  /\ \A b \in Huge(BS) : HugeOK(m, b)
  /\ \A b \in BS \ Huge(BS) : \E p \in P[b.cpu] : b \in In(BS, p)

\* Heap nodes, pages and huge blocks are apart from each other.
SpanInv(m, H, P, fr, BS) ==
  /\ \A n, o \in H : n # o => Off(n, m[n].size, o, m[o].size)
  /\ \A n \in H : \A c \in CPU : \A p \in Pages(P, fr, c) : Off(n, m[n].size, p, PageSize)
  /\ \A n \in H : \A b \in Huge(BS) : Off(n, m[n].size, b.ptr - 1, b.size + 1)
  /\ \A c, d \in CPU : \A p \in Pages(P, fr, c), q \in Pages(P, fr, d) :
       (c # d \/ p # q) => Off(p, PageSize, q, PageSize)
  /\ \A c \in CPU : \A p \in Pages(P, fr, c) : \A b \in Huge(BS) : Off(p, PageSize, b.ptr - 1, b.size + 1)
  /\ \A a, b \in Huge(BS) : a # b => Off(a.ptr - 1, a.size + 1, b.ptr - 1, b.size + 1)

World(m, h, ph, fr, BS, H, P) ==
  /\ m \in Memory
  /\ HeapInv(m, h, H) /\ PageInv(m, ph, fr, P) /\ FillInv(m, P, BS)
  /\ BlockInv(m, P, BS) /\ SpanInv(m, H, P, fr, BS)

\* A size class is a positive number, and one of a page or of a huge block.
LEMMA ClassFacts ==
  ASSUME NEW s \in SizeClass
  PROVE  s \in Nat \ {0} /\ MaxSmall \in Nat /\ (~(s > MaxSmall) => s \in SmallSize)
<1>1. s \in Nat \ {0} /\ MaxSmall \in Nat \ {0}
  BY SizeAssumption
<1> QED
  BY <1>1 DEF SmallSize

\* Blocks are records of integers.
LEMMA BlockTypes ==
  ASSUME NEW b \in Block
  PROVE  b.ptr \in Int /\ b.size \in Int /\ b.cpu \in CPU
  BY DEF Block

\* A block of a page.
LEMMA SmallIn ==
  ASSUME NEW m, NEW h, NEW ph, NEW fr, NEW BS, NEW H, NEW P, World(m, h, ph, fr, BS, H, P),
         NEW b \in BS, ~IsHuge(b)
  PROVE  \E p \in P[b.cpu] :
           /\ b \in In(BS, p) /\ PageAt(p) /\ b.cpu \in CPU /\ p \in Int /\ p \in Pages(P, fr, b.cpu)
           /\ m[p].size \in SmallSize /\ BlocksOK(m, p, In(BS, p)) /\ b.size = m[p].size
           /\ Slot(p, b.size, b.ptr) /\ p < b.ptr /\ b.ptr + b.size <= p + PageSize
<1>1. b \in Block /\ b.cpu \in CPU /\ b \in BS \ Huge(BS)
  BY BlockTypes DEF World, BlockInv, Huge
<1>2. PICK p \in P[b.cpu] : b \in In(BS, p)
  BY <1>1 DEF World, BlockInv
<1>3. PageOK(m, p, In(BS, p)) /\ p \in Pages(P, fr, b.cpu)
  BY <1>1, <1>2 DEF World, FillInv, Pages
<1>4. PageAt(p) /\ p \in Int
  BY <1>1, <1>3, PageFacts DEF World, PageInv
<1>5. m[p].size \in SmallSize /\ BlocksOK(m, p, In(BS, p))
  BY <1>2, <1>3 DEF PageOK
<1>6. b.size = m[p].size /\ Slot(p, b.size, b.ptr)
  BY <1>2, <1>5 DEF BlocksOK
<1>7. b.ptr + b.size <= p + PageSize
  BY ONLY <1>4, <1>5, <1>6, SlotFacts
<1>8. p < b.ptr
  BY <1>2 DEF In
<1> QED
  BY <1>1, <1>2, <1>3, <1>4, <1>5, <1>6, <1>7, <1>8

\* Any block has its bytes in the heap.
LEMMA BlockFacts ==
  ASSUME NEW m, NEW h, NEW ph, NEW fr, NEW BS, NEW H, NEW P, World(m, h, ph, fr, BS, H, P), NEW b \in BS
  PROVE  /\ b.ptr \in Int /\ b.size \in Nat \ {0} /\ b.cpu \in CPU
         /\ HeapStart < b.ptr /\ b.ptr + b.size <= HeapEnd
<1>1. b.ptr \in Int /\ b.cpu \in CPU /\ b.size \in Nat \ {0}
  BY BlockTypes, ClassFacts DEF World, BlockInv
<1>2. CASE IsHuge(b)
  BY <1>1, <1>2 DEF World, BlockInv, HugeOK, Huge
<1>3. CASE ~IsHuge(b)
  <2>1. PICK p \in P[b.cpu] : PageAt(p) /\ p \in Int /\ p < b.ptr /\ b.ptr + b.size <= p + PageSize
    BY <1>3, SmallIn
  <2> QED
    BY <2>1, <1>1, PageFacts
<1> QED
  BY <1>1, <1>2, <1>3

\* Heap nodes and pages.
LEMMA NodeFacts ==
  ASSUME NEW m, NEW h, NEW ph, NEW fr, NEW BS, NEW H, NEW P, World(m, h, ph, fr, BS, H, P), NEW n \in H
  PROVE  n \in Granule /\ n \in Int /\ m[n].size \in Nat \ {0} /\ n + m[n].size <= HeapEnd
<1>1. m \in Memory /\ n \in Granule /\ m[n].size >= 1 /\ n + m[n].size <= HeapEnd
  BY ListFacts DEF World, HeapInv
<1>2. n \in Int /\ m[n].size \in Int
  BY <1>1, GranuleInt, CellFields
<1> QED
  BY <1>1, <1>2

\* A block in the page at p is in no other place; one elsewhere is apart from the page.
LEMMA PageOrOff ==
  ASSUME NEW m, NEW h, NEW ph, NEW fr, NEW BS, NEW H, NEW P, World(m, h, ph, fr, BS, H, P),
         NEW c \in CPU, NEW p \in Pages(P, fr, c), NEW b \in BS
  PROVE  \/ b \in In(BS, p) /\ p \in P[c] /\ b.cpu = c
         \/ Off(p, PageSize, b.ptr, b.size) /\ b \notin In(BS, p)
<1>1. PageAt(p) /\ p \in Int /\ PageSize \in Nat
  BY PageFacts DEF World, PageInv
<1>2. b.ptr \in Int /\ b.size \in Nat \ {0} /\ b.cpu \in CPU
  BY BlockFacts
<1>3. CASE IsHuge(b)
  <2>1. Off(p, PageSize, b.ptr - 1, b.size + 1)
    BY <1>3 DEF World, SpanInv, Huge
  <2> QED
    BY <2>1, <1>1, <1>2, <1>3 DEF Off, In
<1>4. CASE ~IsHuge(b)
  <2>1. PICK q \in P[b.cpu] : /\ b \in In(BS, q) /\ PageAt(q) /\ q \in Int /\ q \in Pages(P, fr, b.cpu)
                              /\ q < b.ptr /\ b.ptr + b.size <= q + PageSize
    BY <1>4, SmallIn
  <2>2. CASE q = p /\ b.cpu = c
    BY <2>1, <2>2
  <2>3. CASE ~(q = p /\ b.cpu = c)
    <3>1. Off(p, PageSize, q, PageSize)
      BY <2>1, <2>3, <1>2 DEF World, SpanInv
    <3> QED
      BY <3>1, <2>1, <1>1, <1>2 DEF Off, In
  <2> QED
    BY <2>2, <2>3
<1> QED
  BY <1>3, <1>4

\* A heap node is apart from every block, and from the header of a huge one.
LEMMA NodeOff ==
  ASSUME NEW m, NEW h, NEW ph, NEW fr, NEW BS, NEW H, NEW P, World(m, h, ph, fr, BS, H, P),
         NEW n \in H, NEW b \in BS
  PROVE  Off(n, m[n].size, b.ptr, b.size)
<1>1. n \in Int /\ m[n].size \in Nat \ {0} /\ b.ptr \in Int /\ b.size \in Nat \ {0}
  BY NodeFacts, BlockFacts
<1>2. CASE IsHuge(b)
  <2>1. Off(n, m[n].size, b.ptr - 1, b.size + 1)
    BY <1>2 DEF World, SpanInv, Huge
  <2> QED
    BY <2>1, <1>1 DEF Off
<1>3. CASE ~IsHuge(b)
  <2>1. PICK q \in P[b.cpu] : /\ PageAt(q) /\ q \in Int /\ q \in Pages(P, fr, b.cpu) /\ b.cpu \in CPU
                              /\ q < b.ptr /\ b.ptr + b.size <= q + PageSize
    BY <1>3, SmallIn
  <2>2. Off(n, m[n].size, q, PageSize) /\ PageSize \in Nat
    BY <2>1, PageFacts DEF World, SpanInv
  <2> QED
    BY <2>1, <2>2, <1>1 DEF Off
<1> QED
  BY <1>2, <1>3

\* Two blocks never overlap, and no block covers the header of a huge one.
LEMMA BodiesOff ==
  ASSUME NEW m, NEW h, NEW ph, NEW fr, NEW BS, NEW H, NEW P, World(m, h, ph, fr, BS, H, P),
         NEW a \in BS, NEW b \in BS
  PROVE  /\ a # b => Off(a.ptr, a.size, b.ptr, b.size)
         /\ IsHuge(b) => Off(a.ptr, a.size, b.ptr - 1, 1)
<1>1. a.ptr \in Int /\ a.size \in Nat \ {0} /\ b.ptr \in Int /\ b.size \in Nat \ {0} /\ PageSize \in Nat
  BY BlockFacts, SizeAssumption
<1>2. CASE IsHuge(a) /\ IsHuge(b)
  <2>1. a # b => Off(a.ptr - 1, a.size + 1, b.ptr - 1, b.size + 1)
    BY <1>2 DEF World, SpanInv, Huge
  <2>2. a = b => Off(a.ptr, a.size, b.ptr - 1, 1)
    BY <1>1 DEF Off
  <2> QED
    BY <2>1, <2>2, <1>1 DEF Off
<1>3. CASE IsHuge(a) /\ ~IsHuge(b)
  <2>1. PICK q \in P[b.cpu] : /\ q \in Int /\ q \in Pages(P, fr, b.cpu) /\ b.cpu \in CPU
                              /\ q < b.ptr /\ b.ptr + b.size <= q + PageSize
    BY <1>3, SmallIn
  <2>2. Off(q, PageSize, a.ptr - 1, a.size + 1)
    BY <2>1, <1>3 DEF World, SpanInv, Huge
  <2> QED
    BY <2>1, <2>2, <1>1, <1>3 DEF Off
<1>4. CASE ~IsHuge(a)
  <2>1. PICK q \in P[a.cpu] : /\ q \in Int /\ q \in Pages(P, fr, a.cpu) /\ a.cpu \in CPU /\ PageAt(q)
                              /\ q < a.ptr /\ a.ptr + a.size <= q + PageSize /\ a \in In(BS, q)
                              /\ m[q].size \in SmallSize /\ BlocksOK(m, q, In(BS, q))
    BY <1>4, SmallIn
  <2>2. CASE IsHuge(b)
    <3>1. Off(q, PageSize, b.ptr - 1, b.size + 1)
      BY <2>1, <2>2 DEF World, SpanInv, Huge
    <3> QED
      BY <2>1, <3>1, <1>1 DEF Off
  <2>3. CASE ~IsHuge(b) /\ b \in In(BS, q)
    <3>1. /\ Slot(q, m[q].size, a.ptr) /\ Slot(q, m[q].size, b.ptr)
          /\ a.size = m[q].size /\ b.size = m[q].size /\ (a # b => a.ptr # b.ptr)
      BY <2>1, <2>3 DEF BlocksOK
    <3>2. a.ptr < b.ptr => a.ptr + m[q].size <= b.ptr
      BY ONLY <3>1, <2>1, SlotFacts
    <3>3. b.ptr < a.ptr => b.ptr + m[q].size <= a.ptr
      BY ONLY <3>1, <2>1, SlotFacts
    <3> QED
      BY ONLY <3>1, <3>2, <3>3, <1>1, <2>3 DEF Off
  <2>4. CASE ~IsHuge(b) /\ b \notin In(BS, q)
    <3>1. Off(q, PageSize, b.ptr, b.size)
      BY <2>1, <2>4, PageOrOff
    <3> QED
      BY <2>1, <3>1, <1>1, <2>4 DEF Off
  <2> QED
    BY <2>2, <2>3, <2>4
<1> QED
  BY <1>2, <1>3, <1>4

-----------------------------------------------------------------------------
(* Steps that store in one place leave the others alone *)

\* k and m agree but for the n granules from a on.
Outside(m, k, a, n) == \A g \in Granule : (g < a \/ a + n <= g) => k[g] = m[g]

\* The bytes of the blocks X have not changed.
Kept(m, k, X) == \A b \in X : \A g \in Run(b.ptr, b.size) : k[g] = m[g]

\* The sizes of the heap nodes H have not changed.
NodesKept(m, k, H) == \A n \in H : k[n].size = m[n].size

\* The page headers have not changed.
HeadersKept(m, k, P) == \A c \in CPU : \A p \in P[c] : k[p] = m[p]

\* The pages of the processors other than c have not changed.
Others(m, k, P, BS, B2, c) ==
  \A e \in CPU \ {c} : \A p \in P[e] :
    /\ In(B2, p) = In(BS, p)
    /\ \A g \in Granule : p <= g /\ g < p + PageSize => k[g] = m[g]

\* A block apart from the stores is kept.
LEMMA OutsideKeeps ==
  ASSUME NEW m, NEW h, NEW ph, NEW fr, NEW BS, NEW H, NEW P, World(m, h, ph, fr, BS, H, P),
         NEW k, NEW a \in Int, NEW n \in Int, Outside(m, k, a, n), NEW b \in BS, Off(a, n, b.ptr, b.size)
  PROVE  \A g \in Run(b.ptr, b.size) : k[g] = m[g]
<1>1. SUFFICES ASSUME NEW g \in Run(b.ptr, b.size) PROVE k[g] = m[g]
  OBVIOUS
<1>2. /\ b.ptr \in Int /\ b.size \in Nat \ {0} /\ HeapStart < b.ptr /\ b.ptr + b.size <= HeapEnd
      /\ HeapStart \in Int /\ HeapEnd \in Int
  BY BlockFacts, HeapAssumption
<1>3. g \in Int /\ b.ptr <= g /\ g < b.ptr + b.size
  BY <1>1, <1>2 DEF Run
<1>4. g \in Granule
  BY <1>2, <1>3 DEF Granule
<1> QED
  BY <1>2, <1>3, <1>4 DEF Off, Outside

\* A page has room for more than its header.
LEMMA PageSizePos == PageSize \in Nat \ {0}
<1>1. MaxSmall \in Nat \ {0} /\ PageSize \in Nat /\ 4 * MaxSmall <= PageSize
  BY SizeAssumption
<1> QED
  BY <1>1

\* Stores in the bytes of the block b.
LEMMA BodyWorld ==
  ASSUME NEW m, NEW h, NEW ph, NEW fr, NEW BS, NEW H, NEW P, World(m, h, ph, fr, BS, H, P),
         NEW b \in BS, NEW k \in Memory, Outside(m, k, b.ptr, b.size)
  PROVE  /\ World(k, h, ph, fr, BS, H, P) /\ Kept(m, k, BS \ {b}) /\ HeadersKept(m, k, P)
         /\ Others(m, k, P, BS, BS, b.cpu) /\ NodesKept(m, k, H)
<1>1. b.ptr \in Int /\ b.size \in Nat \ {0} /\ PageSize \in Nat \ {0} /\ m \in Memory
  BY BlockFacts, PageSizePos DEF World
<1>2. ASSUME NEW n \in H PROVE k[n] = m[n]
  <2>1. n \in Granule /\ n \in Int /\ m[n].size \in Nat \ {0} /\ Off(n, m[n].size, b.ptr, b.size)
    BY NodeFacts, NodeOff
  <2> QED
    BY <2>1, <1>1 DEF Off, Outside
<1>3. HeapInv(k, h, H)
  <2>1. List(m, h, H) /\ \A n \in H : k[n].next = m[n].next
    BY <1>2 DEF World, HeapInv
  <2>2. List(k, h, H)
    BY ONLY <2>1, k \in Memory, ListFrame
  <2> QED
    BY <2>2, <1>2 DEF World, HeapInv
<1>4. ASSUME NEW c \in CPU, NEW p \in P[c], NEW g \in Granule, p <= g, g < p + PageSize,
             g < b.ptr \/ b.ptr + b.size <= g \/ b \notin In(BS, p) \/ b.cpu # c
      PROVE  k[g] = m[g]
  <2>1. p \in Pages(P, fr, c)
    BY <1>4 DEF Pages
  <2>2. PageAt(p) /\ p \in Int /\ g \in Int
    BY <2>1, PageFacts, GranuleInt DEF World, PageInv
  <2>3. CASE g < b.ptr \/ b.ptr + b.size <= g
    BY <2>3 DEF Outside
  <2>4. CASE b \notin In(BS, p) \/ b.cpu # c
    <3>1. Off(p, PageSize, b.ptr, b.size)
      BY <2>1, <2>4, PageOrOff
    <3> QED
      BY <3>1, <2>2, <1>1, <1>4 DEF Off, Outside
  <2> QED
    BY <1>4, <2>3, <2>4
<1>5. ASSUME NEW c \in CPU, NEW p \in P[c] PROVE k[p] = m[p]
  <2>1. p \in Pages(P, fr, c)
    BY <1>5 DEF Pages
  <2>2. PageAt(p) /\ p \in Int /\ p \in Granule
    BY <2>1, PageFacts DEF World, PageInv
  <2>3. p < b.ptr \/ b \notin In(BS, p)
    BY DEF In
  <2>4. p <= p /\ p < p + PageSize
    BY <2>2, <1>1
  <2> QED
    BY <2>2, <2>3, <2>4, <1>4
<1>6. PageInv(k, ph, fr, P)
  <2>1. ASSUME NEW c \in CPU PROVE List(k, ph[c], P[c])
    <3>1. List(m, ph[c], P[c]) /\ \A p \in P[c] : k[p].next = m[p].next
      BY <1>5 DEF World, PageInv
    <3> QED
      BY ONLY <3>1, k \in Memory, ListFrame
  <2> QED
    BY <2>1 DEF World, PageInv
<1>7. FillInv(k, P, BS)
  <2>1. ASSUME NEW c \in CPU, NEW p \in P[c] PROVE PageOK(k, p, In(BS, p))
    <3>1. p \in Pages(P, fr, c) /\ PageOK(m, p, In(BS, p))
      BY <2>1 DEF Pages, World, FillInv
    <3>2. PageAt(p) /\ p \in Int
      BY <3>1, PageFacts DEF World, PageInv
    <3>3. k[p].size = m[p].size /\ k[p].magic = m[p].magic
      BY <1>5
    <3>4. ASSUME NEW g \in Granule, p < g, g < p + PageSize,
                 \A a \in In(BS, p) : g < a.ptr \/ a.ptr + a.size <= g
          PROVE  k[g] = m[g]
      <4>1. p <= g
        BY <3>2, <3>4, GranuleInt
      <4>2. g < b.ptr \/ b.ptr + b.size <= g \/ b \notin In(BS, p)
        BY <3>4
      <4> QED
        BY <4>1, <4>2, <3>4, <1>4
    <3>5. \A g \in Granule : p < g /\ g < p + PageSize
             /\ (\A a \in In(BS, p) : g < a.ptr \/ a.ptr + a.size <= g) => k[g] = m[g]
      BY <3>4
    <3> QED
      BY ONLY <1>1, <3>1, <3>2, <3>3, <3>5, k \in Memory, PageFrame
  <2> QED
    BY <2>1 DEF World, FillInv
<1>8. BlockInv(k, P, BS)
  <2>1. ASSUME NEW a \in Huge(BS) PROVE HugeOK(k, a)
    <3>1. HugeOK(m, a) /\ a \in BS /\ IsHuge(a)
      BY DEF World, BlockInv, Huge
    <3>2. Off(b.ptr, b.size, a.ptr - 1, 1) /\ a.ptr \in Int /\ HeapStart < a.ptr /\ a.ptr + a.size <= HeapEnd
          /\ a.size \in Nat \ {0}
      BY <3>1, BodiesOff, BlockFacts
    <3>3. a.ptr - 1 \in Granule
      BY <3>2, HeapAssumption DEF Granule
    <3>4. k[a.ptr - 1] = m[a.ptr - 1]
      BY <3>2, <3>3, <1>1 DEF Off, Outside
    <3> QED
      BY <3>1, <3>4 DEF HugeOK
  <2> QED
    BY <2>1 DEF World, BlockInv
<1>9. SpanInv(k, H, P, fr, BS)
  BY <1>2 DEF World, SpanInv
<1>10. Kept(m, k, BS \ {b})
  <2>1. ASSUME NEW a \in BS \ {b} PROVE \A g \in Run(a.ptr, a.size) : k[g] = m[g]
    <3>1. Off(b.ptr, b.size, a.ptr, a.size) /\ b.size \in Int
      BY <1>1, BodiesOff
    <3> QED
      BY <3>1, <1>1, OutsideKeeps
  <2> QED
    BY <2>1 DEF Kept
<1>11. HeadersKept(m, k, P) /\ Others(m, k, P, BS, BS, b.cpu)
  BY <1>4, <1>5 DEF HeadersKept, Others
<1>12. NodesKept(m, k, H)
  BY <1>2 DEF NodesKept
<1> QED
  BY <1>3, <1>6, <1>7, <1>8, <1>9, <1>10, <1>11, <1>12 DEF World

\* Stores in the page at p of processor c, which change the blocks of that page.
Edits(BS, B2, p, c) ==
  /\ B2 \subseteq Block /\ Huge(B2) = Huge(BS)
  /\ \A b \in (B2 \ BS) \cup (BS \ B2) :
       b.size \in SizeClass /\ b.cpu = c /\ p < b.ptr /\ b.ptr < p + PageSize

\* Processor c takes blocks from, or gives blocks back to, its page at p.
LEMMA PageWorld ==
  ASSUME NEW m, NEW h, NEW ph, NEW fr, NEW BS, NEW H, NEW P, World(m, h, ph, fr, BS, H, P),
         NEW c \in CPU, NEW p \in P[c], NEW k, NEW B2, Edits(BS, B2, p, c),
         Within(m, k, p, In(BS, p) \cap In(B2, p)), PageOK(k, p, In(B2, p))
  PROVE  /\ World(k, h, ph, fr, B2, H, P) /\ Kept(m, k, BS \cap B2) /\ Others(m, k, P, BS, B2, c)
         /\ NodesKept(m, k, H)
<1>1. p \in Pages(P, fr, c) /\ PageSize \in Nat \ {0} /\ m \in Memory /\ k \in Memory
  BY PageSizePos DEF Pages, World, Within
<1>2. PageAt(p) /\ p \in Int /\ p \in Granule
  BY <1>1, PageFacts DEF World, PageInv
<1>3. Outside(m, k, p, PageSize) /\ k[p].next = m[p].next
  BY DEF Within, Outside
<1>4. ASSUME NEW n \in H PROVE k[n] = m[n]
  <2>1. n \in Granule /\ n \in Int /\ m[n].size \in Nat \ {0} /\ Off(n, m[n].size, p, PageSize)
    BY <1>1, NodeFacts DEF World, SpanInv
  <2> QED
    BY <2>1, <1>1, <1>2, <1>3 DEF Off, Outside
<1>5. HeapInv(k, h, H)
  <2>1. List(m, h, H) /\ \A n \in H : k[n].next = m[n].next
    BY <1>4 DEF World, HeapInv
  <2>2. List(k, h, H)
    BY ONLY <2>1, <1>1, ListFrame
  <2> QED
    BY <2>2, <1>4 DEF World, HeapInv
<1>6. ASSUME NEW d \in CPU, NEW q \in P[d], d # c \/ q # p
      PROVE  /\ PageAt(q) /\ q \in Int /\ q \in Granule /\ Off(p, PageSize, q, PageSize)
             /\ \A g \in Granule : (q <= g /\ g < q + PageSize) => k[g] = m[g]
             /\ In(B2, q) = In(BS, q)
  <2>1. q \in Pages(P, fr, d)
    BY DEF Pages
  <2>2. PageAt(q) /\ q \in Int /\ q \in Granule
    BY <2>1, PageFacts DEF World, PageInv
  <2>3. Off(p, PageSize, q, PageSize)
    BY <2>1, <1>1, <1>6 DEF World, SpanInv
  <2>4. \A g \in Granule : (q <= g /\ g < q + PageSize) => k[g] = m[g]
    <3>1. \A g \in Granule : g \in Int
      BY GranuleInt
    <3> QED
      BY <3>1, <2>2, <2>3, <1>1, <1>2, <1>3 DEF Off, Outside
  <2>5. \A b \in (B2 \ BS) \cup (BS \ B2) : ~(q < b.ptr /\ b.ptr < q + PageSize)
    <3>1. SUFFICES ASSUME NEW b \in (B2 \ BS) \cup (BS \ B2) PROVE ~(q < b.ptr /\ b.ptr < q + PageSize)
      OBVIOUS
    <3>2. p < b.ptr /\ b.ptr < p + PageSize /\ b \in Block
      BY DEF Edits, World, BlockInv
    <3>3. b.ptr \in Int
      BY <3>2, BlockTypes
    <3> QED
      BY <3>2, <3>3, <2>2, <2>3, <1>1, <1>2 DEF Off
  <2>6. In(B2, q) = In(BS, q)
    BY <2>5 DEF In
  <2> QED
    BY <2>2, <2>3, <2>4, <2>6
<1>7. ASSUME NEW d \in CPU, NEW q \in P[d] PROVE k[q].next = m[q].next
  <2>1. CASE d = c /\ q = p
    BY <2>1, <1>3
  <2>2. CASE d # c \/ q # p
    <3>1. q \in Granule /\ q <= q /\ q < q + PageSize
      BY <2>2, <1>6, <1>1
    <3>2. k[q] = m[q]
      BY <3>1, <2>2, <1>6
    <3> QED
      BY <3>2
  <2> QED
    BY <2>1, <2>2
<1>8. PageInv(k, ph, fr, P)
  <2>1. ASSUME NEW d \in CPU PROVE List(k, ph[d], P[d])
    <3>1. List(m, ph[d], P[d]) /\ \A q \in P[d] : k[q].next = m[q].next
      BY <1>7 DEF World, PageInv
    <3> QED
      BY ONLY <3>1, <1>1, ListFrame
  <2> QED
    BY <2>1 DEF World, PageInv
<1>9. FillInv(k, P, B2)
  <2>1. ASSUME NEW d \in CPU, NEW q \in P[d]
        PROVE  PageOK(k, q, In(B2, q)) /\ \A b \in In(B2, q) : b.cpu = d
    <3>1. CASE d = c /\ q = p
      <4>1. ASSUME NEW b \in In(B2, p) PROVE b.cpu = c
        <5>1. CASE b \in BS
          BY <5>1, <3>1, <4>1 DEF World, FillInv, In
        <5>2. CASE b \notin BS
          BY <5>2, <4>1 DEF Edits, In
        <5> QED
          BY <5>1, <5>2
      <4> QED
        BY <3>1, <4>1
    <3>2. CASE d # c \/ q # p
      <4>1. /\ PageAt(q) /\ q \in Int /\ q \in Granule
            /\ \A g \in Granule : (q <= g /\ g < q + PageSize) => k[g] = m[g]
            /\ In(B2, q) = In(BS, q)
        BY <3>2, <1>6
      <4>2. PageOK(m, q, In(BS, q)) /\ \A b \in In(BS, q) : b.cpu = d
        BY DEF World, FillInv
      <4>3. k[q] = m[q]
        <5>1. q <= q /\ q < q + PageSize
          BY <4>1, <1>1
        <5> QED
          BY <5>1, <4>1
      <4>4. \A g \in Granule : q < g /\ g < q + PageSize
               /\ (\A a \in In(BS, q) : g < a.ptr \/ a.ptr + a.size <= g) => k[g] = m[g]
        BY <4>1, GranuleInt
      <4>5. PageOK(k, q, In(BS, q))
        <5>1. k[q].size = m[q].size /\ k[q].magic = m[q].magic
          BY <4>3
        <5> QED
          BY ONLY <5>1, <1>1, <4>1, <4>2, <4>4, PageFrame
      <4> QED
        BY <4>1, <4>2, <4>5
    <3> QED
      BY <3>1, <3>2
  <2> QED
    BY <2>1 DEF FillInv
<1>10. BlockInv(k, P, B2)
  <2>1. ASSUME NEW a \in Huge(BS) PROVE HugeOK(k, a)
    <3>1. HugeOK(m, a) /\ a \in BS
      BY DEF World, BlockInv, Huge
    <3>2. a.ptr \in Int /\ HeapStart < a.ptr /\ a.ptr + a.size <= HeapEnd /\ a.size \in Nat \ {0}
      BY <3>1, BlockFacts
    <3>3. Off(p, PageSize, a.ptr - 1, a.size + 1)
      BY <1>1 DEF World, SpanInv
    <3>4. a.ptr - 1 \in Granule
      BY <3>2, HeapAssumption DEF Granule
    <3>5. k[a.ptr - 1] = m[a.ptr - 1]
      BY <3>2, <3>3, <3>4, <1>1, <1>2, <1>3 DEF Off, Outside
    <3> QED
      BY <3>1, <3>5 DEF HugeOK
  <2>2. ASSUME NEW b \in B2 PROVE b.size \in SizeClass
    BY DEF Edits, World, BlockInv
  <2>3. ASSUME NEW b \in B2 \ Huge(B2) PROVE \E q \in P[b.cpu] : b \in In(B2, q)
    <3>1. CASE b \in BS
      <4>1. b \in BS \ Huge(BS)
        BY <3>1, <2>3 DEF Edits
      <4>2. PICK q \in P[b.cpu] : b \in In(BS, q)
        BY <4>1 DEF World, BlockInv
      <4> QED
        BY <4>2, <2>3 DEF In
    <3>2. CASE b \notin BS
      <4>1. b.cpu = c /\ b \in In(B2, p)
        BY <3>2, <2>3 DEF Edits, In, Huge
      <4> QED
        BY <4>1
    <3> QED
      BY <3>1, <3>2
  <2> QED
    BY <2>1, <2>2, <2>3 DEF BlockInv, Edits
<1>11. SpanInv(k, H, P, fr, B2)
  BY <1>4 DEF World, SpanInv, Edits
<1>12. Kept(m, k, BS \cap B2)
  <2>1. ASSUME NEW a \in BS \cap B2 PROVE \A g \in Run(a.ptr, a.size) : k[g] = m[g]
    <3>1. CASE a \in In(BS, p)
      <4>1. a \in In(BS, p) \cap In(B2, p)
        BY <3>1, <2>1 DEF In
      <4> QED
        BY <4>1 DEF Within
    <3>2. CASE a \notin In(BS, p)
      <4>1. Off(p, PageSize, a.ptr, a.size) /\ PageSize \in Int
        BY <3>2, <1>1, PageOrOff
      <4> QED
        BY <4>1, <1>2, <1>3, OutsideKeeps
    <3> QED
      BY <3>1, <3>2
  <2> QED
    BY <2>1 DEF Kept
<1>13. Others(m, k, P, BS, B2, c)
  BY <1>6 DEF Others
<1>14. NodesKept(m, k, H)
  BY <1>4 DEF NodesKept
<1> QED
  BY <1>1, <1>5, <1>8, <1>9, <1>10, <1>11, <1>12, <1>13, <1>14 DEF World

\* Processor c formats the page it was given and puts it on its list.
NewPaged(m, k, h, ph2, fr2, BS, B2, H, P, P2, c) ==
  /\ World(k, h, ph2, fr2, B2, H, P2) /\ Kept(m, k, BS) /\ Others(m, k, P, BS, B2, c)
  /\ NodesKept(m, k, H)
Formatted(m, k, ph, BS, B2, c, p) ==
  /\ p # NULL /\ k \in Memory /\ Edits(BS, B2, p, c) /\ BS \subseteq B2
  /\ Outside(m, k, p, PageSize) /\ k[p].next = ph[c] /\ PageOK(k, p, B2 \ BS)

\* The other pages, the heap list and all blocks are as before.
LEMMA NewPageWorld ==
  ASSUME NEW m, NEW h, NEW ph, NEW fr, NEW BS, NEW H, NEW P, World(m, h, ph, fr, BS, H, P),
         NEW c \in CPU, NEW p, p = fr[c], NEW k, NEW B2, Formatted(m, k, ph, BS, B2, c, p),
         NEW ph2, ph2 = [ph EXCEPT ![c] = p], NEW fr2, fr2 = [fr EXCEPT ![c] = NULL],
         NEW P2, P2 = [P EXCEPT ![c] = @ \cup {p}]
  PROVE  NewPaged(m, k, h, ph2, fr2, BS, B2, H, P, P2, c)
<1>0. Outside(m, k, p, PageSize)
  BY DEF Formatted
<1> USE DEF Formatted
<1>1. p \in Pages(P, fr, c) /\ PageSize \in Nat \ {0} /\ m \in Memory /\ p \notin P[c]
  BY PageSizePos DEF Pages, World, PageInv
<1>2. PageAt(p) /\ p \in Int /\ p \in Granule
  BY <1>1, PageFacts DEF World, PageInv
<1>3. P \in [CPU -> SUBSET Granule] /\ ph \in [CPU -> Int] /\ fr \in [CPU -> Int]
  BY DEF World, PageInv
<1>4. /\ P2[c] = P[c] \cup {p} /\ ph2[c] = p /\ fr2[c] = NULL
      /\ \A d \in CPU \ {c} : P2[d] = P[d] /\ ph2[d] = ph[d] /\ fr2[d] = fr[d]
      /\ P2 \in [CPU -> SUBSET Granule] /\ ph2 \in [CPU -> Int] /\ fr2 \in [CPU -> Int]
  BY <1>2, <1>3, GranuleInt
<1>5. ASSUME NEW d \in CPU PROVE Pages(P2, fr2, d) = Pages(P, fr, d)
  <2>1. CASE d = c
    BY <2>1, <1>4 DEF Pages
  <2>2. CASE d # c
    BY <2>2, <1>4 DEF Pages
  <2> QED
    BY <2>1, <2>2
<1>6. ASSUME NEW n \in H PROVE k[n] = m[n]
  <2>1. n \in Granule /\ n \in Int /\ m[n].size \in Nat \ {0} /\ Off(n, m[n].size, p, PageSize)
    BY <1>1, NodeFacts DEF World, SpanInv
  <2> QED
    BY <2>1, <1>1, <1>2 DEF Off, Outside
<1>7. HeapInv(k, h, H)
  <2>1. List(m, h, H) /\ \A n \in H : k[n].next = m[n].next
    BY <1>6 DEF World, HeapInv
  <2>2. List(k, h, H)
    BY ONLY <2>1, k \in Memory, ListFrame
  <2> QED
    BY <2>2, <1>6 DEF World, HeapInv
<1>8. ASSUME NEW d \in CPU, NEW q \in P[d]
      PROVE  /\ PageAt(q) /\ q \in Int /\ q \in Granule /\ q # p
             /\ \A g \in Granule : (q <= g /\ g < q + PageSize) => k[g] = m[g]
             /\ In(B2, q) = In(BS, q)
  <2>1. q \in Pages(P, fr, d) /\ (d # c \/ q # p)
    BY <1>1 DEF Pages
  <2>2. PageAt(q) /\ q \in Int /\ q \in Granule
    BY <2>1, PageFacts DEF World, PageInv
  <2>3. Off(p, PageSize, q, PageSize)
    BY <2>1, <1>1 DEF World, SpanInv
  <2>4. \A g \in Granule : (q <= g /\ g < q + PageSize) => k[g] = m[g]
    <3>1. SUFFICES ASSUME NEW g \in Granule, q <= g, g < q + PageSize PROVE k[g] = m[g]
      OBVIOUS
    <3>2. g < p \/ p + PageSize <= g
      BY <3>1, <2>2, <2>3, <1>1, <1>2, GranuleInt DEF Off
    <3> QED
      BY <3>2, <1>0 DEF Outside
  <2>5. \A b \in (B2 \ BS) \cup (BS \ B2) : ~(q < b.ptr /\ b.ptr < q + PageSize)
    <3>1. SUFFICES ASSUME NEW b \in (B2 \ BS) \cup (BS \ B2) PROVE ~(q < b.ptr /\ b.ptr < q + PageSize)
      OBVIOUS
    <3>2. p < b.ptr /\ b.ptr < p + PageSize /\ b \in Block
      BY DEF Edits, World, BlockInv
    <3>3. b.ptr \in Int
      BY <3>2, BlockTypes
    <3> QED
      BY <3>2, <3>3, <2>2, <2>3, <1>1, <1>2 DEF Off
  <2>6. In(B2, q) = In(BS, q)
    BY <2>5 DEF In
  <2>7. q # p
    BY <2>2, <2>3, <1>1, <1>2 DEF Off
  <2> QED
    BY <2>2, <2>4, <2>6, <2>7
<1>9. ASSUME NEW d \in CPU, NEW q \in P[d] PROVE k[q] = m[q]
  <2>1. q \in Granule /\ q <= q /\ q < q + PageSize
    BY <1>8, <1>1
  <2> QED
    BY <2>1, <1>8
<1>10. PageInv(k, ph2, fr2, P2)
  <2>1. ASSUME NEW d \in CPU PROVE List(k, ph2[d], P2[d]) /\ fr2[d] \notin P2[d]
    <3>1. List(m, ph[d], P[d]) /\ \A q \in P[d] : k[q].next = m[q].next
      BY <1>9 DEF World, PageInv
    <3>2. CASE d = c
      <4>1. List(k, p, P[c] \cup {p})
        <5>1. p \in Granule \ P[c]
          BY <1>1, <1>2
        <5> QED
          BY ONLY <3>1, <3>2, <5>1, k \in Memory, k[p].next = ph[c], ListPush
      <4>2. NULL \notin P2[c]
        BY <1>4, <1>3, GranuleInt
      <4> QED
        BY <3>2, <4>1, <4>2, <1>4
    <3>3. CASE d # c
      <4>1. List(k, ph[d], P[d])
        BY ONLY <3>1, k \in Memory, ListFrame
      <4> QED
        BY <4>1, <3>3, <1>4 DEF World, PageInv
    <3> QED
      BY <3>2, <3>3
  <2>2. \A d \in CPU : \A q \in Pages(P2, fr2, d) : PageAt(q)
    BY <1>5 DEF World, PageInv
  <2> QED
    BY <2>1, <2>2, <1>4 DEF PageInv
<1>11. In(B2, p) = B2 \ BS
  <2>1. \A b \in BS : b \notin In(BS, p)
    BY <1>1, PageOrOff
  <2>2. \A b \in B2 \ BS : ~IsHuge(b) /\ p < b.ptr /\ b.ptr < p + PageSize
    BY DEF Edits, Huge
  <2> QED
    BY <2>1, <2>2 DEF In
<1>12. FillInv(k, P2, B2)
  <2>1. ASSUME NEW d \in CPU, NEW q \in P2[d]
        PROVE  PageOK(k, q, In(B2, q)) /\ \A b \in In(B2, q) : b.cpu = d
    <3>1. CASE d = c /\ q = p
      BY <3>1, <1>11 DEF Edits
    <3>2. CASE ~(d = c /\ q = p)
      <4>0. q \in P[d]
        BY <3>2, <1>4
      <4>1. /\ PageAt(q) /\ q \in Int /\ q \in Granule
            /\ \A g \in Granule : (q <= g /\ g < q + PageSize) => k[g] = m[g]
            /\ In(B2, q) = In(BS, q)
        BY <4>0, <1>8
      <4>2. PageOK(m, q, In(BS, q)) /\ \A b \in In(BS, q) : b.cpu = d
        BY <4>0 DEF World, FillInv
      <4>3. k[q].size = m[q].size /\ k[q].magic = m[q].magic
        BY <4>0, <1>9
      <4>4. \A g \in Granule : q < g /\ g < q + PageSize
               /\ (\A a \in In(BS, q) : g < a.ptr \/ a.ptr + a.size <= g) => k[g] = m[g]
        BY <4>1, GranuleInt
      <4>5. PageOK(k, q, In(BS, q))
        BY ONLY <4>3, k \in Memory, <1>1, <4>1, <4>2, <4>4, PageFrame
      <4> QED
        BY <4>1, <4>2, <4>5
    <3> QED
      BY <3>1, <3>2
  <2> QED
    BY <2>1 DEF FillInv
<1>13. BlockInv(k, P2, B2)
  <2>1. ASSUME NEW a \in Huge(BS) PROVE HugeOK(k, a)
    <3>1. HugeOK(m, a) /\ a \in BS
      BY DEF World, BlockInv, Huge
    <3>2. a.ptr \in Int /\ HeapStart < a.ptr /\ a.ptr + a.size <= HeapEnd /\ a.size \in Nat \ {0}
      BY <3>1, BlockFacts
    <3>3. Off(p, PageSize, a.ptr - 1, a.size + 1)
      BY <1>1 DEF World, SpanInv
    <3>4. a.ptr - 1 \in Granule
      BY <3>2, HeapAssumption DEF Granule
    <3>5. k[a.ptr - 1] = m[a.ptr - 1]
      BY <3>2, <3>3, <3>4, <1>1, <1>2 DEF Off, Outside
    <3> QED
      BY <3>1, <3>5 DEF HugeOK
  <2>2. ASSUME NEW b \in B2 PROVE b.size \in SizeClass
    BY DEF Edits, World, BlockInv
  <2>3. ASSUME NEW b \in B2 \ Huge(B2) PROVE \E q \in P2[b.cpu] : b \in In(B2, q)
    <3>1. CASE b \in BS
      <4>1. b \in BS \ Huge(BS) /\ b.cpu \in CPU
        BY <3>1, <2>3, BlockFacts DEF Edits
      <4>2. PICK q \in P[b.cpu] : b \in In(BS, q)
        BY <4>1 DEF World, BlockInv
      <4>3. q \in P2[b.cpu]
        BY <4>1, <4>2, <1>4
      <4> QED
        BY <4>2, <4>3, <2>3 DEF In
    <3>2. CASE b \notin BS
      <4>1. b.cpu = c /\ b \in In(B2, p)
        BY <3>2, <2>3, <1>11 DEF Edits
      <4> QED
        BY <4>1, <1>4
    <3> QED
      BY <3>1, <3>2
  <2> QED
    BY <2>1, <2>2, <2>3 DEF BlockInv, Edits
<1>14. SpanInv(k, H, P2, fr2, B2)
  BY <1>5, <1>6 DEF World, SpanInv, Edits
<1>15. Kept(m, k, BS)
  <2>1. ASSUME NEW a \in BS PROVE \A g \in Run(a.ptr, a.size) : k[g] = m[g]
    <3>1. a \notin In(BS, p)
      BY <1>1, PageOrOff
    <3>2. Off(p, PageSize, a.ptr, a.size) /\ PageSize \in Int
      BY <3>1, <1>1, PageOrOff
    <3> QED
      BY <3>2, <1>2, OutsideKeeps
  <2> QED
    BY <2>1 DEF Kept
<1>16. Others(m, k, P, BS, B2, c)
  BY <1>8 DEF Others
<1>17. NodesKept(m, k, H)
  BY <1>6 DEF NodesKept
<1> QED
  BY <1>7, <1>10, <1>11, <1>12, <1>13, <1>14, <1>15, <1>16, <1>17 DEF World, NewPaged

-----------------------------------------------------------------------------
(* Edits of the heap list *)

\* The pages have not changed.
PagesKept(m, k, P) ==
  \A c \in CPU : \A p \in P[c] : \A g \in Granule : (p <= g /\ g < p + PageSize) => k[g] = m[g]

\* New heap lists and huge blocks.
LEMMA HeapWorld ==
  ASSUME NEW m, NEW h, NEW ph, NEW fr, NEW BS, NEW H, NEW P, World(m, h, ph, fr, BS, H, P),
         NEW k \in Memory, NEW h2, NEW H2, HeapInv(k, h2, H2), PagesKept(m, k, P),
         NEW f2 \in [CPU -> Int], \A c \in CPU : f2[c] \notin P[c],
         \A c \in CPU : \A p \in Pages(P, f2, c) : PageAt(p),
         NEW B2, B2 \subseteq Block, B2 \ Huge(B2) = BS \ Huge(BS),
         \A b \in Huge(B2) : b.size \in SizeClass /\ HugeOK(k, b),
         SpanInv(k, H2, P, f2, B2)
  PROVE  World(k, h2, ph, f2, B2, H2, P) /\ \A p : In(B2, p) = In(BS, p)
<1>1. PageSize \in Nat \ {0} /\ m \in Memory
  BY PageSizePos DEF World
<1>2. ASSUME NEW p PROVE In(B2, p) = In(BS, p)
  <2>1. In(B2, p) = {b \in B2 \ Huge(B2) : p < b.ptr /\ b.ptr < p + PageSize}
    BY DEF In, Huge
  <2>2. In(BS, p) = {b \in BS \ Huge(BS) : p < b.ptr /\ b.ptr < p + PageSize}
    BY DEF In, Huge
  <2> QED
    BY <2>1, <2>2
<1>3. ASSUME NEW c \in CPU, NEW p \in P[c] PROVE PageAt(p) /\ k[p] = m[p]
  <2>1. p \in Pages(P, fr, c)
    BY DEF Pages
  <2>2. PageAt(p) /\ p \in Granule /\ p \in Int
    BY <2>1, PageFacts DEF World, PageInv
  <2>3. p <= p /\ p < p + PageSize
    BY <2>2, <1>1
  <2> QED
    BY <2>2, <2>3 DEF PagesKept
<1>4. PageInv(k, ph, f2, P)
  <2>1. ASSUME NEW c \in CPU PROVE List(k, ph[c], P[c])
    <3>1. List(m, ph[c], P[c]) /\ \A q \in P[c] : k[q].next = m[q].next
      BY <1>3 DEF World, PageInv
    <3> QED
      BY ONLY <3>1, k \in Memory, ListFrame
  <2> QED
    BY <2>1 DEF World, PageInv
<1>5. FillInv(k, P, B2)
  <2>1. ASSUME NEW c \in CPU, NEW p \in P[c]
        PROVE  PageOK(k, p, In(B2, p)) /\ \A b \in In(B2, p) : b.cpu = c
    <3>1. PageOK(m, p, In(BS, p)) /\ \A b \in In(BS, p) : b.cpu = c
      BY DEF World, FillInv
    <3>2. PageAt(p) /\ k[p].size = m[p].size /\ k[p].magic = m[p].magic /\ p \in Int
      BY <1>3, PageFacts
    <3>3. \A g \in Granule : p < g /\ g < p + PageSize
             /\ (\A a \in In(BS, p) : g < a.ptr \/ a.ptr + a.size <= g) => k[g] = m[g]
      BY <3>2, GranuleInt DEF PagesKept
    <3>4. PageOK(k, p, In(BS, p))
      BY ONLY <3>1, <3>2, <3>3, <1>1, k \in Memory, PageFrame
    <3> QED
      BY <3>1, <3>4, <1>2
  <2> QED
    BY <2>1 DEF FillInv
<1>6. BlockInv(k, P, B2)
  <2>1. ASSUME NEW b \in B2 PROVE b.size \in SizeClass
    <3>1. CASE b \in Huge(B2)
      BY <3>1
    <3>2. CASE b \notin Huge(B2)
      <4>1. b \in BS
        BY <3>2, <2>1
      <4> QED
        BY <4>1 DEF World, BlockInv
    <3> QED
      BY <3>1, <3>2
  <2>2. ASSUME NEW b \in B2 \ Huge(B2) PROVE \E p \in P[b.cpu] : b \in In(B2, p)
    <3>1. b \in BS \ Huge(BS)
      BY <2>2
    <3>2. PICK p \in P[b.cpu] : b \in In(BS, p)
      BY <3>1 DEF World, BlockInv
    <3> QED
      BY <3>2, <1>2
  <2> QED
    BY <2>1, <2>2 DEF BlockInv
<1> QED
  BY <1>2, <1>4, <1>5, <1>6 DEF World

\* What allockpage does to the list H, when the node n is one page ...
PageUnlinked(m, k, h2, H, n) ==
  /\ k \in Memory /\ List(k, h2, H \ {n})
  /\ \A o \in H \ {n} : k[o].size = m[o].size
  /\ \A g \in Granule \ H : k[g] = m[g]

\* ... and when it is longer.
PageSplit(m, k, h2, H, n) ==
  LET t == n + PageSize
  IN  /\ k \in Memory /\ List(k, h2, (H \ {n}) \cup {t})
      /\ k[t].size = m[n].size - PageSize
      /\ \A o \in H \ {n} : k[o].size = m[o].size
      /\ \A g \in Granule \ (H \cup {t}) : k[g] = m[g]

\* allockpage takes a node of exactly one page off the list.
LEMMA TakePageUnlinks ==
  ASSUME NEW m, NEW h, NEW H, List(m, h, H), NEW n \in H, m[n].size = PageSize
  PROVE  PageUnlinked(m, TakePage(m, h, n), HeadAfterTakePage(m, h, n), H, n)
<1> DEFINE u == Unlink(m, h, n)
           k == TakePage(m, h, n)
           h2 == HeadAfterTakePage(m, h, n)
<1>1. h \in Int /\ H \subseteq Granule /\ n \in Granule /\ n \in Int /\ m \in Memory
  <2>1. h \in Int /\ H \subseteq Granule
    BY ListFacts
  <2> QED
    BY <2>1, GranuleInt DEF List
<1>2. k = memset0(u, n, 1)
  BY DEF TakePage
<1>3. Unlinked(m, u, h, H, n)
  BY UnlinkIs
<1> HIDE DEF u
<1>4. u \in Memory
  BY <1>3 DEF Unlinked
<1>5. k \in Memory /\ \A g \in Granule \ {n} : k[g] = u[g]
  <2>1. /\ k \in Memory
        /\ \A g \in Granule : (g < n \/ n + 1 <= g) => k[g] = u[g]
    BY ONLY <1>1, <1>2, <1>4, 1 \in Int, MemsetCells
  <2>2. \A g \in Granule \ {n} : g < n \/ n + 1 <= g
    BY <1>1, GranuleInt
  <2> QED
    BY <2>1, <2>2
<1> HIDE DEF k, h2
<1>6. \A o \in H \ {n} : k[o].size = m[o].size /\ k[o].next = u[o].next
  BY <1>1, <1>3, <1>5 DEF Unlinked
<1>7. \A g \in Granule \ H : k[g] = m[g]
  BY <1>3, <1>5 DEF Unlinked
<1>8. CASE n # h
  <2>1. h2 = h
    BY <1>8 DEF h2, HeadAfterTakePage
  <2>2. List(u, h, H \ {n})
    BY <1>8, <1>3 DEF Unlinked
  <2>3. List(k, h, H \ {n})
    BY ONLY <2>2, <1>5, <1>6, ListFrame
  <2> QED
    BY <2>1, <2>3, <1>5, <1>6, <1>7 DEF PageUnlinked, k, h2
<1>9. CASE n = h
  <2>1. h2 = m[n].next /\ u = m /\ h # NULL
    BY <1>9, <1>3, <1>1, GranuleInt DEF h2, HeadAfterTakePage, Unlinked
  <2>2. List(m, m[h].next, H \ {h})
    BY <2>1, ListPop
  <2>3. List(k, h2, H \ {n})
    BY ONLY <2>1, <2>2, <1>5, <1>6, <1>9, ListFrame
  <2> QED
    BY <2>3, <1>5, <1>6, <1>7 DEF PageUnlinked, k, h2
<1> QED
  BY <1>8, <1>9

\* allockpage replaces a longer node by its tail.
LEMMA TakePageSplits ==
  ASSUME NEW m, NEW h, NEW H, List(m, h, H), NEW n \in H, m[n].size # PageSize,
         n + PageSize \in Granule \ H
  PROVE  PageSplit(m, TakePage(m, h, n), HeadAfterTakePage(m, h, n), H, n)
<1> DEFINE t == n + PageSize
           cell == [m[t] EXCEPT !.next = m[n].next, !.size = m[n].size - PageSize]
           split == [m EXCEPT ![t] = cell]
           linked == [g \in Granule |-> IF g \in H /\ m[g].next = n
                                          THEN [split[g] EXCEPT !.next = t] ELSE split[g]]
           k == TakePage(m, h, n)
           h2 == HeadAfterTakePage(m, h, n)
<1>1. /\ h \in Int /\ H \subseteq Granule /\ n \in Granule /\ n \in Int /\ m \in Memory /\ H = Nodes(m, h)
      /\ t \in Granule /\ t \in Int /\ t \notin H /\ PageSize \in Nat \ {0} /\ t # n
  <2>1. h \in Int /\ H \subseteq Granule
    BY ListFacts
  <2>2. n \in Granule /\ n \in Int /\ m \in Memory /\ H = Nodes(m, h)
    BY <2>1, GranuleInt DEF List
  <2> QED
    BY <2>1, <2>2, PageSizePos, GranuleInt
<1>2. m[t] \in Cell /\ m[n].next \in Int /\ m[n].size - PageSize \in Int
  BY <1>1, CellFields
<1>3. cell \in Cell /\ cell.next = m[n].next /\ cell.size = m[n].size - PageSize
  BY <1>2 DEF Cell
<1>4. k = memset0(linked, n, 1)
  BY <1>1 DEF TakePage
<1> HIDE DEF cell, k, t
<1>5. split \in Memory /\ split[t] = cell /\ \A g \in Granule \ {t} : split[g] = m[g]
  BY <1>1, <1>3, NodeCells
<1> HIDE DEF split
<1>6. \A g \in Granule : linked[g] = IF g \in H /\ m[g].next = n THEN [split[g] EXCEPT !.next = t] ELSE split[g]
  OBVIOUS
<1>7. linked \in Memory
  <2>1. \A g \in Granule : split[g] \in Cell /\ [split[g] EXCEPT !.next = t] \in Cell
    BY <1>1, <1>5, CellFields, CellEdits
  <2> QED
    BY <2>1 DEF Memory
<1> HIDE DEF linked
<1>8. k \in Memory /\ \A g \in Granule \ {n} : k[g] = linked[g]
  <2>1. /\ k \in Memory
        /\ \A g \in Granule : (g < n \/ n + 1 <= g) => k[g] = linked[g]
    BY ONLY <1>1, <1>4, <1>7, 1 \in Int, MemsetCells
  <2>2. \A g \in Granule \ {n} : g < n \/ n + 1 <= g
    BY <1>1, GranuleInt
  <2> QED
    BY <2>1, <2>2
<1>9. k[t].next = m[n].next /\ k[t].size = m[n].size - PageSize
  BY <1>1, <1>3, <1>5, <1>6, <1>8
<1>10. ASSUME NEW o \in H \ {n}
       PROVE  k[o].size = m[o].size /\ k[o].next = IF m[o].next = n THEN t ELSE m[o].next
  <2>1. o \in Granule /\ o # t /\ m[o] \in Cell
    BY <1>1, CellFields
  <2>2. k[o] = IF m[o].next = n THEN [m[o] EXCEPT !.next = t] ELSE m[o]
    BY <2>1, <1>5, <1>6, <1>8
  <2>3. [m[o] EXCEPT !.next = t].next = t /\ [m[o] EXCEPT !.next = t].size = m[o].size
    BY <2>1 DEF Cell
  <2> QED
    BY <2>2, <2>3
<1>11. \A g \in Granule \ (H \cup {t}) : k[g] = m[g]
  BY <1>5, <1>6, <1>8
<1>12. h2 = IF h = n THEN t ELSE h
  BY DEF h2, HeadAfterTakePage, t
<1>13. List(k, h2, (H \ {n}) \cup {t})
  <2>1. \A o \in H \ {n} : k[o].next = IF m[o].next = n THEN t ELSE m[o].next
    BY <1>10
  <2>2. t \in Granule \ H
    BY <1>1
  <2>3. k \in Memory /\ k[t].next = m[n].next
    BY <1>8, <1>9
  <2>4. List(k, IF h = n THEN t ELSE h, (H \ {n}) \cup {t})
    BY ONLY <2>1, <2>2, <2>3, n \in H, List(m, h, H), ListReplace
  <2> QED
    BY ONLY <2>4, <1>12
<1> QED
  BY <1>8, <1>9, <1>10, <1>11, <1>13 DEF PageSplit, k, h2, t
\* The granule g is one of the n granules from a on.
Covers(a, n, g) == a <= g /\ g < a + n

\* The granules of the heap nodes H and of the huge blocks X with their headers.
Space(m, H, X, g) ==
  \/ \E n \in H : Covers(n, m[n].size, g)
  \/ \E b \in X : Covers(b.ptr - 1, b.size + 1, g)

Spaced(m, H, X, a, n) == \A g \in Int : Covers(a, n, g) => Space(m, H, X, g)

\* Spans that are apart have no granule in common, and conversely.
LEMMA OffCovers ==
  ASSUME NEW a \in Int, NEW n \in Int, NEW b \in Int, NEW k \in Int, Off(a, n, b, k), NEW g \in Int
  PROVE  ~(Covers(a, n, g) /\ Covers(b, k, g))
  BY DEF Off, Covers

\* Runs that share no granule are apart.
LEMMA OffBy ==
  ASSUME NEW a \in Int, NEW n \in Nat \ {0}, NEW b \in Int, NEW k \in Nat \ {0},
         \A g \in Int : ~(Covers(a, n, g) /\ Covers(b, k, g))
  PROVE  Off(a, n, b, k)
<1>1. a <= b => ~(Covers(a, n, b) /\ Covers(b, k, b))
  OBVIOUS
<1>2. b <= a => ~(Covers(a, n, a) /\ Covers(b, k, a))
  OBVIOUS
<1> QED
  BY <1>1, <1>2 DEF Off, Covers

\* The heap nodes and the blocks X meet no page ...
LEMMA SpacePage ==
  ASSUME NEW m, NEW h, NEW ph, NEW fr, NEW BS, NEW H, NEW P, World(m, h, ph, fr, BS, H, P),
         NEW X, X \subseteq Huge(BS), NEW g \in Int, Space(m, H, X, g),
         NEW c \in CPU, NEW p \in Pages(P, fr, c)
  PROVE  ~Covers(p, PageSize, g)
<1>1. PageAt(p) /\ p \in Int /\ PageSize \in Int
  BY PageFacts, PageSizePos DEF World, PageInv
<1>2. ASSUME NEW n \in H, Covers(n, m[n].size, g) PROVE ~Covers(p, PageSize, g)
  <2>1. n \in Int /\ m[n].size \in Int /\ Off(n, m[n].size, p, PageSize)
    BY NodeFacts DEF World, SpanInv
  <2> QED
    BY <2>1, <1>1, <1>2, OffCovers
<1>3. ASSUME NEW b \in X, Covers(b.ptr - 1, b.size + 1, g) PROVE ~Covers(p, PageSize, g)
  <2>1. b.ptr \in Int /\ b.size \in Nat
    BY BlockFacts DEF Huge
  <2>2. b.ptr - 1 \in Int /\ b.size + 1 \in Int /\ Off(p, PageSize, b.ptr - 1, b.size + 1)
    BY <2>1 DEF World, SpanInv
  <2> QED
    BY <2>2, <1>1, <1>3, OffCovers
<1> QED
  BY <1>2, <1>3 DEF Space

\* ... and no other huge block.
LEMMA SpaceHuge ==
  ASSUME NEW m, NEW h, NEW ph, NEW fr, NEW BS, NEW H, NEW P, World(m, h, ph, fr, BS, H, P),
         NEW X, X \subseteq Huge(BS), NEW g \in Int, Space(m, H, X, g), NEW a \in Huge(BS) \ X
  PROVE  ~Covers(a.ptr - 1, a.size + 1, g)
<1>1. a.ptr \in Int /\ a.size \in Nat
  BY BlockFacts DEF Huge
<1>2. a.ptr - 1 \in Int /\ a.size + 1 \in Int
  BY <1>1
<1>3. ASSUME NEW n \in H, Covers(n, m[n].size, g) PROVE ~Covers(a.ptr - 1, a.size + 1, g)
  <2>1. n \in Int /\ m[n].size \in Int /\ Off(n, m[n].size, a.ptr - 1, a.size + 1)
    BY NodeFacts DEF World, SpanInv
  <2> QED
    BY <2>1, <1>2, <1>3, OffCovers
<1>4. ASSUME NEW b \in X, Covers(b.ptr - 1, b.size + 1, g) PROVE ~Covers(a.ptr - 1, a.size + 1, g)
  <2>1. b.ptr \in Int /\ b.size \in Nat
    BY BlockFacts DEF Huge
  <2>2. b.ptr - 1 \in Int /\ b.size + 1 \in Int /\ Off(b.ptr - 1, b.size + 1, a.ptr - 1, a.size + 1)
    BY <2>1 DEF World, SpanInv
  <2> QED
    BY <2>2, <1>2, <1>4, OffCovers
<1> QED
  BY <1>3, <1>4 DEF Space

\* A step of the heap list: stores in Space only, new nodes H2, at most one new page or huge block.
Stores(m, k, H, X) == \A g \in Granule : k[g] = m[g] \/ Space(m, H, X, g)
Apart(k, H2, a, n) == \A o \in H2 : Off(o, k[o].size, a, n)
NewNodes(m, k, H, X, H2) ==
  /\ \A n \in H2 : Spaced(m, H, X, n, k[n].size)
  /\ \A n, o \in H2 : n # o => Off(n, k[n].size, o, k[o].size)
NewPage(m, k, H, X, H2, old, p) ==
  p = old \/ (old = NULL /\ PageAt(p) /\ Spaced(m, H, X, p, PageSize) /\ Apart(k, H2, p, PageSize))
NewHuge(m, k, H, X, H2, b) ==
  /\ b \in Block /\ b.size \in SizeClass /\ HugeOK(k, b)
  /\ Spaced(m, H, X, b.ptr - 1, b.size + 1) /\ Apart(k, H2, b.ptr - 1, b.size + 1)
Change(m, k, h2, H, H2, BS, B2, X, old, p) ==
  /\ k \in Memory /\ HeapInv(k, h2, H2)
  /\ B2 \ Huge(B2) = BS \ Huge(BS) /\ X = BS \ B2
  /\ Stores(m, k, H, X) /\ NewNodes(m, k, H, X, H2) /\ NewPage(m, k, H, X, H2, old, p)
  /\ \A b \in B2 \ BS : NewHuge(m, k, H, X, H2, b)
  /\ \A a, b \in B2 \ BS : a = b
  /\ p = old \/ B2 \subseteq BS

Changed(m, k, h2, ph, f2, BS, B2, H2, P) ==
  /\ World(k, h2, ph, f2, B2, H2, P)
  /\ Kept(m, k, BS \cap B2) /\ PagesKept(m, k, P) /\ \A q : In(B2, q) = In(BS, q)

\* After such a step the heap is in order, and pages and kept blocks have not changed.
LEMMA HeapStep ==
  ASSUME NEW m, NEW h, NEW ph, NEW fr, NEW BS, NEW H, NEW P, World(m, h, ph, fr, BS, H, P),
         NEW k, NEW h2, NEW H2, NEW B2, NEW X, NEW c \in CPU, NEW p,
         Change(m, k, h2, H, H2, BS, B2, X, fr[c], p)
  PROVE  Changed(m, k, h2, ph, [fr EXCEPT ![c] = p], BS, B2, H2, P)
<1> DEFINE f2 == [fr EXCEPT ![c] = p]
<1>0. /\ k \in Memory /\ HeapInv(k, h2, H2)
      /\ B2 \ Huge(B2) = BS \ Huge(BS) /\ X = BS \ B2
      /\ Stores(m, k, H, X) /\ NewNodes(m, k, H, X, H2) /\ NewPage(m, k, H, X, H2, fr[c], p)
      /\ \A b \in B2 \ BS : NewHuge(m, k, H, X, H2, b)
      /\ \A a, b \in B2 \ BS : a = b
      /\ p = fr[c] \/ B2 \subseteq BS
  BY DEF Change
<1> USE <1>0
<1>1. PageSize \in Nat \ {0} /\ m \in Memory /\ HeapStart \in Int /\ HeapEnd \in Int
  BY PageSizePos, HeapAssumption DEF World
<1>2. X \subseteq Huge(BS) /\ \A b \in B2 \ BS : b \in Huge(B2)
  OBVIOUS
<1>3. /\ P \in [CPU -> SUBSET Granule] /\ fr \in [CPU -> Int]
      /\ \A d \in CPU : fr[d] \notin P[d] /\ \A q \in Pages(P, fr, d) : PageAt(q)
  BY DEF World, PageInv
<1>4. \A d \in CPU : \A q \in Pages(P, fr, d) : q \in Int /\ q \in Granule
  BY <1>3, PageFacts
<1>5. PagesKept(m, k, P)
  <2>1. SUFFICES ASSUME NEW d \in CPU, NEW q \in P[d], NEW g \in Granule, q <= g /\ g < q + PageSize
                 PROVE  k[g] = m[g]
    BY DEF PagesKept
  <2>2. q \in Pages(P, fr, d) /\ Covers(q, PageSize, g) /\ g \in Int
    BY <2>1, GranuleInt DEF Pages, Covers
  <2>3. ~Space(m, H, X, g)
    BY <2>2, <1>2, SpacePage
  <2> QED
    BY <2>3 DEF Stores
<1>6. ASSUME NEW b \in BS \cap B2 PROVE \A g \in Run(b.ptr, b.size) : k[g] = m[g]
  <2>1. SUFFICES ASSUME NEW g \in Run(b.ptr, b.size) PROVE k[g] = m[g]
    OBVIOUS
  <2>2. b.ptr \in Int /\ b.size \in Nat \ {0} /\ b.cpu \in CPU /\ HeapStart < b.ptr /\ b.ptr + b.size <= HeapEnd
    BY BlockFacts
  <2>3. g \in Int /\ b.ptr <= g /\ g < b.ptr + b.size
    BY <2>2, <2>1 DEF Run
  <2>4. g \in Granule
    BY <2>2, <2>3, <1>1 DEF Granule
  <2>5. CASE IsHuge(b)
    <3>1. b \in Huge(BS) \ X /\ Covers(b.ptr - 1, b.size + 1, g)
      BY <2>2, <2>3, <2>5 DEF Huge, Covers
    <3>2. ~Space(m, H, X, g)
      BY <3>1, <2>3, <1>2, SpaceHuge
    <3> QED
      BY <3>2, <2>4 DEF Stores
  <2>6. CASE ~IsHuge(b)
    <3>1. PICK q \in P[b.cpu] : q \in Int /\ q < b.ptr /\ b.ptr + b.size <= q + PageSize
      BY <2>6, SmallIn
    <3>2. q <= g /\ g < q + PageSize
      BY <3>1, <2>2, <2>3, <1>1
    <3> QED
      BY <3>1, <3>2, <2>2, <2>4, <1>5 DEF PagesKept
  <2> QED
    BY <2>5, <2>6
<1>7. ASSUME NEW b \in Huge(BS) \cap B2 PROVE HugeOK(k, b)
  <2>1. b.ptr \in Int /\ b.size \in Nat \ {0} /\ HeapStart < b.ptr /\ b.ptr + b.size <= HeapEnd /\ HugeOK(m, b)
    BY BlockFacts DEF World, BlockInv, Huge
  <2>2. b.ptr - 1 \in Granule /\ b.ptr - 1 \in Int /\ Covers(b.ptr - 1, b.size + 1, b.ptr - 1)
    BY <2>1, <1>1 DEF Granule, Covers
  <2>3. ~Space(m, H, X, b.ptr - 1)
    <3>1. b \in Huge(BS) \ X
      OBVIOUS
    <3> QED
      BY ONLY <3>1, <2>2, <1>2, World(m, h, ph, fr, BS, H, P), SpaceHuge
  <2>4. k[b.ptr - 1] = m[b.ptr - 1]
    BY <2>3, <2>2 DEF Stores
  <2> QED
    BY <2>1, <2>4 DEF HugeOK
<1>8. \A b \in Huge(B2) : (b \in BS \cap B2 /\ b \in Huge(BS)) \/ (b \in B2 \ BS /\ NewHuge(m, k, H, X, H2, b))
  BY DEF Huge
<1>9. B2 \subseteq Block /\ \A b \in Huge(B2) : b.size \in SizeClass /\ HugeOK(k, b)
  <2>1. \A b \in BS : b \in Block /\ b.size \in SizeClass
    BY DEF World, BlockInv
  <2> QED
    BY <2>1, <1>7, <1>8 DEF NewHuge
<1>10. p \in Int /\ (p # fr[c] => PageAt(p) /\ fr[c] = NULL /\ Spaced(m, H, X, p, PageSize) /\ Apart(k, H2, p, PageSize))
  BY <1>3, PageFacts, GranuleInt DEF NewPage
<1>11. /\ f2 \in [CPU -> Int] /\ f2[c] = p /\ \A d \in CPU \ {c} : f2[d] = fr[d]
  BY <1>3, <1>10
<1> HIDE DEF f2
<1>12. \A d \in CPU : \A q \in Pages(P, f2, d) : q \in Pages(P, fr, d) \/ (d = c /\ q = p /\ p # fr[c])
  BY <1>11 DEF Pages
<1>13. ASSUME NEW q \in Int, Spaced(m, H, X, q, PageSize), NEW d \in CPU, NEW r \in Pages(P, fr, d)
       PROVE  Off(q, PageSize, r, PageSize) /\ Off(r, PageSize, q, PageSize)
  <2>1. \A g \in Int : ~(Covers(q, PageSize, g) /\ Covers(r, PageSize, g))
    BY <1>13, <1>2, SpacePage DEF Spaced
  <2>2. r \in Int
    BY <1>4
  <2>3. Off(q, PageSize, r, PageSize)
    BY <2>1, <2>2, <1>1, OffBy
  <2> QED
    BY <2>3 DEF Off
<1>14. p # fr[c] => p \notin P[c]
  <2>1. ASSUME p # fr[c], p \in P[c] PROVE FALSE
    <3>1. p \in Pages(P, fr, c)
      BY <2>1 DEF Pages
    <3>2. Off(p, PageSize, p, PageSize)
      BY <3>1, <2>1, <1>10, <1>13
    <3> QED
      BY <3>2, <1>10, <1>1 DEF Off
  <2> QED
    BY <2>1
<1>15. ASSUME NEW n \in H2 PROVE n \in Int /\ k[n].size \in Nat \ {0} /\ Spaced(m, H, X, n, k[n].size)
  <2>1. n \in Granule /\ k[n].size >= 1
    BY ListFacts DEF HeapInv
  <2>2. n \in Int /\ k[n].size \in Int
    BY <2>1, GranuleInt, CellFields
  <2> QED
    BY <2>1, <2>2 DEF NewNodes
<1>16. SpanInv(k, H2, P, f2, B2)
  <2>1. \A n, o \in H2 : n # o => Off(n, k[n].size, o, k[o].size)
    BY DEF NewNodes
  <2>2. ASSUME NEW n \in H2, NEW d \in CPU, NEW q \in Pages(P, f2, d) PROVE Off(n, k[n].size, q, PageSize)
    <3>1. CASE q \in Pages(P, fr, d)
      <4>1. q \in Int
        BY <3>1, <1>4
      <4>2. \A g \in Int : ~(Covers(n, k[n].size, g) /\ Covers(q, PageSize, g))
        BY <3>1, <1>2, <1>15, SpacePage DEF Spaced
      <4> QED
        BY <4>1, <4>2, <1>1, <1>15, OffBy
    <3>2. CASE q \notin Pages(P, fr, d)
      BY <3>2, <1>12, <1>10 DEF Apart
    <3> QED
      BY <3>1, <3>2
  <2>3. ASSUME NEW n \in H2, NEW b \in Huge(B2) PROVE Off(n, k[n].size, b.ptr - 1, b.size + 1)
    <3>1. CASE b \in BS \cap B2 /\ b \in Huge(BS)
      <4>1. b.ptr \in Int /\ b.size \in Nat \ {0}
        BY <3>1, BlockFacts
      <4>2. b.ptr - 1 \in Int /\ b.size + 1 \in Nat \ {0}
        BY <4>1
      <4>3. b \in Huge(BS) \ X
        BY <3>1
      <4>4. \A g \in Int : ~(Covers(n, k[n].size, g) /\ Covers(b.ptr - 1, b.size + 1, g))
        BY <4>3, <1>2, <1>15, SpaceHuge DEF Spaced
      <4> QED
        BY ONLY <4>2, <4>4, <1>15, n \in H2, OffBy
    <3>2. CASE b \in B2 \ BS
      BY <3>2, <1>8 DEF NewHuge, Apart
    <3> QED
      BY <3>1, <3>2, <1>8
  <2>4. ASSUME NEW d \in CPU, NEW e \in CPU, NEW q \in Pages(P, f2, d), NEW r \in Pages(P, f2, e), d # e \/ q # r
        PROVE  Off(q, PageSize, r, PageSize)
    <3>1. CASE q \in Pages(P, fr, d) /\ r \in Pages(P, fr, e)
      BY <3>1, <2>4 DEF World, SpanInv
    <3>2. CASE q \notin Pages(P, fr, d) /\ r \in Pages(P, fr, e)
      BY <3>2, <1>10, <1>12, <1>13
    <3>3. CASE q \in Pages(P, fr, d) /\ r \notin Pages(P, fr, e)
      BY <3>3, <1>10, <1>12, <1>13
    <3>4. CASE q \notin Pages(P, fr, d) /\ r \notin Pages(P, fr, e)
      BY <3>4, <2>4, <1>12
    <3> QED
      BY <3>1, <3>2, <3>3, <3>4
  <2>5. ASSUME NEW d \in CPU, NEW q \in Pages(P, f2, d), NEW b \in Huge(B2)
        PROVE  Off(q, PageSize, b.ptr - 1, b.size + 1)
    <3>1. CASE b \in BS \cap B2 /\ b \in Huge(BS)
      <4>1. CASE q \in Pages(P, fr, d)
        BY <3>1, <4>1 DEF World, SpanInv
      <4>2. CASE q \notin Pages(P, fr, d)
        <5>1. b.ptr \in Int /\ b.size \in Nat \ {0}
          BY <3>1, BlockFacts
        <5>2. b.ptr - 1 \in Int /\ b.size + 1 \in Nat \ {0} /\ b \in Huge(BS) \ X
          BY <3>1, <5>1
        <5>3. q \in Int /\ Spaced(m, H, X, q, PageSize)
          BY <4>2, <1>12, <1>10
        <5>4. \A g \in Int : ~(Covers(q, PageSize, g) /\ Covers(b.ptr - 1, b.size + 1, g))
          BY <5>2, <5>3, <1>2, SpaceHuge DEF Spaced
        <5> QED
          BY ONLY <5>2, <5>3, <5>4, <1>1, OffBy
      <4> QED
        BY <4>1, <4>2
    <3>2. CASE b \in B2 \ BS
      <4>1. p = fr[c] /\ NewHuge(m, k, H, X, H2, b)
        BY <3>2, <1>8
      <4>2. q \in Pages(P, fr, d)
        BY <4>1, <1>12
      <4>3. b.ptr \in Int /\ b.size \in Nat \ {0} /\ q \in Int
        BY <4>1, <4>2, <1>4, BlockTypes, ClassFacts DEF NewHuge
      <4>4. b.ptr - 1 \in Int /\ b.size + 1 \in Nat \ {0}
        BY <4>3
      <4>5. \A g \in Int : ~(Covers(q, PageSize, g) /\ Covers(b.ptr - 1, b.size + 1, g))
        BY <4>1, <4>2, <1>2, SpacePage DEF Spaced, NewHuge
      <4> QED
        BY ONLY <4>3, <4>4, <4>5, <1>1, OffBy
    <3> QED
      BY <3>1, <3>2, <1>8
  <2>6. ASSUME NEW a \in Huge(B2), NEW b \in Huge(B2), a # b
        PROVE  Off(a.ptr - 1, a.size + 1, b.ptr - 1, b.size + 1)
    <3>0. ASSUME NEW x \in Huge(B2), NEW y \in Huge(B2), x \in BS \cap B2 /\ x \in Huge(BS), y \in B2 \ BS
          PROVE  Off(x.ptr - 1, x.size + 1, y.ptr - 1, y.size + 1)
      <4>1. NewHuge(m, k, H, X, H2, y) /\ x \in Huge(BS) \ X
        BY <3>0, <1>8
      <4>2. x.ptr \in Int /\ x.size \in Nat \ {0} /\ y.ptr \in Int /\ y.size \in Nat \ {0}
        BY <3>0, <4>1, BlockFacts, BlockTypes, ClassFacts DEF NewHuge
      <4>3. x.ptr - 1 \in Int /\ x.size + 1 \in Nat \ {0} /\ y.ptr - 1 \in Int /\ y.size + 1 \in Nat \ {0}
        BY <4>2
      <4>4. \A g \in Int : ~(Covers(x.ptr - 1, x.size + 1, g) /\ Covers(y.ptr - 1, y.size + 1, g))
        BY <4>1, <1>2, SpaceHuge DEF Spaced, NewHuge
      <4> QED
        BY ONLY <4>3, <4>4, OffBy
    <3>1. CASE a \in Huge(BS) /\ b \in Huge(BS)
      BY <3>1, <2>6 DEF World, SpanInv
    <3>2. CASE a \in Huge(BS) /\ b \notin Huge(BS)
      BY <3>2, <3>0, <1>8
    <3>3. CASE a \notin Huge(BS) /\ b \in Huge(BS)
      BY <3>3, <3>0, <1>8 DEF Off
    <3>4. CASE a \notin Huge(BS) /\ b \notin Huge(BS)
      BY <3>4, <2>6, <1>8
    <3> QED
      BY <3>1, <3>2, <3>3, <3>4
  <2> QED
    BY <2>1, <2>2, <2>3, <2>4, <2>5, <2>6 DEF SpanInv
<1>17. \A d \in CPU : f2[d] \notin P[d] /\ \A q \in Pages(P, f2, d) : PageAt(q)
  BY <1>3, <1>10, <1>11, <1>12, <1>14
<1>18. World(k, h2, ph, f2, B2, H2, P) /\ \A q : In(B2, q) = In(BS, q)
  BY <1>5, <1>9, <1>11, <1>16, <1>17, HeapWorld
<1> QED
  BY <1>5, <1>6, <1>18 DEF Kept, f2, Changed
\* A part of a heap node, and a heap node itself.
LEMMA SpacedBy ==
  ASSUME NEW m, NEW H, NEW X, NEW n \in H, NEW a \in Int, NEW l \in Int,
         n \in Int, m[n].size \in Int, n <= a, a + l <= n + m[n].size
  PROVE  Spaced(m, H, X, a, l)
<1>1. \A g \in Int : Covers(a, l, g) => Covers(n, m[n].size, g)
  BY DEF Covers
<1> QED
  BY <1>1 DEF Spaced, Space

\* allockpage gives processor c the first page of the heap node n.
LEMMA TakePageWorld ==
  ASSUME NEW m, NEW h, NEW ph, NEW fr, NEW BS, NEW H, NEW P, World(m, h, ph, fr, BS, H, P),
         NEW c \in CPU, fr[c] = NULL, NEW n \in H, m[n].size >= PageSize
  PROVE  \E H2 : /\ World(TakePage(m, h, n), HeadAfterTakePage(m, h, n), ph, [fr EXCEPT ![c] = n], BS, H2, P)
                 /\ Kept(m, TakePage(m, h, n), BS) /\ PagesKept(m, TakePage(m, h, n), P)
<1> DEFINE k == TakePage(m, h, n)
           h2 == HeadAfterTakePage(m, h, n)
           t == n + PageSize
           X == BS \ BS
<1>1. /\ m \in Memory /\ List(m, h, H) /\ PageSize \in Nat \ {0} /\ HeapStart \in Int /\ HeapEnd \in Int
      /\ n \in Granule /\ n \in Int /\ m[n].size \in Nat \ {0} /\ n + m[n].size <= HeapEnd
  BY PageSizePos, NodeFacts, HeapAssumption DEF World, HeapInv
<1>2. \A o \in H : o \in Granule /\ o \in Int /\ m[o].size \in Nat \ {0} /\ o + m[o].size <= HeapEnd
  BY NodeFacts
<1>3. PageAt(n) /\ n <= n /\ n + PageSize <= n + m[n].size
  BY <1>1 DEF PageAt
<1>4. Spaced(m, H, X, n, PageSize)
  BY <1>1, <1>3, SpacedBy
<1>5. \A o \in H : Spaced(m, H, X, o, m[o].size)
  BY DEF Spaced, Space
<1>6. \A o \in H : Space(m, H, X, o)
  <2>1. \A o \in H : Covers(o, m[o].size, o)
    BY <1>2 DEF Covers
  <2> QED
    BY <2>1 DEF Space
<1>7. \A o, q \in H : o # q => Off(o, m[o].size, q, m[q].size)
  BY DEF World, SpanInv
<1>8. \A o \in H \ {n} : Off(o, m[o].size, n, PageSize)
  BY <1>1, <1>2, <1>7 DEF Off
<1>9. ASSUME NEW H2, k \in Memory, HeapInv(k, h2, H2), Stores(m, k, H, X), NewNodes(m, k, H, X, H2),
             NewPage(m, k, H, X, H2, fr[c], n)
      PROVE  /\ World(k, h2, ph, [fr EXCEPT ![c] = n], BS, H2, P)
             /\ Kept(m, k, BS) /\ PagesKept(m, k, P)
  <2> HIDE DEF k, h2
  <2>1. /\ \A b \in BS \ BS : NewHuge(m, k, H, X, H2, b)
        /\ \A a, b \in BS \ BS : a = b
        /\ BS \subseteq BS /\ BS \cap BS = BS /\ BS \ Huge(BS) = BS \ Huge(BS) /\ X = BS \ BS
    OBVIOUS
  <2> HIDE DEF X
  <2>2. Change(m, k, h2, H, H2, BS, BS, X, fr[c], n)
    BY <2>1, <1>9 DEF Change
  <2>3. Changed(m, k, h2, ph, [fr EXCEPT ![c] = n], BS, BS, H2, P)
    BY ONLY <2>2, World(m, h, ph, fr, BS, H, P), c \in CPU, HeapStep
  <2> QED
    BY <2>1, <2>3 DEF Changed
<1>10. CASE m[n].size = PageSize
  <2> DEFINE H2 == H \ {n}
  <2>1. PageUnlinked(m, k, h2, H, n)
    BY <1>1, <1>10, TakePageUnlinks
  <2> HIDE DEF k, h2
  <2>2. k \in Memory /\ List(k, h2, H2) /\ \A o \in H2 : k[o].size = m[o].size
    BY <2>1 DEF PageUnlinked
  <2>3. HeapInv(k, h2, H2)
    BY <2>2, <1>2 DEF HeapInv
  <2>4. Stores(m, k, H, X)
    BY <2>1, <1>6 DEF PageUnlinked, Stores
  <2>5. NewNodes(m, k, H, X, H2)
    BY <2>2, <1>5, <1>7 DEF NewNodes
  <2>6. NewPage(m, k, H, X, H2, fr[c], n)
    BY <2>2, <1>3, <1>4, <1>8 DEF NewPage, Apart
  <2> QED
    BY <2>2, <2>3, <2>4, <2>5, <2>6, <1>9 DEF k, h2
<1>11. CASE m[n].size # PageSize
  <2> DEFINE H2 == (H \ {n}) \cup {t}
  <2>1. t \in Granule /\ t \in Int /\ t < n + m[n].size /\ n < t
    BY <1>1, <1>11 DEF Granule
  <2>2. t \notin H
    <3>1. ASSUME t \in H PROVE FALSE
      <4>1. Off(n, m[n].size, t, m[t].size) /\ m[t].size \in Nat
        BY <3>1, <2>1, <1>1, <1>2, <1>7
      <4> QED
        BY <4>1, <2>1, <1>1 DEF Off
    <3> QED
      BY <3>1
  <2>3. PageSplit(m, k, h2, H, n)
    <3>1. n + PageSize \in Granule \ H
      BY <2>1, <2>2
    <3> QED
      BY ONLY <3>1, <1>1, <1>11, n \in H, TakePageSplits DEF k, h2
  <2> HIDE DEF k, h2
  <2>4. /\ k \in Memory /\ List(k, h2, H2) /\ k[t].size = m[n].size - PageSize
        /\ \A o \in H \ {n} : k[o].size = m[o].size
        /\ \A g \in Granule \ (H \cup {t}) : k[g] = m[g]
    BY <2>3 DEF PageSplit
  <2>5. k[t].size \in Nat \ {0} /\ t + k[t].size = n + m[n].size
    BY <2>1, <2>4, <1>1
  <2>6. HeapInv(k, h2, H2)
    BY <2>4, <2>5, <1>1, <1>2 DEF HeapInv
  <2>7. Space(m, H, X, t)
    BY <2>1, <1>1 DEF Space, Covers
  <2>8. Stores(m, k, H, X)
    BY <2>4, <2>7, <1>6 DEF Stores
  <2>9. Spaced(m, H, X, t, k[t].size)
    <3>1. n <= t /\ t + k[t].size <= n + m[n].size /\ k[t].size \in Int
      BY <2>1, <2>5, <1>1
    <3> QED
      BY <3>1, <2>1, <1>1, SpacedBy
  <2>10. \A o \in H \ {n} : Off(o, m[o].size, t, k[t].size) /\ Off(t, k[t].size, o, m[o].size)
    <3>1. ASSUME NEW o \in H \ {n} PROVE Off(o, m[o].size, t, k[t].size) /\ Off(t, k[t].size, o, m[o].size)
      <4>1. Off(o, m[o].size, n, m[n].size) /\ o \in Int /\ m[o].size \in Nat \ {0}
        BY <1>2, <1>7
      <4> QED
        BY <4>1, <2>1, <2>5, <1>1 DEF Off
    <3> QED
      BY <3>1
  <2>11. NewNodes(m, k, H, X, H2)
    BY <2>4, <2>9, <2>10, <1>5, <1>7 DEF NewNodes
  <2>12. Off(t, k[t].size, n, PageSize)
    BY <2>1, <1>1 DEF Off
  <2>13. NewPage(m, k, H, X, H2, fr[c], n)
    BY <2>4, <2>12, <1>3, <1>4, <1>8 DEF NewPage, Apart
  <2> QED
    BY <2>4, <2>6, <2>8, <2>11, <2>13, <1>9 DEF k, h2
<1> QED
  BY <1>10, <1>11
\* Of the heap nodes H only n has changed: its size is z.
Shrunk(m, k, H, n, z) == k[n].size = z /\ \A o \in H \ {n} : k[o].size = m[o].size

\* kallocHugeMemory takes a block of size s from the high end of the heap node n.
LEMMA TakeHugeWorld ==
  ASSUME NEW m, NEW h, NEW ph, NEW fr, NEW BS, NEW H, NEW P, World(m, h, ph, fr, BS, H, P),
         NEW c \in CPU, NEW n \in H, NEW s \in SizeClass, s > MaxSmall, m[n].size > s + 1,
         NEW x, x = [ptr |-> HugeBlock(m, n, s), size |-> s, cpu |-> c]
  PROVE  /\ World(TakeHuge(m, n, s), h, ph, fr, BS \cup {x}, H, P) /\ x \notin BS
         /\ Kept(m, TakeHuge(m, n, s), BS) /\ PagesKept(m, TakeHuge(m, n, s), P)
         /\ \A q : In(BS \cup {x}, q) = In(BS, q)
         /\ Shrunk(m, TakeHuge(m, n, s), H, n, HugeBlock(m, n, s) - 1 - n)
<1> DEFINE hd == HugeBlock(m, n, s) - 1
           u == [m EXCEPT ![n].size = hd - n]
           k == TakeHuge(m, n, s)
           B2 == BS \cup {x}
           X == BS \ B2
<1>1. /\ m \in Memory /\ List(m, h, H) /\ HeapStart \in Int /\ HeapEnd \in Int /\ NULL = 0
      /\ n \in Granule /\ n \in Int /\ m[n].size \in Nat \ {0} /\ n + m[n].size <= HeapEnd
      /\ s \in Nat \ {0} /\ MaxSmall \in Nat /\ HeapStart <= n
  BY ClassFacts, NodeFacts, HeapAssumption DEF World, HeapInv, NULL, Granule
<1>2. \A o \in H : o \in Granule /\ o \in Int /\ m[o].size \in Nat \ {0} /\ o + m[o].size <= HeapEnd
  BY NodeFacts
<1>3. /\ hd \in Int /\ n < hd /\ hd + 1 + s = n + m[n].size /\ hd \in Granule /\ HugeBlock(m, n, s) = hd + 1
  BY <1>1 DEF HugeBlock, Granule
<1>4. x.ptr = hd + 1 /\ x.size = s /\ x.cpu = c /\ x \in Block /\ IsHuge(x) /\ x.ptr - 1 = hd
  BY <1>1, <1>3 DEF Block, IsHuge
<1>5. k = [u EXCEPT ![hd] = [@ EXCEPT !.size = s, !.magic = HUGE_MAGIC]]
  BY DEF TakeHuge
<1> HIDE DEF hd
<1>6. \A o, q \in H : o # q => Off(o, m[o].size, q, m[q].size)
  BY DEF World, SpanInv
<1>7. hd \notin H
  <2>1. ASSUME hd \in H PROVE FALSE
    <3>1. hd # n
      BY <1>1, <1>3
    <3>2. Off(n, m[n].size, hd, m[hd].size) /\ m[hd].size \in Nat
      BY <2>1, <3>1, <1>2, <1>6
    <3> QED
      BY <3>2, <1>1, <1>3 DEF Off
  <2> QED
    BY <2>1
<1>8. u \in Memory /\ u[n].size = hd - n /\ u[n].next = m[n].next /\ \A g \in Granule \ {n} : u[g] = m[g]
  <2>1. hd - n \in Int
    BY <1>1, <1>3
  <2>2. Resized(m, u, n, hd - n)
    BY <2>1, <1>1, SizeCells
  <2> QED
    BY <2>2 DEF Resized
<1> HIDE DEF u
<1>9. /\ k \in Memory /\ k[hd].size = s /\ k[hd].magic = HUGE_MAGIC
      /\ \A g \in Granule \ {hd} : k[g] = u[g]
  <2> DEFINE cell == [u[hd] EXCEPT !.size = s, !.magic = HUGE_MAGIC]
             v == [u EXCEPT ![hd] = cell]
  <2>1. u[hd] \in Cell /\ s \in Int /\ HUGE_MAGIC \in Int
    BY <1>1, <1>3, <1>8 DEF Memory, HUGE_MAGIC
  <2>2. cell \in Cell /\ cell.size = s /\ cell.magic = HUGE_MAGIC
    BY <2>1 DEF Cell
  <2>3. k = v
    BY <1>5
  <2> HIDE DEF cell, k
  <2>4. v \in Memory /\ v[hd] = cell /\ \A g \in Granule \ {hd} : v[g] = u[g]
    BY <2>2, <1>3, <1>8, NodeCells
  <2> QED
    BY <2>2, <2>3, <2>4
<1> HIDE DEF k
<1>10. /\ k[n].size = hd - n /\ k[n].size \in Nat \ {0} /\ n + k[n].size = hd
       /\ \A o \in H : k[o].next = m[o].next
       /\ \A o \in H \ {n} : k[o].size = m[o].size
  BY <1>1, <1>2, <1>3, <1>7, <1>8, <1>9
<1>11. HeapInv(k, h, H)
  <2>1. List(k, h, H)
    BY ONLY <1>1, <1>9, <1>10, ListFrame
  <2>2. n + k[n].size <= HeapEnd
    BY <1>1, <1>3, <1>10
  <2> QED
    BY <2>1, <2>2, <1>2, <1>10 DEF HeapInv
<1>12. Stores(m, k, H, X)
  <2>1. Covers(n, m[n].size, n) /\ Covers(n, m[n].size, hd)
    BY <1>1, <1>3 DEF Covers
  <2>2. Space(m, H, X, n) /\ Space(m, H, X, hd)
    BY <2>1 DEF Space
  <2> QED
    BY <2>2, <1>8, <1>9 DEF Stores
<1>13. NewNodes(m, k, H, X, H)
  <2>1. Spaced(m, H, X, n, k[n].size)
    <3>1. n <= n /\ n + k[n].size <= n + m[n].size /\ k[n].size \in Int
      BY <1>1, <1>3, <1>10
    <3> QED
      BY <3>1, <1>1, SpacedBy
  <2>2. \A o \in H : Spaced(m, H, X, o, m[o].size)
    BY DEF Spaced, Space
  <2>3. ASSUME NEW o \in H \ {n} PROVE Off(o, m[o].size, n, k[n].size) /\ Off(n, k[n].size, o, m[o].size)
    <3>1. Off(o, m[o].size, n, m[n].size) /\ o \in Int /\ m[o].size \in Nat \ {0}
      BY <1>2, <1>6
    <3> QED
      BY <3>1, <1>1, <1>3, <1>10 DEF Off
  <2>4. \A o, q \in H : o # q => Off(o, k[o].size, q, k[q].size)
    BY <2>3, <1>6, <1>10
  <2>5. \A o \in H : Spaced(m, H, X, o, k[o].size)
    BY <2>1, <2>2, <1>10
  <2> QED
    BY <2>4, <2>5 DEF NewNodes
<1>14. NewHuge(m, k, H, X, H, x)
  <2>1. HugeOK(k, x)
    BY <1>1, <1>3, <1>4, <1>9 DEF HugeOK
  <2>2. Spaced(m, H, X, hd, s + 1)
    <3>1. n <= hd /\ hd + (s + 1) <= n + m[n].size /\ s + 1 \in Int
      BY <1>1, <1>3
    <3> QED
      BY <3>1, <1>1, <1>3, SpacedBy
  <2>3. ASSUME NEW o \in H PROVE Off(o, k[o].size, hd, s + 1)
    <3>1. CASE o = n
      BY <3>1, <1>10, <1>1, <1>3 DEF Off
    <3>2. CASE o # n
      <4>1. Off(o, m[o].size, n, m[n].size) /\ o \in Int /\ m[o].size \in Nat \ {0} /\ k[o].size = m[o].size
        BY <3>2, <1>2, <1>6, <1>10
      <4> QED
        BY <4>1, <1>1, <1>3 DEF Off
    <3> QED
      BY <3>1, <3>2
  <2> QED
    BY <2>1, <2>2, <2>3, <1>4 DEF NewHuge, Apart
<1>15. x \notin BS
  <2>1. ASSUME x \in BS PROVE FALSE
    <3>1. Off(n, m[n].size, x.ptr, x.size)
      BY <2>1, NodeOff
    <3> QED
      BY <3>1, <1>1, <1>3, <1>4 DEF Off
  <2> QED
    BY <2>1
<1>16. /\ B2 \ Huge(B2) = BS \ Huge(BS) /\ X = BS \ B2 /\ BS \cap B2 = BS /\ B2 \ BS = {x}
       /\ \A b \in B2 \ BS : NewHuge(m, k, H, X, H, b)
       /\ \A a, b \in B2 \ BS : a = b
  BY <1>4, <1>14, <1>15 DEF Huge
<1>17. fr \in [CPU -> Int] /\ [fr EXCEPT ![c] = fr[c]] = fr /\ NewPage(m, k, H, X, H, fr[c], fr[c])
  BY DEF World, PageInv, NewPage
<1> HIDE DEF X, B2
<1>18. ASSUME NEW p, p = fr[c]
       PROVE  Changed(m, k, h, ph, [fr EXCEPT ![c] = p], BS, B2, H, P)
  <2>1. Change(m, k, h, H, H, BS, B2, X, fr[c], p)
    BY <1>9, <1>11, <1>12, <1>13, <1>16, <1>17, <1>18 DEF Change
  <2> QED
    BY ONLY <2>1, World(m, h, ph, fr, BS, H, P), c \in CPU, HeapStep
<1>19. Changed(m, k, h, ph, fr, BS, B2, H, P)
  BY <1>17, <1>18
<1>20. Shrunk(m, k, H, n, HugeBlock(m, n, s) - 1 - n)
  BY <1>10 DEF Shrunk, hd
<1> QED
  BY <1>15, <1>16, <1>19, <1>20 DEF B2, k, Changed
\* kfree has left the heap list H2, in which only the node x, of size z, is new or longer.
FreedNode(u, k, h2, H, H2, x, z) ==
  /\ k \in Memory /\ List(k, h2, H2) /\ x \in H2 /\ H2 \ {x} \subseteq H
  /\ k[x].size = z /\ \A o \in H2 \ {x} : k[o].size = u[o].size
  /\ \A g \in Granule \ (H \cup {x}) : k[g] = u[g]

\* The block joins the node before it and the node after it.
LEMMA FreeHugeBoth ==
  ASSUME NEW u, NEW h, NEW H, List(u, h, H), NEW before \in H, NEW after \in H, before # after,
         NEW hd \in Int, NEW s \in Int, JoinsBefore(u, before, hd), hd + 1 + s = after
  PROVE  FreedNode(u, FreeHuge(u, h, hd, s, before, after), HeadAfterFreeHuge(u, h, hd, s, before, after),
                   H, H \ {after}, before, u[before].size + s + 1 + u[after].size)
<1> DEFINE grown == [u EXCEPT ![before].size = @ + s + 1]
           both == [grown EXCEPT ![before].size = @ + grown[after].size]
           k == Unlink(both, h, after)
           h2 == IF ~HasPrev(u, h, after) THEN u[after].next ELSE h
<1>1. /\ H \subseteq Granule /\ u \in Memory /\ before \in Granule /\ after \in Granule /\ h \in Int
      /\ u[before].size \in Int /\ u[after].size \in Int /\ NULL \notin Granule
  <2>1. H \subseteq Granule /\ u \in Memory /\ h \in Int /\ NULL \notin Granule
    BY ListFacts DEF List
  <2> QED
    BY <2>1, CellFields
<1>2. /\ FreeHuge(u, h, hd, s, before, after) = k
      /\ HeadAfterFreeHuge(u, h, hd, s, before, after) = h2
  BY DEF FreeHuge, HeadAfterFreeHuge
<1>3. Resized(u, grown, before, u[before].size + s + 1)
  <2>1. grown = [u EXCEPT ![before].size = u[before].size + s + 1] /\ u[before].size + s + 1 \in Int
    BY <1>1
  <2> QED
    BY <2>1, <1>1, SizeCells
<1> HIDE DEF grown
<1>4. /\ grown \in Memory /\ grown[before].next = u[before].next /\ grown[before].size = u[before].size + s + 1
      /\ \A g \in Granule \ {before} : grown[g] = u[g]
  BY <1>3 DEF Resized
<1>5. Resized(grown, both, before, u[before].size + s + 1 + u[after].size)
  <2> DEFINE z == u[before].size + s + 1 + u[after].size
  <2>1. z \in Int /\ grown[before].size + grown[after].size = z
    BY <1>1, <1>4
  <2> HIDE DEF z
  <2>2. both = [grown EXCEPT ![before].size = z]
    BY <2>1
  <2>3. Resized(grown, both, before, z)
    BY <2>1, <2>2, <1>1, <1>4, SizeCells
  <2> QED
    BY <2>3 DEF z
<1> HIDE DEF both
<1>6. /\ both \in Memory /\ both[before].size = u[before].size + s + 1 + u[after].size
      /\ \A g \in Granule : both[g].next = u[g].next
      /\ \A g \in Granule \ {before} : both[g] = u[g]
  BY <1>4, <1>5 DEF Resized
<1>7. List(both, h, H)
  <2>1. \A g \in H : both[g].next = u[g].next
    BY <1>1, <1>6
  <2> QED
    BY ONLY <2>1, <1>6, List(u, h, H), ListFrame
<1>8. Unlinked(both, k, h, H, after)
  BY <1>7, UnlinkIs
<1> HIDE DEF k
<1>9. /\ k \in Memory /\ k[before].size = u[before].size + s + 1 + u[after].size
      /\ \A o \in H \ {after, before} : k[o].size = u[o].size
      /\ \A g \in Granule \ (H \cup {before}) : k[g] = u[g]
  BY <1>1, <1>6, <1>8 DEF Unlinked
<1>10. HasPrev(u, h, after) <=> after # h
  BY UnlinkIs
<1>11. List(k, h2, H \ {after})
  <2>1. CASE after # h
    BY <2>1, <1>8, <1>10 DEF Unlinked
  <2>2. CASE after = h
    <3>1. k = both /\ h2 = both[h].next /\ h # NULL
      BY <2>2, <1>1, <1>6, <1>8, <1>10 DEF Unlinked
    <3>2. List(both, both[h].next, H \ {h})
      BY ONLY <3>1, <1>7, ListPop
    <3> QED
      BY <3>1, <3>2, <2>2
  <2> QED
    BY <2>1, <2>2
<1> QED
  BY <1>2, <1>9, <1>11 DEF FreedNode

\* It joins only the node before it.
LEMMA FreeHugeBefore ==
  ASSUME NEW u, NEW h, NEW H, List(u, h, H), NEW before \in H, NEW after,
         NEW hd \in Int, NEW s \in Int, JoinsBefore(u, before, hd), hd + 1 + s # after
  PROVE  FreedNode(u, FreeHuge(u, h, hd, s, before, after), HeadAfterFreeHuge(u, h, hd, s, before, after),
                   H, H, before, u[before].size + s + 1)
<1> DEFINE k == [u EXCEPT ![before].size = @ + s + 1]
<1>1. H \subseteq Granule /\ u \in Memory /\ before \in Granule /\ u[before].size \in Int
  <2>1. H \subseteq Granule /\ u \in Memory
    BY ListFacts DEF List
  <2> QED
    BY <2>1, CellFields
<1>2. /\ FreeHuge(u, h, hd, s, before, after) = k
      /\ HeadAfterFreeHuge(u, h, hd, s, before, after) = h
  BY DEF FreeHuge, HeadAfterFreeHuge
<1>3. Resized(u, k, before, u[before].size + s + 1)
  <2>1. k = [u EXCEPT ![before].size = u[before].size + s + 1] /\ u[before].size + s + 1 \in Int
    BY <1>1
  <2> QED
    BY <2>1, <1>1, SizeCells
<1> HIDE DEF k
<1>4. /\ k \in Memory /\ k[before].size = u[before].size + s + 1 /\ k[before].next = u[before].next
      /\ \A g \in Granule \ {before} : k[g] = u[g]
  BY <1>3 DEF Resized
<1>5. \A g \in H : k[g].next = u[g].next
  BY <1>1, <1>4
<1>6. List(k, h, H)
  BY ONLY <1>4, <1>5, List(u, h, H), ListFrame
<1> QED
  BY <1>1, <1>2, <1>4, <1>6 DEF FreedNode

\* Its header becomes a new node at the front of the list.
Pushed(u, k, h, hd, z) ==
  k \in Memory /\ k[hd].next = h /\ k[hd].size = z /\ \A g \in Granule \ {hd} : k[g] = u[g]

\* The cells of a pushed node.
LEMMA PushedIs ==
  ASSUME NEW u \in Memory, NEW hd \in Granule, NEW x \in Cell
  PROVE  Pushed(u, [u EXCEPT ![hd] = x], x.next, hd, x.size)
  BY NodeCells DEF Pushed

\* A block that joins no neighbour is pushed on the list.
LEMMA FreeHugePush ==
  ASSUME NEW u, NEW h, NEW H, List(u, h, H), NEW hd \in Granule \ H, NEW z, NEW k, Pushed(u, k, h, hd, z)
  PROVE  FreedNode(u, k, hd, H, H \cup {hd}, hd, z)
<1>1. H \subseteq Granule
  BY ListFacts
<1>2. k \in Memory /\ k[hd].next = h /\ k[hd].size = z /\ \A g \in Granule \ {hd} : k[g] = u[g]
  BY DEF Pushed
<1>3. \A g \in H : k[g].next = u[g].next
  BY <1>1, <1>2
<1>4. List(k, hd, H \cup {hd})
  BY ONLY <1>2, <1>3, hd \in Granule \ H, List(u, h, H), ListPush
<1> QED
  BY <1>1, <1>2, <1>4 DEF FreedNode

\* It swallows the node after it.
LEMMA FreeHugeAfter ==
  ASSUME NEW u, NEW h, NEW H, List(u, h, H), NEW hd \in Granule \ H, NEW before, NEW after \in H,
         NEW s \in Int, ~JoinsBefore(u, before, hd), hd + 1 + s = after
  PROVE  FreedNode(u, FreeHuge(u, h, hd, s, before, after), HeadAfterFreeHuge(u, h, hd, s, before, after),
                   H, (H \cup {hd}) \ {after}, hd, s + u[after].size)
<1> DEFINE z == s + u[after].size
           pushed == [u EXCEPT ![hd] = [@ EXCEPT !.next = h, !.size = s]]
           swallowed == [pushed EXCEPT ![hd].size = z]
           node == [u EXCEPT ![hd] = [@ EXCEPT !.next = h, !.size = z]]
           k == Unlink(swallowed, hd, after)
<1>1. /\ H \subseteq Granule /\ u \in Memory /\ h \in Int /\ u[hd] \in Cell /\ after \in Granule
      /\ z \in Int /\ after # hd /\ hd \in Granule
  <2>1. H \subseteq Granule /\ u \in Memory /\ h \in Int
    BY ListFacts DEF List
  <2>2. u[after].size \in Int
    BY <2>1, CellFields
  <2> QED
    BY <2>1, <2>2, CellFields
<1>2. swallowed = node
  <2>1. [[u[hd] EXCEPT !.next = h, !.size = s] EXCEPT !.size = z] = [u[hd] EXCEPT !.next = h, !.size = z]
    BY <1>1 DEF Cell
  <2> QED
    BY <2>1, <1>1 DEF Memory
<1>3. /\ FreeHuge(u, h, hd, s, before, after) = k
      /\ HeadAfterFreeHuge(u, h, hd, s, before, after) = hd
  BY DEF FreeHuge, HeadAfterFreeHuge
<1> HIDE DEF z
<1>4. FreedNode(u, node, hd, H, H \cup {hd}, hd, z)
  <2> DEFINE x == [u[hd] EXCEPT !.next = h, !.size = z]
  <2>0. x \in Cell /\ x.next = h /\ x.size = z /\ node = [u EXCEPT ![hd] = x]
    BY <1>1 DEF Cell
  <2> HIDE DEF x, node
  <2>1. Pushed(u, node, h, hd, z)
    BY <2>0, <1>1, PushedIs
  <2> QED
    BY ONLY <2>1, hd \in Granule \ H, List(u, h, H), FreeHugePush
<1> HIDE DEF node, swallowed
<1>5. List(node, hd, H \cup {hd}) /\ after \in H \cup {hd}
  BY <1>4 DEF FreedNode
<1>6. Unlinked(node, k, hd, H \cup {hd}, after)
  BY <1>2, <1>5, UnlinkIs
<1> HIDE DEF k
<1>7. /\ k \in Memory /\ List(k, hd, (H \cup {hd}) \ {after})
      /\ \A g \in Granule : k[g].size = node[g].size
      /\ \A g \in Granule \ (H \cup {hd}) : k[g] = node[g]
  BY <1>1, <1>6 DEF Unlinked
<1>8. FreedNode(u, k, hd, H, (H \cup {hd}) \ {after}, hd, z)
  BY <1>1, <1>4, <1>7 DEF FreedNode
<1> QED
  BY <1>3, <1>8 DEF z
\* The heap with the new or longer node x in the place of the huge block b.
Regained(m, k, h2, H, H2, x, b) ==
  /\ k \in Memory /\ List(k, h2, H2) /\ x \in H2 /\ H2 \ {x} \subseteq H
  /\ \A o \in H2 \ {x} : k[o].size = m[o].size /\ Off(o, m[o].size, x, k[x].size)
  /\ k[x].size >= 1 /\ x + k[x].size <= HeapEnd
  /\ Stores(m, k, H, {b}) /\ Spaced(m, H, {b}, x, k[x].size)

\* The heap is then in order without the block b.
LEMMA RegainedWorld ==
  ASSUME NEW m, NEW h, NEW ph, NEW fr, NEW BS, NEW H, NEW P, World(m, h, ph, fr, BS, H, P),
         NEW c \in CPU, NEW b \in Huge(BS), NEW k, NEW h2, NEW H2, NEW x, Regained(m, k, h2, H, H2, x, b)
  PROVE  Changed(m, k, h2, ph, fr, BS, BS \ {b}, H2, P)
<1> DEFINE B2 == BS \ {b}
           X == {b}
<1>1. /\ k \in Memory /\ List(k, h2, H2) /\ x \in H2 /\ H2 \ {x} \subseteq H
      /\ \A o \in H2 \ {x} : k[o].size = m[o].size /\ Off(o, m[o].size, x, k[x].size)
      /\ k[x].size >= 1 /\ x + k[x].size <= HeapEnd
      /\ Stores(m, k, H, X) /\ Spaced(m, H, X, x, k[x].size)
  BY DEF Regained
<1>2. \A o \in H : m[o].size >= 1 /\ o + m[o].size <= HeapEnd
  BY DEF World, HeapInv
<1>3. HeapInv(k, h2, H2)
  BY <1>1, <1>2 DEF HeapInv
<1>4. NewNodes(m, k, H, X, H2)
  <2>1. \A o \in H : Spaced(m, H, X, o, m[o].size)
    BY DEF Spaced, Space
  <2>2. \A o \in H2 : Spaced(m, H, X, o, k[o].size)
    BY <2>1, <1>1
  <2>3. \A o, q \in H : o # q => Off(o, m[o].size, q, m[q].size)
    BY DEF World, SpanInv
  <2>4. \A o \in H2 \ {x} : Off(x, k[x].size, o, m[o].size)
    BY <1>1 DEF Off
  <2>5. \A o, q \in H2 : o # q => Off(o, k[o].size, q, k[q].size)
    BY <2>3, <2>4, <1>1
  <2> QED
    BY <2>2, <2>5 DEF NewNodes
<1>5. /\ B2 \ Huge(B2) = BS \ Huge(BS) /\ X = BS \ B2 /\ B2 \ BS = {} /\ B2 \subseteq BS
  BY DEF Huge
<1>6. fr \in [CPU -> Int] /\ [fr EXCEPT ![c] = fr[c]] = fr
  BY DEF World, PageInv
<1> HIDE DEF X, B2
<1>7. ASSUME NEW p, p = fr[c]
      PROVE  Changed(m, k, h2, ph, [fr EXCEPT ![c] = p], BS, B2, H2, P)
  <2>1. NewPage(m, k, H, X, H2, fr[c], p)
    BY <1>7 DEF NewPage
  <2>2. Change(m, k, h2, H, H2, BS, B2, X, fr[c], p)
    BY <2>1, <1>1, <1>3, <1>4, <1>5, <1>7 DEF Change
  <2> QED
    BY ONLY <2>2, World(m, h, ph, fr, BS, H, P), c \in CPU, HeapStep
<1> QED
  BY <1>6, <1>7 DEF B2

\* kfree of the huge block b.
FreeArgs(u, H, b, before, after) ==
  /\ Highest(before, {n \in H : n < b.ptr - 1})
  /\ Lowest(after, {n \in H : n > b.ptr - 1})

\* In each of the four cases the heap is in order without the block b.
LEMMA FreeHugeWorld ==
  ASSUME NEW m, NEW h, NEW ph, NEW fr, NEW BS, NEW H, NEW P, World(m, h, ph, fr, BS, H, P),
         NEW c \in CPU, NEW b \in Huge(BS), NEW hd, hd = b.ptr - 1, NEW s, s = b.size,
         NEW u, u = memset0(m, hd, s + 1), NEW before, NEW after, FreeArgs(u, H, b, before, after),
         NEW k, k = FreeHuge(u, h, hd, s, before, after),
         NEW h2, h2 = HeadAfterFreeHuge(u, h, hd, s, before, after)
  PROVE  \E H2 : Changed(m, k, h2, ph, fr, BS, BS \ {b}, H2, P)
<1>1. /\ b.ptr \in Int /\ s \in Nat \ {0} /\ HeapStart < b.ptr /\ b.ptr + s <= HeapEnd
      /\ HeapStart \in Int /\ HeapEnd \in Int /\ b \in BS /\ m \in Memory /\ List(m, h, H)
  BY BlockFacts, HeapAssumption DEF Huge, World, HeapInv
<1>2. hd \in Int /\ hd \in Granule /\ s + 1 \in Int /\ s \in Int /\ hd + 1 + s <= HeapEnd /\ NULL \notin Granule
  BY <1>1, GranuleInt DEF Granule
<1>3. \A o \in H : /\ o \in Granule /\ o \in Int /\ m[o].size \in Nat \ {0} /\ o + m[o].size <= HeapEnd
                   /\ Off(o, m[o].size, hd, s + 1)
  BY NodeFacts DEF World, SpanInv
<1>4. hd \notin H /\ \A o \in H : o < hd \/ hd + s + 1 <= o
  BY <1>1, <1>2, <1>3 DEF Off
<1>5. u \in Memory /\ \A g \in Granule : (g < hd \/ hd + (s + 1) <= g) => u[g] = m[g]
  BY <1>1, <1>2, MemsetCells
<1>6. \A o \in H : u[o] = m[o]
  BY <1>2, <1>3, <1>4, <1>5, <1>1
<1>7. List(u, h, H)
  <2>1. \A o \in H : u[o].next = m[o].next
    BY <1>6
  <2> QED
    BY ONLY <2>1, <1>1, <1>5, ListFrame
<1>8. \A o, q \in H : o # q => Off(o, m[o].size, q, m[q].size)
  BY DEF World, SpanInv
<1>9. ASSUME NEW H2, NEW x, NEW z \in Int, FreedNode(u, k, h2, H, H2, x, z), x \in H \cup {hd},
             z >= 1, x + z <= HeapEnd, Spaced(m, H, {b}, x, z), \A o \in H2 \ {x} : Off(o, m[o].size, x, z)
      PROVE  Changed(m, k, h2, ph, fr, BS, BS \ {b}, H2, P)
  <2>1. Stores(m, k, H, {b})
    <3>1. SUFFICES ASSUME NEW g \in Granule, ~Space(m, H, {b}, g) PROVE k[g] = m[g]
      BY DEF Stores
    <3>2. g \in Int /\ g \notin H /\ ~Covers(hd, s + 1, g)
      <4>1. \A o \in H : Covers(o, m[o].size, o)
        BY <1>3 DEF Covers
      <4> QED
        BY <3>1, <4>1, GranuleInt DEF Space
    <3>3. g < hd \/ hd + (s + 1) <= g
      BY <3>2, <1>1, <1>2 DEF Covers
    <3>4. g # hd
      BY <3>3, <1>1, <1>2
    <3> QED
      BY <3>2, <3>3, <3>4, <1>5, <1>9 DEF FreedNode
  <2>2. Regained(m, k, h2, H, H2, x, b)
    BY <2>1, <1>6, <1>9 DEF Regained, FreedNode
  <2> QED
    BY ONLY <2>2, World(m, h, ph, fr, BS, H, P), c \in CPU, b \in Huge(BS), RegainedWorld
<1>10. before # NULL => before \in H /\ before < hd
  BY DEF FreeArgs, Highest
<1>11. after # NULL => after \in H /\ hd < after
  BY DEF FreeArgs, Lowest
<1>12. JoinsBefore(u, before, hd) => before \in H /\ before + m[before].size = hd
  BY <1>6, <1>10 DEF JoinsBefore
<1>13. hd + 1 + s = after => after \in H
  BY <1>1, <1>2, <1>11, HeapAssumption DEF NULL
<1>14. \A g \in Int : Covers(hd, s + 1, g) => Space(m, H, {b}, g)
  BY DEF Space
<1>15. CASE JoinsBefore(u, before, hd) /\ hd + 1 + s = after
  <2> DEFINE z == u[before].size + s + 1 + u[after].size
  <2>1. /\ before \in H /\ after \in H /\ before + m[before].size = hd /\ before # after
        /\ z = m[before].size + s + 1 + m[after].size
    BY <1>1, <1>2, <1>3, <1>6, <1>12, <1>13, <1>15
  <2>2. FreedNode(u, k, h2, H, H \ {after}, before, z)
    BY ONLY <2>1, <1>2, <1>7, <1>15, FreeHugeBoth, k = FreeHuge(u, h, hd, s, before, after),
            h2 = HeadAfterFreeHuge(u, h, hd, s, before, after) DEF z
  <2> HIDE DEF z
  <2>3. /\ before \in Int /\ after \in Int /\ m[before].size \in Nat \ {0} /\ m[after].size \in Nat \ {0}
        /\ after + m[after].size <= HeapEnd
    BY <2>1, <1>3
  <2>4. z \in Int /\ z >= 1 /\ before + z = after + m[after].size
    BY <2>1, <2>3, <1>1, <1>2, <1>15
  <2>5. Spaced(m, H, {b}, before, z)
    <3>1. SUFFICES ASSUME NEW g \in Int, Covers(before, z, g) PROVE Space(m, H, {b}, g)
      BY DEF Spaced
    <3>2. Covers(before, m[before].size, g) \/ Covers(hd, s + 1, g) \/ Covers(after, m[after].size, g)
      BY <3>1, <2>1, <2>3, <2>4, <1>1, <1>2, <1>15 DEF Covers
    <3> QED
      BY <3>2, <2>1, <1>14 DEF Space
  <2>6. ASSUME NEW o \in (H \ {after}) \ {before} PROVE Off(o, m[o].size, before, z)
    <3>1. /\ o \in Int /\ m[o].size \in Nat \ {0} /\ Off(o, m[o].size, hd, s + 1)
          /\ Off(o, m[o].size, before, m[before].size) /\ Off(o, m[o].size, after, m[after].size)
      BY <2>1, <1>3, <1>8
    <3> QED
      BY <3>1, <2>1, <2>3, <2>4, <1>1, <1>2, <1>15 DEF Off
  <2> QED
    BY <2>1, <2>2, <2>3, <2>4, <2>5, <2>6, <1>9
<1>16. CASE JoinsBefore(u, before, hd) /\ hd + 1 + s # after
  <2> DEFINE z == u[before].size + s + 1
  <2>1. before \in H /\ before + m[before].size = hd /\ z = m[before].size + s + 1
    BY <1>6, <1>12, <1>16
  <2>2. FreedNode(u, k, h2, H, H, before, z)
    BY ONLY <2>1, <1>2, <1>7, <1>16, FreeHugeBefore, k = FreeHuge(u, h, hd, s, before, after),
            h2 = HeadAfterFreeHuge(u, h, hd, s, before, after) DEF z
  <2> HIDE DEF z
  <2>3. before \in Int /\ m[before].size \in Nat \ {0}
    BY <2>1, <1>3
  <2>4. z \in Int /\ z >= 1 /\ before + z = hd + 1 + s
    BY <2>1, <2>3, <1>1, <1>2
  <2>5. Spaced(m, H, {b}, before, z)
    <3>1. SUFFICES ASSUME NEW g \in Int, Covers(before, z, g) PROVE Space(m, H, {b}, g)
      BY DEF Spaced
    <3>2. Covers(before, m[before].size, g) \/ Covers(hd, s + 1, g)
      BY <3>1, <2>1, <2>3, <2>4, <1>1, <1>2 DEF Covers
    <3> QED
      BY <3>2, <2>1, <1>14 DEF Space
  <2>6. ASSUME NEW o \in H \ {before} PROVE Off(o, m[o].size, before, z)
    <3>1. /\ o \in Int /\ m[o].size \in Nat \ {0} /\ Off(o, m[o].size, hd, s + 1)
          /\ Off(o, m[o].size, before, m[before].size)
      BY <2>1, <1>3, <1>8
    <3> QED
      BY <3>1, <2>1, <2>3, <2>4, <1>1, <1>2 DEF Off
  <2> QED
    BY <2>1, <2>2, <2>3, <2>4, <2>5, <2>6, <1>2, <1>9, ZenonT(30)
<1>17. CASE ~JoinsBefore(u, before, hd) /\ hd + 1 + s = after
  <2> DEFINE z == s + u[after].size
             H2 == (H \cup {hd}) \ {after}
  <2>1. after \in H /\ z = s + m[after].size /\ hd \in Granule \ H
    BY <1>2, <1>4, <1>6, <1>13, <1>17
  <2>2. FreedNode(u, k, h2, H, H2, hd, z)
    BY ONLY <2>1, <1>2, <1>7, <1>17, FreeHugeAfter, k = FreeHuge(u, h, hd, s, before, after),
            h2 = HeadAfterFreeHuge(u, h, hd, s, before, after) DEF z, H2
  <2> HIDE DEF z
  <2>3. after \in Int /\ m[after].size \in Nat \ {0} /\ after + m[after].size <= HeapEnd
    BY <2>1, <1>3
  <2>4. z \in Int /\ z >= 1 /\ hd + z + 1 = after + m[after].size
    BY <2>1, <2>3, <1>1, <1>2, <1>17
  <2>5. Spaced(m, H, {b}, hd, z)
    <3>1. SUFFICES ASSUME NEW g \in Int, Covers(hd, z, g) PROVE Space(m, H, {b}, g)
      BY DEF Spaced
    <3>2. Covers(hd, s + 1, g) \/ Covers(after, m[after].size, g)
      BY <3>1, <2>1, <2>3, <2>4, <1>1, <1>2, <1>17 DEF Covers
    <3> QED
      BY <3>2, <2>1, <1>14 DEF Space
  <2>6. ASSUME NEW o \in H2 \ {hd} PROVE Off(o, m[o].size, hd, z)
    <3>1. /\ o \in Int /\ m[o].size \in Nat \ {0} /\ Off(o, m[o].size, hd, s + 1)
          /\ Off(o, m[o].size, after, m[after].size)
      BY <2>1, <1>3, <1>8
    <3> QED
      BY <3>1, <2>1, <2>3, <2>4, <1>1, <1>2, <1>17 DEF Off
  <2>7. hd + z <= HeapEnd /\ hd \in H \cup {hd}
    BY <2>3, <2>4, <1>1, <1>2
  <2> HIDE DEF H2
  <2> QED
    BY <2>2, <2>4, <2>5, <2>6, <2>7, <1>9
<1>18. CASE ~JoinsBefore(u, before, hd) /\ hd + 1 + s # after
  <2> DEFINE x == [u[hd] EXCEPT !.next = h, !.size = s]
  <2>1. u[hd] \in Cell /\ h \in Int /\ hd \in Granule \ H
    BY <1>2, <1>4, <1>5, <1>7, CellFields, ListFacts
  <2>2. x \in Cell /\ x.next = h /\ x.size = s
    BY <2>1, <1>2 DEF Cell
  <2>3. k = [u EXCEPT ![hd] = x] /\ h2 = hd
    BY <1>18 DEF FreeHuge, HeadAfterFreeHuge
  <2> HIDE DEF x
  <2>4. Pushed(u, k, h, hd, s)
    BY <2>2, <2>3, <1>2, <1>5, PushedIs
  <2>5. FreedNode(u, k, h2, H, H \cup {hd}, hd, s)
    BY ONLY <2>1, <2>3, <2>4, <1>7, FreeHugePush
  <2>6. Spaced(m, H, {b}, hd, s)
    <3>1. \A g \in Int : Covers(hd, s, g) => Covers(hd, s + 1, g)
      BY <1>1, <1>2 DEF Covers
    <3> QED
      BY <3>1, <1>14 DEF Spaced
  <2>7. \A o \in (H \cup {hd}) \ {hd} : Off(o, m[o].size, hd, s)
    BY <1>1, <1>2, <1>3 DEF Off
  <2>8. s >= 1 /\ hd + s <= HeapEnd /\ hd \in H \cup {hd}
    BY <1>1, <1>2
  <2> DEFINE H2 == H \cup {hd}
  <2>9. /\ FreedNode(u, k, h2, H, H2, hd, s) /\ \A o \in H2 \ {hd} : Off(o, m[o].size, hd, s)
    BY <2>5, <2>7
  <2> HIDE DEF H2
  <2> QED
    BY <2>6, <2>8, <2>9, <1>2, <1>9
<1> QED
  BY <1>15, <1>16, <1>17, <1>18
-----------------------------------------------------------------------------
(* The invariant *)

\* The block processor c is about to return, or to give back.
Own(l, c) == IF l.ptr = NULL THEN {} ELSE {[ptr |-> l.ptr, size |-> l.size, cpu |-> c]}

\* All blocks in use.
BlocksOf(lv, lc) == lv \cup UNION {Own(lc[c], c) : c \in CPU}

\* The page allockpage has just given a processor.
FreshAt(label, l) == IF label \in {"first_init", "new_init"} THEN l.ph ELSE NULL
FreshOf(ps, lc) == [c \in CPU |-> FreshAt(ps[c], lc[c])]

\* What a processor at label knows of its locals l and of its page list, which starts at h ...
Shape(label, l, h) ==
  /\ label \in {"idle", "first_lock", "first_heap", "first_page", "first_init", "search_lock", "find", "fast",
                "new_heap", "new_page", "new_init", "huge_lock", "huge"} => l.ptr = NULL
  /\ label \in {"zero", "free_lock", "free_scan", "free_link", "free_huge_lock", "free_huge"} => l.ptr # NULL
  /\ label \in {"first_lock", "first_heap", "first_page", "first_init"} => h = NULL
  /\ label \in {"first_lock", "first_heap", "first_page", "first_init", "search_lock", "find", "fast", "zero",
                "new_heap", "new_page", "new_init", "free_link"} => l.size \in SmallSize
  /\ label \in {"huge_lock", "huge", "free_huge_lock", "free_huge"} => l.size \in SizeClass /\ l.size > MaxSmall

\* ... of the page it has found, and of the neighbours in its free list ...
Linking(m, l, c, F, BS) ==
  /\ \A b \in Own(l, c) : FreePage(m, l.ph, F, In(BS, l.ph), b)
  /\ Highest(l.before, {f \in F : f < l.ptr}) /\ Lowest(l.after, {f \in F : f > l.ptr})
OnPage(m, label, l, c, Q, BS) ==
  /\ label = "fast" => l.ph \in Q /\ m[l.ph].size = l.size /\ m[l.ph].magic > 0
  /\ label = "free_link" => l.ph \in Q /\ \E F : Linking(m, l, c, F, BS)

\* ... and of the bytes of its block.
Zeroed(m, label, l) ==
  label = "ret" /\ l.ptr # NULL /\ l.size <= MaxSmall => \A g \in Run(l.ptr, l.size) : m[g] = ZeroCell

Proc(m, label, l, c, h, Q, BS, lv) ==
  Shape(label, l, h) /\ OnPage(m, label, l, c, Q, BS) /\ Zeroed(m, label, l) /\ Own(l, c) \cap lv = {}

\* The bytes of the blocks lv are those their clients wrote.
Intact(m, lv) == \A b \in lv : \A g \in Run(b.ptr, b.size) : g \in Granule /\ m[g] = UserCell(b.ptr)

All(m, h, ph, ps, lc, lv, H, P) ==
  /\ ps \in [CPU -> PC] /\ lc \in [CPU -> Locals]
  /\ World(m, h, ph, FreshOf(ps, lc), BlocksOf(lv, lc), H, P)
  /\ \A c \in CPU : Proc(m, ps[c], lc[c], c, ph[c], P[c], BlocksOf(lv, lc), lv)
  /\ Intact(m, lv)

\* A processor has at most one block.
LEMMA OwnFacts ==
  ASSUME NEW l, NEW c, NEW b \in Own(l, c)
  PROVE  b.ptr = l.ptr /\ b.size = l.size /\ b.cpu = c /\ l.ptr # NULL /\ Own(l, c) = {b}
  BY DEF Own

\* The blocks of the other processors.
RestOf(lc, c) == UNION {Own(lc[d], d) : d \in CPU \ {c}}

\* The blocks B are those of lv, of o and of the other processors.
SplitBy(B, lv, o, lc, c) ==
  B = lv \cup o \cup RestOf(lc, c) /\ \A b \in RestOf(lc, c) : b.cpu # c

\* The block of processor c, and the others.
LEMMA BlocksSplit ==
  ASSUME NEW lv, NEW lc, NEW c \in CPU
  PROVE  SplitBy(BlocksOf(lv, lc), lv, Own(lc[c], c), lc, c)
<1>1. ASSUME NEW b \in RestOf(lc, c) PROVE b.cpu # c
  BY OwnFacts DEF RestOf
<1> QED
  BY <1>1 DEF BlocksOf, RestOf, SplitBy

\* A step of processor c changes its own block only.
LEMMA BlocksStep ==
  ASSUME NEW lv, NEW lc \in [CPU -> Locals], NEW c \in CPU, NEW l, NEW f, f = [lc EXCEPT ![c] = l]
  PROVE  SplitBy(BlocksOf(lv, f), lv, Own(l, c), lc, c)
<1>1. f[c] = l /\ \A d \in CPU \ {c} : f[d] = lc[d]
  OBVIOUS
<1>2. RestOf(f, c) = RestOf(lc, c)
  BY <1>1 DEF RestOf
<1>3. SplitBy(BlocksOf(lv, f), lv, Own(f[c], c), f, c)
  BY BlocksSplit
<1> QED
  BY <1>1, <1>2, <1>3 DEF SplitBy

\* The new pages are those of fr but for x of processor c.
FreshIs(fr, f2, c, x) == f2 = [fr EXCEPT ![c] = x] /\ (x = fr[c] => f2 = fr)

\* A step of processor c changes its own new page only.
LEMMA FreshStep ==
  ASSUME NEW ps \in [CPU -> PC], NEW lc \in [CPU -> Locals], NEW c \in CPU, NEW label, NEW l,
         NEW ps2, ps2 = [ps EXCEPT ![c] = label], NEW lc2, lc2 = [lc EXCEPT ![c] = l]
  PROVE  FreshIs(FreshOf(ps, lc), FreshOf(ps2, lc2), c, FreshAt(label, l))
  BY DEF FreshOf, FreshIs

\* A step of processor c, seen from the others.
Apart2(m, k, ph, ph2, lc, P, P2, BS, B2, c) ==
  /\ \A d \in CPU \ {c} : P2[d] = P[d] /\ ph2[d] = ph[d]
  /\ Others(m, k, P, BS, B2, c) /\ Kept(m, k, (BS \cap B2) \ Own(lc[c], c))

Stepped(m, k, h2, ph, ph2, ps2, lc, lc2, lv, lv2, H2, P, P2, c, label, l) ==
  LET BS == BlocksOf(lv, lc)
      B2 == BlocksOf(lv2, lc2)
  IN  /\ World(k, h2, ph2, FreshOf(ps2, lc2), B2, H2, P2)
      /\ Apart2(m, k, ph, ph2, lc, P, P2, BS, B2, c)
      /\ Proc(k, label, l, c, ph2[c], P2[c], B2, lv2)
      /\ Intact(k, lv2 \ lv) /\ \A b \in lv2 \ lv : b.cpu = c

\* A step of processor c that leaves the heap in order, what the others rely on alone and
\* processor c where it should be preserves the invariant.
LEMMA Step ==
  ASSUME NEW m, NEW h, NEW ph, NEW ps, NEW lc, NEW lv, NEW H, NEW P, All(m, h, ph, ps, lc, lv, H, P),
         NEW c \in CPU, NEW label \in PC, NEW l \in Locals,
         NEW k, NEW h2, NEW ph2, NEW lv2, NEW H2, NEW P2,
         NEW ps2, ps2 = [ps EXCEPT ![c] = label], NEW lc2, lc2 = [lc EXCEPT ![c] = l],
         Stepped(m, k, h2, ph, ph2, ps2, lc, lc2, lv, lv2, H2, P, P2, c, label, l)
  PROVE  All(k, h2, ph2, ps2, lc2, lv2, H2, P2)
<1> DEFINE BS == BlocksOf(lv, lc)
           B2 == BlocksOf(lv2, lc2)
           f2 == FreshOf(ps2, lc2)
<1>0. /\ World(k, h2, ph2, f2, B2, H2, P2) /\ Apart2(m, k, ph, ph2, lc, P, P2, BS, B2, c)
      /\ Proc(k, label, l, c, ph2[c], P2[c], B2, lv2)
      /\ Intact(k, lv2 \ lv) /\ \A b \in lv2 \ lv : b.cpu = c
      /\ BS = BlocksOf(lv, lc) /\ B2 = BlocksOf(lv2, lc2) /\ f2 = FreshOf(ps2, lc2)
  BY DEF Stepped
<1> USE <1>0
<1> HIDE DEF BS, B2, f2
<1>1. ps \in [CPU -> PC] /\ lc \in [CPU -> Locals] /\ World(m, h, ph, FreshOf(ps, lc), BS, H, P)
  BY DEF All
<1>2. /\ ps2 \in [CPU -> PC] /\ lc2 \in [CPU -> Locals] /\ ps2[c] = label /\ lc2[c] = l
      /\ \A d \in CPU \ {c} : ps2[d] = ps[d] /\ lc2[d] = lc[d]
  BY <1>1
<1>3. /\ BS = lv \cup Own(lc[c], c) \cup RestOf(lc, c)
      /\ B2 = lv2 \cup Own(l, c) \cup RestOf(lc, c)
      /\ \A b \in RestOf(lc, c) : b.cpu # c
  <2>1. SplitBy(BlocksOf(lv, lc), lv, Own(lc[c], c), lc, c)
    BY BlocksSplit
  <2>2. SplitBy(BlocksOf(lv2, lc2), lv2, Own(l, c), lc, c)
    BY <1>1, BlocksStep
  <2> QED
    BY <2>1, <2>2 DEF SplitBy
<1>4. \A b \in Own(lc[c], c) : b.cpu = c
  BY OwnFacts
<1>5. Own(lc[c], c) \cap lv = {}
  BY DEF All, Proc
<1>6. \A b \in RestOf(lc, c) \cup (lv \cap lv2) : \A g \in Run(b.ptr, b.size) : k[g] = m[g]
  <2>1. \A b \in RestOf(lc, c) \cup (lv \cap lv2) : b \in (BS \cap B2) \ Own(lc[c], c)
    BY <1>3, <1>4, <1>5
  <2> QED
    BY <2>1 DEF Apart2, Kept
<1>7. Intact(k, lv2)
  BY <1>6 DEF Intact, All
<1>8. ASSUME NEW d \in CPU \ {c} PROVE Proc(k, ps[d], lc[d], d, ph2[d], P2[d], B2, lv2)
  <2>1. Proc(m, ps[d], lc[d], d, ph[d], P[d], BS, lv) /\ P2[d] = P[d] /\ ph2[d] = ph[d] /\ d \in CPU
    BY DEF All, Apart2
  <2>2. Own(lc[d], d) \cap lv2 = {}
    BY <2>1, OwnFacts DEF Proc
  <2>3. Zeroed(k, ps[d], lc[d])
    <3>1. SUFFICES ASSUME ps[d] = "ret", lc[d].ptr # NULL, lc[d].size <= MaxSmall,
                          NEW g \in Run(lc[d].ptr, lc[d].size)
                   PROVE  k[g] = ZeroCell
      BY DEF Zeroed
    <3>2. PICK b \in Own(lc[d], d) : b.ptr = lc[d].ptr /\ b.size = lc[d].size
      BY <3>1 DEF Own
    <3>3. b \in RestOf(lc, c)
      BY <3>2 DEF RestOf
    <3> QED
      BY <3>1, <3>2, <3>3, <1>6, <2>1 DEF Proc, Zeroed
  <2>4. ASSUME NEW p \in P[d]
        PROVE  /\ PageAt(p) /\ p \in Granule /\ p \in Int /\ k[p] = m[p] /\ In(B2, p) = In(BS, p)
               /\ \A F : FreeOK(m, p, F, In(BS, p)) /\ m[p].size \in SmallSize => FreeOK(k, p, F, In(BS, p))
    <3>1. p \in Pages(P, FreshOf(ps, lc), d) /\ PageSize \in Nat \ {0} /\ m \in Memory /\ k \in Memory
      BY <1>1, PageSizePos DEF Pages, World
    <3>2. PageAt(p) /\ p \in Granule /\ p \in Int /\ PageOK(m, p, In(BS, p))
      BY <2>1, <3>1, <1>1, PageFacts DEF World, PageInv, FillInv
    <3>3. In(B2, p) = In(BS, p) /\ \A g \in Granule : p <= g /\ g < p + PageSize => k[g] = m[g]
      BY DEF Apart2, Others
    <3>4. k[p] = m[p]
      BY <3>1, <3>2, <3>3
    <3>5. /\ k[p].size = m[p].size /\ k[p].magic = m[p].magic
          /\ \A g \in Granule : p < g /\ g < p + PageSize
               /\ (\A b \in In(BS, p) : g < b.ptr \/ b.ptr + b.size <= g) => k[g] = m[g]
      BY <3>2, <3>3, <3>4, GranuleInt
    <3>6. \A F : FreeOK(m, p, F, In(BS, p)) /\ m[p].size \in SmallSize => FreeOK(k, p, F, In(BS, p))
      BY ONLY <3>1, <3>2, <3>5, PageFrame
    <3> QED
      BY <3>2, <3>3, <3>4, <3>6
  <2>5. OnPage(k, ps[d], lc[d], d, P2[d], B2)
    <3>1. CASE ps[d] = "fast"
      BY <3>1, <2>1, <2>4 DEF Proc, OnPage
    <3>2. CASE ps[d] = "free_link"
      <4> DEFINE p == lc[d].ph
      <4>1. p \in P[d] /\ \E F : Linking(m, lc[d], d, F, BS)
        BY <3>2, <2>1 DEF Proc, OnPage
      <4>2. PICK F : Linking(m, lc[d], d, F, BS)
        BY <4>1
      <4>3. ASSUME NEW b \in Own(lc[d], d) PROVE FreePage(k, p, F, In(B2, p), b)
        <5>1. FreePage(m, p, F, In(BS, p), b)
          BY <4>2, <4>3 DEF Linking
        <5>2. /\ m[p].size \in SmallSize /\ m[p].magic \in Nat /\ BlocksOK(m, p, In(BS, p))
              /\ FreeOK(m, p, F, In(BS, p)) /\ b \in In(BS, p)
          BY <5>1 DEF FreePage
        <5>3. k[p] = m[p] /\ In(B2, p) = In(BS, p) /\ FreeOK(k, p, F, In(BS, p))
          BY <4>1, <5>2, <2>4
        <5> HIDE DEF p
        <5> QED
          BY <5>2, <5>3 DEF FreePage, BlocksOK
      <4>4. Linking(k, lc[d], d, F, B2)
        BY <4>2, <4>3 DEF Linking
      <4> QED
        BY <3>2, <4>1, <4>4, <2>1 DEF OnPage
    <3>3. CASE ps[d] \notin {"fast", "free_link"}
      BY <3>3 DEF OnPage
    <3> QED
      BY <3>1, <3>2, <3>3
  <2> QED
    BY <2>1, <2>2, <2>3, <2>5 DEF Proc
<1>9. \A d \in CPU : Proc(k, ps2[d], lc2[d], d, ph2[d], P2[d], B2, lv2)
  BY <1>2, <1>8
<1> QED
  BY <1>2, <1>7, <1>9 DEF All

\* A step of processor c that stores nothing in the heap.
LEMMA CtlStep ==
  ASSUME NEW m, NEW h, NEW ph, NEW ps, NEW lc, NEW lv, NEW H, NEW P, All(m, h, ph, ps, lc, lv, H, P),
         NEW c \in CPU, NEW label \in PC, NEW l \in Locals, NEW lv2, lv2 \subseteq lv,
         NEW ps2, ps2 = [ps EXCEPT ![c] = label], NEW lc2, lc2 = [lc EXCEPT ![c] = l],
         FreshAt(label, l) = FreshAt(ps[c], lc[c]), lv2 \cup Own(l, c) = lv \cup Own(lc[c], c),
         Proc(m, label, l, c, ph[c], P[c], BlocksOf(lv, lc), lv2)
  PROVE  All(m, h, ph, ps2, lc2, lv2, H, P)
<1> DEFINE BS == BlocksOf(lv, lc)
           f2 == FreshOf(ps2, lc2)
<1>1. ps \in [CPU -> PC] /\ lc \in [CPU -> Locals] /\ World(m, h, ph, FreshOf(ps, lc), BS, H, P)
  BY DEF All
<1>2. BS = BlocksOf(lv2, lc2)
  <2>1. SplitBy(BlocksOf(lv, lc), lv, Own(lc[c], c), lc, c)
    BY BlocksSplit
  <2>2. SplitBy(BlocksOf(lv2, lc2), lv2, Own(l, c), lc, c)
    BY <1>1, BlocksStep
  <2> QED
    BY <2>1, <2>2 DEF SplitBy
<1>3. f2 = FreshOf(ps, lc)
  <2>1. FreshOf(ps, lc)[c] = FreshAt(ps[c], lc[c])
    BY DEF FreshOf
  <2>2. FreshIs(FreshOf(ps, lc), FreshOf(ps2, lc2), c, FreshAt(label, l))
    BY <1>1, FreshStep
  <2> QED
    BY <2>1, <2>2 DEF FreshIs
<1>4. Apart2(m, m, ph, ph, lc, P, P, BS, BS, c)
  BY DEF Apart2, Others, Kept
<1>5. Intact(m, lv2 \ lv) /\ \A b \in lv2 \ lv : b.cpu = c
  BY DEF Intact
<1>6. Stepped(m, m, h, ph, ph, ps2, lc, lc2, lv, lv2, H, P, P, c, label, l)
  BY <1>1, <1>2, <1>3, <1>4, <1>5 DEF Stepped
<1> QED
  BY <1>6, Step
-----------------------------------------------------------------------------
(* Steps that change the control state only *)

Now(H, P) == All(mem, head, pagehead, pc, loc, live, H, P)

DataInv == \E H, P : Now(H, P)

\* The label changes, and nothing else that matters.
LEMMA Move ==
  ASSUME NEW m, NEW h, NEW ph, NEW ps, NEW lc, NEW lv, NEW H, NEW P, All(m, h, ph, ps, lc, lv, H, P),
         NEW c \in CPU, NEW label \in PC \ {"fast", "free_link"}, NEW l \in Locals,
         NEW ps2, ps2 = [ps EXCEPT ![c] = label], NEW lc2, lc2 = [lc EXCEPT ![c] = l],
         FreshAt(label, l) = FreshAt(ps[c], lc[c]), Own(l, c) = Own(lc[c], c),
         label = "ret" => l.ptr = NULL, Shape(label, l, ph[c])
  PROVE  All(m, h, ph, ps2, lc2, lv, H, P)
<1>1. Own(l, c) \cap lv = {}
  BY DEF All, Proc
<1>2. Proc(m, label, l, c, ph[c], P[c], BlocksOf(lv, lc), lv)
  BY <1>1 DEF Proc, OnPage, Zeroed
<1>3. lv \subseteq lv /\ lv \cup Own(l, c) = lv \cup Own(lc[c], c) /\ label \in PC
  OBVIOUS
<1> QED
  BY <1>2, <1>3, CtlStep

\* What is known of processor c.
LEMMA ProcFacts ==
  ASSUME NEW H, NEW P, Now(H, P), NEW c \in CPU
  PROVE  /\ pc \in [CPU -> PC] /\ loc \in [CPU -> Locals] /\ pc[c] \in PC /\ loc[c] \in Locals
         /\ World(mem, head, pagehead, FreshOf(pc, loc), BlocksOf(live, loc), H, P)
         /\ Shape(pc[c], loc[c], pagehead[c]) /\ OnPage(mem, pc[c], loc[c], c, P[c], BlocksOf(live, loc))
         /\ Zeroed(mem, pc[c], loc[c]) /\ Own(loc[c], c) \cap live = {} /\ Intact(mem, live)
         /\ loc = [loc EXCEPT ![c] = loc[c]] /\ pc = [pc EXCEPT ![c] = pc[c]]
  BY DEF Now, All, Proc

\* The locals are integers.
LEMMA LocalTypes ==
  ASSUME NEW l \in Locals
  PROVE  l.size \in Int /\ l.ptr \in Int /\ l.ph \in Int /\ l.before \in Int /\ l.after \in Int
  BY DEF Locals

\* The client calls kalloc.
LEMMA CallStep ==
  ASSUME NEW H, NEW P, Now(H, P), NEW c \in CPU, KallocSmall(c) \/ KallocHuge(c) \/ KallocTooBig(c)
  PROVE  Now(H, P)'
<1>1. PICK label, l : /\ pc' = [pc EXCEPT ![c] = label] /\ loc' = [loc EXCEPT ![c] = l] /\ l \in Locals
                      /\ l.ptr = NULL /\ Shape(label, l, pagehead[c]) /\ label \in PC \ {"fast", "free_link"}
                      /\ FreshAt(label, l) = NULL /\ pc[c] = "idle"
  <2>1. CASE KallocSmall(c)
    <3>1. PICK s \in SizeClass : s <= MaxSmall /\ loc' = [loc EXCEPT ![c] = [NoLocals EXCEPT !.size = s]]
      BY <2>1 DEF KallocSmall, SetLocals
    <3> DEFINE l == [NoLocals EXCEPT !.size = s]
               label == IF pagehead[c] = NULL THEN "first_lock" ELSE "search_lock"
    <3>2. s \in SmallSize /\ s \in Int
      BY <3>1, ClassFacts DEF SmallSize
    <3>3. l \in Locals /\ l.size = s /\ l.ptr = NULL
      BY <3>2, GranuleInt DEF Locals, NoLocals
    <3>4. pc' = [pc EXCEPT ![c] = label] /\ pc[c] = "idle"
      BY <2>1 DEF KallocSmall, Goto, At
    <3>5. Shape(label, l, pagehead[c]) /\ FreshAt(label, l) = NULL /\ label \in PC \ {"fast", "free_link"}
      BY <3>2, <3>3 DEF Shape, FreshAt, PC
    <3> QED
      BY <3>1, <3>3, <3>4, <3>5
  <2>2. CASE KallocHuge(c)
    <3>1. PICK n \in Request, s \in SizeClass : n > MaxSmall /\ RoundsTo(n, s)
                                                 /\ loc' = [loc EXCEPT ![c] = [NoLocals EXCEPT !.size = s]]
      BY <2>2 DEF KallocHuge, SetLocals
    <3> DEFINE l == [NoLocals EXCEPT !.size = s]
    <3>2. s \in Int /\ s > MaxSmall
      BY <3>1, ClassFacts, ClientAssumption DEF RoundsTo
    <3>3. l \in Locals /\ l.size = s /\ l.ptr = NULL
      BY <3>2, GranuleInt DEF Locals, NoLocals
    <3>4. pc' = [pc EXCEPT ![c] = "huge_lock"] /\ pc[c] = "idle"
      BY <2>2 DEF KallocHuge, Goto, At
    <3>5. /\ Shape("huge_lock", l, pagehead[c]) /\ FreshAt("huge_lock", l) = NULL
          /\ "huge_lock" \in PC \ {"fast", "free_link"}
      BY <3>2, <3>3 DEF Shape, FreshAt, PC
    <3> QED
      BY <3>1, <3>3, <3>4, <3>5
  <2>3. CASE KallocTooBig(c)
    <3>1. pc' = [pc EXCEPT ![c] = "ret"] /\ pc[c] = "idle" /\ loc' = [loc EXCEPT ![c] = NoLocals]
      BY <2>3 DEF KallocTooBig, Goto, At, SetLocals
    <3>2. NoLocals \in Locals /\ NoLocals.ptr = NULL
      BY GranuleInt DEF Locals, NoLocals
    <3>3. Shape("ret", NoLocals, pagehead[c]) /\ FreshAt("ret", NoLocals) = NULL /\ "ret" \in PC \ {"fast", "free_link"}
      BY DEF Shape, FreshAt, PC
    <3> QED
      BY <3>1, <3>2, <3>3
  <2> QED
    BY <2>1, <2>2, <2>3
<1>2. UNCHANGED <<mem, head, pagehead, live>>
  BY DEF KallocSmall, KallocHuge, KallocTooBig
<1>3. Own(l, c) = Own(loc[c], c) /\ FreshAt(pc[c], loc[c]) = NULL
  <2>1. loc[c].ptr = NULL
    BY <1>1, ProcFacts DEF Shape
  <2> QED
    BY <2>1, <1>1 DEF Own, FreshAt
<1>4. All(mem, head, pagehead, pc', loc', live, H, P)
  <2>1. All(mem, head, pagehead, pc, loc, live, H, P) /\ (label = "ret" => l.ptr = NULL)
    BY <1>1 DEF Now
  <2>2. FreshAt(label, l) = FreshAt(pc[c], loc[c])
    BY <1>1, <1>3
  <2> QED
    BY ONLY <2>1, <2>2, <1>1, <1>3, c \in CPU, Move
<1> QED
  BY <1>2, <1>4 DEF Now
\* A step that changes the label of processor c only.
LEMMA LabelStep ==
  ASSUME NEW H, NEW P, Now(H, P), NEW c \in CPU, NEW label \in PC \ {"fast", "free_link"},
         pc' = [pc EXCEPT ![c] = label], UNCHANGED <<mem, head, pagehead, loc, live>>,
         FreshAt(label, loc[c]) = FreshAt(pc[c], loc[c]), label = "ret" => loc[c].ptr = NULL,
         Shape(label, loc[c], pagehead[c])
  PROVE  Now(H, P)'
<1>1. All(mem, head, pagehead, pc, loc, live, H, P) /\ loc[c] \in Locals /\ Own(loc[c], c) = Own(loc[c], c)
  BY ProcFacts DEF Now
<1>2. loc' = [loc EXCEPT ![c] = loc[c]]
  BY ProcFacts
<1>3. ASSUME NEW l, l = loc[c] PROVE All(mem, head, pagehead, pc', loc', live, H, P)
  <2>1. loc' = [loc EXCEPT ![c] = l] /\ Own(l, c) = Own(loc[c], c) /\ l \in Locals
    BY <1>1, <1>2, <1>3
  <2>2. FreshAt(label, l) = FreshAt(pc[c], loc[c]) /\ (label = "ret" => l.ptr = NULL) /\ Shape(label, l, pagehead[c])
    BY <1>3
  <2> QED
    BY ONLY <1>1, <2>1, <2>2, c \in CPU, label \in PC \ {"fast", "free_link"}, pc' = [pc EXCEPT ![c] = label], Move
<1> QED
  BY <1>3 DEF Now

\* The sets H and P are the nodes of the lists in memory.
LEMMA ListsAre ==
  ASSUME NEW m, NEW h, NEW ph, NEW fr, NEW BS, NEW H, NEW P, World(m, h, ph, fr, BS, H, P)
  PROVE  H = Nodes(m, h) /\ \A c \in CPU : P[c] = Nodes(m, ph[c])
  BY DEF World, HeapInv, PageInv, List

\* A page on some list around an address in the block b is the page of b.
LEMMA PageOf ==
  ASSUME NEW m, NEW h, NEW ph, NEW fr, NEW BS, NEW H, NEW P, World(m, h, ph, fr, BS, H, P),
         NEW b \in BS, NEW d \in CPU, NEW p \in P[d], p < b.ptr, b.ptr < p + PageSize
  PROVE  b \in In(BS, p) /\ d = b.cpu
<1>1. p \in Pages(P, fr, d)
  BY DEF Pages
<1>2. p \in Int /\ PageSize \in Int /\ b.ptr \in Int /\ b.size \in Nat \ {0}
  BY <1>1, PageFacts, BlockFacts, PageSizePos DEF World, PageInv
<1>3. ~Off(p, PageSize, b.ptr, b.size)
  BY <1>2 DEF Off
<1> QED
  BY <1>1, <1>3, PageOrOff

\* The block of processor c, when it has one.
LEMMA OwnBlock ==
  ASSUME NEW H, NEW P, Now(H, P), NEW c \in CPU, loc[c].ptr # NULL
  PROVE  \E b \in BlocksOf(live, loc) :
           /\ b.ptr = loc[c].ptr /\ b.size = loc[c].size /\ b.cpu = c /\ Own(loc[c], c) = {b} /\ b \notin live
<1>1. PICK b \in Own(loc[c], c) : TRUE
  BY DEF Own
<1>2. b \in BlocksOf(live, loc)
  BY <1>1 DEF BlocksOf
<1> QED
  BY <1>1, <1>2, OwnFacts, ProcFacts

\* The steps that take or release a lock, or go on without storing anything.
LEMMA QuietStep ==
  ASSUME NEW H, NEW P, Now(H, P), NEW c \in CPU,
         \/ AllockpageLock(c) \/ FirstLock(c) \/ SearchLock(c) \/ NeedPage(c) \/ NoPage(c)
         \/ HugeLock(c) \/ KfreeLock(c) \/ KfreeNotInPage(c) \/ KfreeHugeLock(c)
  PROVE  Now(H, P)'
<1> DEFINE To(label) == pc' = [pc EXCEPT ![c] = label] /\ UNCHANGED <<mem, head, pagehead, loc, live>>
           l == loc[c]
<1>1. Shape(pc[c], l, pagehead[c])
  BY ProcFacts
<1>2. CASE AllockpageLock(c)
  <2>1. CASE pc[c] = "first_heap"
    <3>1. To("first_page")
      BY <1>2, <2>1 DEF AllockpageLock, Goto, At
    <3>2. /\ "first_page" \in PC \ {"fast", "free_link"} /\ Shape("first_page", l, pagehead[c])
          /\ FreshAt("first_page", l) = FreshAt(pc[c], l)
      BY <1>1, <2>1 DEF Shape, FreshAt, PC
    <3> QED
      BY <3>1, <3>2, LabelStep
  <2>2. CASE pc[c] = "new_heap"
    <3>1. To("new_page")
      BY <1>2, <2>2 DEF AllockpageLock, Goto, At
    <3>2. /\ "new_page" \in PC \ {"fast", "free_link"} /\ Shape("new_page", l, pagehead[c])
          /\ FreshAt("new_page", l) = FreshAt(pc[c], l)
      BY <1>1, <2>2 DEF Shape, FreshAt, PC
    <3> QED
      BY <3>1, <3>2, LabelStep
  <2> QED
    BY <1>2, <2>1, <2>2 DEF AllockpageLock, At
<1>3. CASE FirstLock(c)
  <2>1. To("first_heap") /\ pc[c] = "first_lock"
    BY <1>3 DEF FirstLock, Goto, At
  <2>2. /\ "first_heap" \in PC \ {"fast", "free_link"} /\ Shape("first_heap", l, pagehead[c])
        /\ FreshAt("first_heap", l) = FreshAt(pc[c], l)
    BY <1>1, <2>1 DEF Shape, FreshAt, PC
  <2> QED
    BY <2>1, <2>2, LabelStep
<1>4. CASE SearchLock(c)
  <2>1. To("find") /\ pc[c] = "search_lock"
    BY <1>4 DEF SearchLock, Goto, At
  <2>2. /\ "find" \in PC \ {"fast", "free_link"} /\ Shape("find", l, pagehead[c])
        /\ FreshAt("find", l) = FreshAt(pc[c], l)
    BY <1>1, <2>1 DEF Shape, FreshAt, PC
  <2> QED
    BY <2>1, <2>2, LabelStep
<1>5. CASE NeedPage(c)
  <2>1. To("new_heap") /\ pc[c] = "find"
    BY <1>5 DEF NeedPage, Goto, At
  <2>2. /\ "new_heap" \in PC \ {"fast", "free_link"} /\ Shape("new_heap", l, pagehead[c])
        /\ FreshAt("new_heap", l) = FreshAt(pc[c], l)
    BY <1>1, <2>1 DEF Shape, FreshAt, PC
  <2> QED
    BY <2>1, <2>2, LabelStep
<1>6. CASE NoPage(c)
  <2>1. To("ret") /\ pc[c] = "new_init" /\ l.ph = NULL
    BY <1>6 DEF NoPage, Goto, At
  <2>2. /\ "ret" \in PC \ {"fast", "free_link"} /\ Shape("ret", l, pagehead[c])
        /\ FreshAt("ret", l) = FreshAt(pc[c], l) /\ l.ptr = NULL
    BY <1>1, <2>1 DEF Shape, FreshAt, PC
  <2> QED
    BY <2>1, <2>2, LabelStep
<1>7. CASE HugeLock(c)
  <2>1. To("huge") /\ pc[c] = "huge_lock"
    BY <1>7 DEF HugeLock, Goto, At
  <2>2. /\ "huge" \in PC \ {"fast", "free_link"} /\ Shape("huge", l, pagehead[c])
        /\ FreshAt("huge", l) = FreshAt(pc[c], l)
    BY <1>1, <2>1 DEF Shape, FreshAt, PC
  <2> QED
    BY <2>1, <2>2, LabelStep
<1>8. CASE KfreeLock(c)
  <2>1. To("free_scan") /\ pc[c] = "free_lock"
    BY <1>8 DEF KfreeLock, Goto, At
  <2>2. /\ "free_scan" \in PC \ {"fast", "free_link"} /\ Shape("free_scan", l, pagehead[c])
        /\ FreshAt("free_scan", l) = FreshAt(pc[c], l)
    BY <1>1, <2>1 DEF Shape, FreshAt, PC
  <2> QED
    BY <2>1, <2>2, LabelStep
<1>9. CASE KfreeNotInPage(c)
  <2>1. To("free_huge_lock") /\ pc[c] = "free_scan" /\ PagesHolding(l.ptr) = {}
    BY <1>9 DEF KfreeNotInPage, Goto, At
  <2>2. l.ptr # NULL
    BY <1>1, <2>1 DEF Shape
  <2>3. PICK b \in BlocksOf(live, loc) : b.ptr = l.ptr /\ b.size = l.size /\ b.cpu = c
    BY <2>2, OwnBlock
  <2>4. World(mem, head, pagehead, FreshOf(pc, loc), BlocksOf(live, loc), H, P)
    BY ProcFacts
  <2>5. IsHuge(b)
    <3>1. ASSUME ~IsHuge(b) PROVE FALSE
      <4>1. PICK p \in P[c] : p \in Int /\ p < b.ptr /\ b.ptr + b.size <= p + PageSize
        BY <3>1, <2>3, <2>4, SmallIn
      <4>2. b.ptr \in Int /\ b.size \in Nat \ {0} /\ PageSize \in Int
        BY <2>4, BlockFacts, PageSizePos
      <4>3. p \in AllPages
        BY <2>4, ListsAre DEF AllPages
      <4>4. p < l.ptr /\ l.ptr < p + PageSize
        BY <4>1, <4>2, <2>3
      <4> QED
        BY <4>3, <4>4, <2>1 DEF PagesHolding
    <3> QED
      BY <3>1
  <2>6. l.size \in SizeClass /\ l.size > MaxSmall
    BY <2>3, <2>4, <2>5 DEF IsHuge, World, BlockInv
  <2>7. /\ "free_huge_lock" \in PC \ {"fast", "free_link"} /\ Shape("free_huge_lock", l, pagehead[c])
        /\ FreshAt("free_huge_lock", l) = FreshAt(pc[c], l)
    BY <2>1, <2>2, <2>6 DEF Shape, FreshAt, PC
  <2> QED
    BY <2>1, <2>7, LabelStep
<1>10. CASE KfreeHugeLock(c)
  <2>1. To("free_huge") /\ pc[c] = "free_huge_lock"
    BY <1>10 DEF KfreeHugeLock, Goto, At
  <2>2. /\ "free_huge" \in PC \ {"fast", "free_link"} /\ Shape("free_huge", l, pagehead[c])
        /\ FreshAt("free_huge", l) = FreshAt(pc[c], l)
    BY <1>1, <2>1 DEF Shape, FreshAt, PC
  <2> QED
    BY <2>1, <2>2, LabelStep
<1> QED
  BY <1>2, <1>3, <1>4, <1>5, <1>6, <1>7, <1>8, <1>9, <1>10

\* A step that leaves the heap and the calls in progress alone.
LEMMA StillStep ==
  ASSUME NEW H, NEW P, Now(H, P), UNCHANGED <<mem, head, pagehead, pc, loc, live>>
  PROVE  Now(H, P)'
  BY DEF Now

\* kfree is called: the block changes hands.
LEMMA KfreeStep ==
  ASSUME NEW H, NEW P, Now(H, P), NEW c \in CPU, ~RemoteFree, Kfree(c)
  PROVE  Now(H, P)'
<1>1. PICK b \in live : /\ b.cpu = c /\ live' = live \ {b}
                        /\ loc' = [loc EXCEPT ![c] = [NoLocals EXCEPT !.ptr = b.ptr, !.size = b.size]]
  BY Zenon DEF Kfree, SetLocals
<1>2. pc[c] = "idle" /\ pc' = [pc EXCEPT ![c] = "free_lock"] /\ UNCHANGED <<mem, head, pagehead>>
  BY DEF Kfree, At, Goto
<1>3. /\ World(mem, head, pagehead, FreshOf(pc, loc), BlocksOf(live, loc), H, P) /\ loc[c].ptr = NULL
      /\ b \in BlocksOf(live, loc)
  BY <1>1, <1>2, ProcFacts DEF Shape, BlocksOf
<1>4. b \in Block /\ b.ptr # NULL /\ b.ptr \in Int /\ b.size \in Int
  <2>1. b \in Block /\ HeapStart < b.ptr
    BY <1>3, BlockFacts DEF World, BlockInv
  <2> QED
    BY <2>1, BlockTypes, HeapAssumption DEF NULL
<1> DEFINE l == [NoLocals EXCEPT !.ptr = b.ptr, !.size = b.size]
<1>5. l \in Locals /\ l.ptr = b.ptr /\ l.size = b.size
  BY <1>4, GranuleInt DEF Locals, NoLocals
<1>6. Own(l, c) = {b}
  <2>1. b = [ptr |-> b.ptr, size |-> b.size, cpu |-> c]
    BY <1>4, <1>1 DEF Block
  <2> QED
    BY <2>1, <1>4, <1>5 DEF Own
<1>7. Own(loc[c], c) = {} /\ FreshAt("free_lock", l) = FreshAt(pc[c], loc[c])
  BY <1>2, <1>3 DEF Own, FreshAt
<1> HIDE DEF l
<1>8. Proc(mem, "free_lock", l, c, pagehead[c], P[c], BlocksOf(live, loc), live \ {b})
  BY <1>4, <1>5, <1>6 DEF Proc, Shape, OnPage, Zeroed
<1>9. /\ live \ {b} \subseteq live /\ (live \ {b}) \cup Own(l, c) = live \cup Own(loc[c], c)
      /\ "free_lock" \in PC /\ loc' = [loc EXCEPT ![c] = l]
  BY <1>1, <1>6, <1>7 DEF PC, l
<1>10. ASSUME NEW lv2, lv2 = live \ {b} PROVE All(mem, head, pagehead, pc', loc', lv2, H, P)
  <2>1. /\ lv2 \subseteq live /\ lv2 \cup Own(l, c) = live \cup Own(loc[c], c)
        /\ Proc(mem, "free_lock", l, c, pagehead[c], P[c], BlocksOf(live, loc), lv2)
        /\ All(mem, head, pagehead, pc, loc, live, H, P)
    BY <1>8, <1>9, <1>10 DEF Now
  <2> QED
    BY ONLY <2>1, <1>2, <1>5, <1>7, <1>9, c \in CPU, CtlStep
<1> QED
  BY <1>1, <1>2, <1>10 DEF Now

\* The search of the fast path finds a page of the processor.
LEMMA FindPageStep ==
  ASSUME NEW H, NEW P, Now(H, P), NEW c \in CPU, FindPage(c)
  PROVE  Now(H, P)'
<1>1. PICK p \in Matching(loc[c].size) : /\ First(mem, pagehead[c], p, Matching(loc[c].size))
                                         /\ loc' = [loc EXCEPT ![c] = [loc[c] EXCEPT !.ph = p]]
  BY DEF FindPage, SetLocals
<1>2. pc[c] = "find" /\ pc' = [pc EXCEPT ![c] = "fast"] /\ UNCHANGED <<mem, head, pagehead, live>>
  BY DEF FindPage, At, Goto
<1>3. /\ World(mem, head, pagehead, FreshOf(pc, loc), BlocksOf(live, loc), H, P) /\ loc[c].ptr = NULL
      /\ loc[c].size \in SmallSize /\ loc[c] \in Locals
  BY <1>2, ProcFacts DEF Shape
<1>4. p \in P[c] /\ p \in Int /\ mem[p].size = loc[c].size /\ mem[p].magic > 0
  BY <1>1, <1>3, ListsAre, GranuleInt DEF First, Matching
<1> DEFINE l == [loc[c] EXCEPT !.ph = p]
<1>5. l \in Locals /\ l.ptr = NULL /\ l.size = loc[c].size /\ l.ph = p
  BY <1>3, <1>4 DEF Locals
<1> HIDE DEF l
<1>6. Own(l, c) = {} /\ Own(loc[c], c) = {} /\ FreshAt("fast", l) = FreshAt(pc[c], loc[c])
  BY <1>2, <1>3, <1>5 DEF Own, FreshAt
<1>7. Proc(mem, "fast", l, c, pagehead[c], P[c], BlocksOf(live, loc), live)
  BY <1>3, <1>4, <1>5, <1>6 DEF Proc, Shape, OnPage, Zeroed
<1>8. /\ live \subseteq live /\ live \cup Own(l, c) = live \cup Own(loc[c], c) /\ "fast" \in PC
      /\ loc' = [loc EXCEPT ![c] = l] /\ All(mem, head, pagehead, pc, loc, live, H, P)
  BY <1>1, <1>6 DEF PC, l, Now
<1>9. All(mem, head, pagehead, pc', loc', live, H, P)
  BY ONLY <1>2, <1>5, <1>6, <1>7, <1>8, c \in CPU, CtlStep
<1> QED
  BY <1>2, <1>9 DEF Now

-----------------------------------------------------------------------------
(* Steps that store in the bytes of the processor's own block *)

\* k is m but for the bytes of the block b, which stays that of processor c or of its client.
Bodied(m, k, ph, ps, lc, lv, lv2, P, c, label, l, b) ==
  /\ k \in Memory /\ Own(lc[c], c) = {b} /\ Outside(m, k, b.ptr, b.size)
  /\ FreshAt(label, l) = FreshAt(ps[c], lc[c]) /\ lv2 \cup Own(l, c) = lv \cup {b} /\ lv2 \subseteq lv \cup {b}
  /\ Proc(k, label, l, c, ph[c], P[c], BlocksOf(lv, lc), lv2) /\ Intact(k, lv2 \ lv)

\* Such a step preserves the invariant.
LEMMA BodyStep ==
  ASSUME NEW m, NEW h, NEW ph, NEW ps, NEW lc, NEW lv, NEW H, NEW P, All(m, h, ph, ps, lc, lv, H, P),
         NEW c \in CPU, NEW label \in PC, NEW l \in Locals, NEW lv2, NEW k,
         NEW ps2, ps2 = [ps EXCEPT ![c] = label], NEW lc2, lc2 = [lc EXCEPT ![c] = l],
         NEW b, Bodied(m, k, ph, ps, lc, lv, lv2, P, c, label, l, b)
  PROVE  All(k, h, ph, ps2, lc2, lv2, H, P) /\ NodesKept(m, k, H)
<1> USE DEF Bodied
<1> DEFINE BS == BlocksOf(lv, lc)
           f2 == FreshOf(ps2, lc2)
<1>1. ps \in [CPU -> PC] /\ lc \in [CPU -> Locals] /\ World(m, h, ph, FreshOf(ps, lc), BS, H, P)
  BY DEF All
<1>2. BS = BlocksOf(lv2, lc2)
  <2>1. SplitBy(BlocksOf(lv, lc), lv, Own(lc[c], c), lc, c)
    BY BlocksSplit
  <2>2. SplitBy(BlocksOf(lv2, lc2), lv2, Own(l, c), lc, c)
    BY <1>1, BlocksStep
  <2> QED
    BY <2>1, <2>2 DEF SplitBy
<1>3. f2 = FreshOf(ps, lc)
  <2>1. FreshOf(ps, lc)[c] = FreshAt(ps[c], lc[c])
    BY DEF FreshOf
  <2>2. FreshIs(FreshOf(ps, lc), FreshOf(ps2, lc2), c, FreshAt(label, l))
    BY <1>1, FreshStep
  <2> QED
    BY <2>1, <2>2 DEF FreshIs
<1>4. b \in BS /\ b.cpu = c
  <2>1. b \in Own(lc[c], c)
    OBVIOUS
  <2> QED
    BY <2>1, OwnFacts DEF BlocksOf
<1>5. /\ World(k, h, ph, FreshOf(ps, lc), BS, H, P) /\ Kept(m, k, BS \ {b}) /\ Others(m, k, P, BS, BS, c)
      /\ NodesKept(m, k, H)
  BY <1>1, <1>4, BodyWorld
<1>6. Apart2(m, k, ph, ph, lc, P, P, BS, BS, c)
  BY <1>5 DEF Apart2
<1>7. \A x \in lv2 \ lv : x.cpu = c
  BY <1>4
<1>8. Stepped(m, k, h, ph, ph, ps2, lc, lc2, lv, lv2, H, P, P, c, label, l)
  BY <1>2, <1>3, <1>5, <1>6, <1>7 DEF Stepped
<1> QED
  BY <1>5, <1>8, Step

\* The block of processor c, as the stores in it need it.
LEMMA OwnBytes ==
  ASSUME NEW H, NEW P, Now(H, P), NEW c \in CPU, loc[c].ptr # NULL
  PROVE  \E b \in BlocksOf(live, loc) :
           /\ b.ptr = loc[c].ptr /\ b.size = loc[c].size /\ b.cpu = c /\ Own(loc[c], c) = {b} /\ b \notin live
           /\ b.ptr \in Int /\ b.size \in Nat \ {0} /\ Run(b.ptr, b.size) \subseteq Granule
           /\ \A g \in Granule : g \in Run(b.ptr, b.size) <=> b.ptr <= g /\ g < b.ptr + b.size
<1>1. PICK b \in BlocksOf(live, loc) :
        b.ptr = loc[c].ptr /\ b.size = loc[c].size /\ b.cpu = c /\ Own(loc[c], c) = {b} /\ b \notin live
  BY OwnBlock
<1>2. World(mem, head, pagehead, FreshOf(pc, loc), BlocksOf(live, loc), H, P)
  BY ProcFacts
<1>3. b.ptr \in Int /\ b.size \in Nat \ {0} /\ HeapStart < b.ptr /\ b.ptr + b.size <= HeapEnd
  BY <1>2, BlockFacts
<1>4. HeapStart \in Int /\ HeapEnd \in Int
  BY HeapAssumption
<1>5. Run(b.ptr, b.size) \subseteq Granule
  BY <1>3, <1>4 DEF Run, Granule
<1>6. \A g \in Granule : g \in Run(b.ptr, b.size) <=> b.ptr <= g /\ g < b.ptr + b.size
  BY <1>3, <1>4 DEF Run, Granule
<1> QED
  BY <1>1, <1>3, <1>5, <1>6

\* The memset of the fast path.
LEMMA ZeroStep ==
  ASSUME NEW H, NEW P, Now(H, P), NEW c \in CPU, Zero(c)
  PROVE  Now(H, P)' /\ NodesKept(mem, mem', H)
<1> DEFINE l == loc[c]
           k == memset0(mem, l.ptr, l.size)
<1>1. /\ pc[c] = "zero" /\ pc' = [pc EXCEPT ![c] = "ret"] /\ mem' = k
      /\ UNCHANGED <<head, pagehead, live>> /\ loc' = [loc EXCEPT ![c] = l]
  BY ProcFacts DEF Zero, At, Goto
<1>2. /\ mem \in Memory /\ l \in Locals /\ l.ptr # NULL /\ l.size \in SmallSize
      /\ All(mem, head, pagehead, pc, loc, live, H, P)
  BY <1>1, ProcFacts DEF Shape, World, Now
<1>3. PICK b \in BlocksOf(live, loc) :
           /\ b.ptr = l.ptr /\ b.size = l.size /\ Own(l, c) = {b} /\ b \notin live
           /\ b.ptr \in Int /\ b.size \in Nat \ {0} /\ Run(b.ptr, b.size) \subseteq Granule
           /\ \A g \in Granule : g \in Run(b.ptr, b.size) <=> b.ptr <= g /\ g < b.ptr + b.size
  BY <1>2, OwnBytes
<1>4. /\ k \in Memory
      /\ \A g \in Granule : (b.ptr <= g /\ g < b.ptr + b.size) => k[g] = ZeroCell
      /\ \A g \in Granule : (g < b.ptr \/ b.ptr + b.size <= g) => k[g] = mem[g]
  BY <1>2, <1>3, MemsetCells
<1> HIDE DEF k
<1>5. Outside(mem, k, b.ptr, b.size)
  BY <1>4 DEF Outside
<1>6. Zeroed(k, "ret", l)
  BY <1>3, <1>4 DEF Zeroed
<1>7. Proc(k, "ret", l, c, pagehead[c], P[c], BlocksOf(live, loc), live)
  BY <1>3, <1>6 DEF Proc, Shape, OnPage
<1>8. /\ FreshAt("ret", l) = FreshAt(pc[c], loc[c]) /\ "ret" \in PC /\ Intact(k, live \ live)
      /\ live \cup Own(l, c) = live \cup {b} /\ live \subseteq live \cup {b}
  BY <1>1, <1>3 DEF FreshAt, PC, Intact
<1>9. ASSUME NEW x, x = l PROVE All(k, head, pagehead, pc', loc', live, H, P) /\ NodesKept(mem, k, H)
  <2>1. /\ x \in Locals /\ loc' = [loc EXCEPT ![c] = x] /\ FreshAt("ret", x) = FreshAt(pc[c], loc[c])
        /\ live \cup Own(x, c) = live \cup {b} /\ Own(loc[c], c) = {b}
        /\ Proc(k, "ret", x, c, pagehead[c], P[c], BlocksOf(live, loc), live)
    BY <1>1, <1>2, <1>3, <1>7, <1>8, <1>9
  <2>2. Bodied(mem, k, pagehead, pc, loc, live, live, P, c, "ret", x, b)
    BY <2>1, <1>4, <1>5, <1>8 DEF Bodied
  <2> QED
    BY ONLY <2>1, <2>2, <1>1, <1>2, <1>8, c \in CPU, BodyStep
<1> QED
  BY <1>1, <1>9 DEF Now

\* kalloc returns and the client fills its block.
LEMMA ReturnStep ==
  ASSUME NEW H, NEW P, Now(H, P), NEW c \in CPU, Return(c)
  PROVE  Now(H, P)' /\ NodesKept(mem, mem', H)
<1>1. /\ pc[c] = "ret" /\ pc' = [pc EXCEPT ![c] = "idle"] /\ UNCHANGED <<head, pagehead>>
      /\ loc' = [loc EXCEPT ![c] = NoLocals]
  BY DEF Return, At, Goto, SetLocals
<1>2. mem \in Memory /\ loc[c] \in Locals /\ All(mem, head, pagehead, pc, loc, live, H, P)
  BY ProcFacts DEF World, Now
<1>3. NoLocals \in Locals /\ NoLocals.ptr = NULL
  BY GranuleInt DEF Locals, NoLocals
<1>4. /\ Own(NoLocals, c) = {} /\ FreshAt("idle", NoLocals) = FreshAt(pc[c], loc[c])
      /\ Shape("idle", NoLocals, pagehead[c]) /\ "idle" \in PC \ {"fast", "free_link"} /\ "idle" \in PC
  BY <1>1, <1>3 DEF Own, FreshAt, Shape, PC
<1>5. CASE loc[c].ptr = NULL
  <2>1. UNCHANGED <<mem, live>>
    BY <1>5 DEF Return
  <2>2. Own(NoLocals, c) = Own(loc[c], c)
    BY <1>4, <1>5 DEF Own
  <2>3. All(mem, head, pagehead, pc', loc', live, H, P)
    BY ONLY <2>2, <1>1, <1>2, <1>3, <1>4, c \in CPU, Move
  <2> QED
    BY <1>1, <2>1, <2>3 DEF Now, NodesKept
<1>6. CASE loc[c].ptr # NULL
  <2>1. PICK b \in BlocksOf(live, loc) :
             /\ b.ptr = loc[c].ptr /\ b.size = loc[c].size /\ Own(loc[c], c) = {b} /\ b \notin live
             /\ b.ptr \in Int /\ b.size \in Nat \ {0} /\ Run(b.ptr, b.size) \subseteq Granule
             /\ \A g \in Granule : g \in Run(b.ptr, b.size) <=> b.ptr <= g /\ g < b.ptr + b.size
    BY <1>6, OwnBytes
  <2> DEFINE k == Fill(mem, b.ptr, b.size)
             lv2 == live \cup {b}
  <2>2. mem' = k /\ live' = lv2
    BY <1>6, <2>1 DEF Return, Own
  <2>3. k \in Memory /\ \A g \in Granule : k[g] = IF g \in Run(b.ptr, b.size) THEN UserCell(b.ptr) ELSE mem[g]
    <3>1. UserCell(b.ptr) \in Cell
      BY <2>1, GranuleInt DEF UserCell, Cell
    <3> QED
      BY <3>1, <1>2 DEF Fill, Memory
  <2> HIDE DEF k
  <2>4. Outside(mem, k, b.ptr, b.size)
    BY <2>1, <2>3, GranuleInt DEF Outside
  <2>5. Intact(k, lv2 \ live) /\ lv2 \cup Own(NoLocals, c) = live \cup {b} /\ lv2 \subseteq live \cup {b}
    BY <2>1, <2>3, <1>4 DEF Intact
  <2>6. Proc(k, "idle", NoLocals, c, pagehead[c], P[c], BlocksOf(live, loc), lv2)
    BY <1>4 DEF Proc, OnPage, Zeroed
  <2> HIDE DEF lv2
  <2>7. Bodied(mem, k, pagehead, pc, loc, live, lv2, P, c, "idle", NoLocals, b)
    BY <2>1, <2>3, <2>4, <2>5, <2>6, <1>4 DEF Bodied
  <2>8. All(k, head, pagehead, pc', loc', lv2, H, P) /\ NodesKept(mem, k, H)
    BY ONLY <2>7, <1>1, <1>2, <1>3, <1>4, c \in CPU, BodyStep
  <2> QED
    BY <1>1, <2>2, <2>8 DEF Now
<1> QED
  BY <1>5, <1>6

\* The page of a block that is being freed, when it is not full.
LEMMA FreedPage ==
  ASSUME NEW m, NEW h, NEW ph, NEW fr, NEW BS, NEW H, NEW P, World(m, h, ph, fr, BS, H, P),
         NEW b \in BS, NEW d \in CPU, NEW p \in P[d], p < b.ptr, b.ptr < p + PageSize, m[p].magic # 0
  PROVE  /\ d = b.cpu /\ b \in In(BS, p) /\ b.size = m[p].size /\ b.size \in SmallSize /\ PageAt(p)
         /\ \E F : FreePage(m, p, F, In(BS, p), b)
<1>1. b \in In(BS, p) /\ d = b.cpu
  BY PageOf
<1>2. PageOK(m, p, In(BS, p)) /\ m \in Memory /\ p \in Pages(P, fr, d)
  BY DEF World, FillInv, Pages
<1>3. PageAt(p)
  BY <1>2 DEF World, PageInv
<1>4. m[p].size # 0
  <2>1. 0 \notin SmallSize
    BY SmallFacts
  <2> QED
    BY <2>1, <1>1, <1>2 DEF PageOK
<1>5. m[p].size \in SmallSize /\ BlocksOK(m, p, In(BS, p)) /\ m[p].magic \in Nat /\ \E F : FreeOK(m, p, F, In(BS, p))
  BY <1>2, <1>3, <1>4, HasFree
<1>6. b.size = m[p].size
  BY <1>1, <1>5 DEF BlocksOK
<1> QED
  BY <1>1, <1>3, <1>5, <1>6 DEF FreePage

\* Zeroing the block does not change the page's free list.
LEMMA FreedCleared ==
  ASSUME NEW m, NEW k, NEW p, PageAt(p), NEW F, NEW B, NEW b, FreePage(m, p, F, B, b),
         k \in Memory, Outside(m, k, b.ptr, b.size)
  PROVE  FreePage(k, p, F, B, b) /\ F = Nodes(k, FreeHead(k, p)) /\ F \subseteq Granule
<1>1. /\ m[p].size \in Nat \ {0} /\ p \in Int /\ p \in Granule /\ m \in Memory
      /\ b.ptr \in Int /\ p < b.ptr /\ b.size = m[p].size /\ F \subseteq Granule
  <2>1. /\ m[p].size \in Nat \ {0} /\ p \in Int /\ p \in Granule /\ m \in Memory
        /\ b.ptr \in Int /\ p < b.ptr /\ F \subseteq Granule
    BY ONLY PageAt(p), FreePage(m, p, F, B, b), FreedFacts
  <2>2. b.size = m[p].size
    BY DEF FreePage, BlocksOK
  <2> QED
    BY <2>1, <2>2
<1>2. k[p] = m[p]
  BY <1>1 DEF Outside
<1>3. PageOK(m, p, B) /\ FreeOK(m, p, F, B) /\ m[p].size \in SmallSize /\ b \in B
  BY DEF PageOK, FreePage
<1>4. \A g \in Granule : p < g /\ g < p + PageSize
            /\ (\A x \in B : g < x.ptr \/ x.ptr + x.size <= g) => k[g] = m[g]
  BY <1>3 DEF Outside
<1>5. PageOK(k, p, B) /\ FreeOK(k, p, F, B)
  BY <1>1, <1>2, <1>3, <1>4, PageFrame
<1>6. BlocksOK(k, p, B)
  BY <1>2 DEF BlocksOK, FreePage
<1> QED
  BY <1>1, <1>2, <1>5, <1>6 DEF FreePage, FreeOK, List

\* kfree finds the page of the block, clears the block and finds its neighbours.
LEMMA KfreeScanStep ==
  ASSUME NEW H, NEW P, Now(H, P), NEW c \in CPU, SlotLeft, KfreeScan(c)
  PROVE  Now(H, P)' /\ NodesKept(mem, mem', H)
<1>1. /\ pc[c] = "free_scan" /\ pc' = [pc EXCEPT ![c] = "free_link"] /\ UNCHANGED <<head, pagehead, live>>
      /\ All(mem, head, pagehead, pc, loc, live, H, P) /\ loc[c] \in Locals /\ mem \in Memory /\ loc[c].ptr # NULL
      /\ World(mem, head, pagehead, FreshOf(pc, loc), BlocksOf(live, loc), H, P)
  <2>1. pc[c] = "free_scan" /\ pc' = [pc EXCEPT ![c] = "free_link"] /\ UNCHANGED <<head, pagehead, live>>
    BY DEF KfreeScan, At, Goto
  <2> QED
    BY <2>1, ProcFacts DEF Now, World, Shape
<1> DEFINE ptr == loc[c].ptr
           Cleared(p) == memset0(mem, ptr, mem[p].size)
           Free(p) == Nodes(Cleared(p), FreeHead(Cleared(p), p)) \cap Granule
           Scanned(p, before, after) ==
             /\ Highest(before, {h \in Free(p) : h < ptr}) /\ Lowest(after, {h \in Free(p) : h > ptr})
             /\ mem' = Cleared(p)
             /\ loc' = [loc EXCEPT ![c] = [loc[c] EXCEPT !.ph = p, !.before = before, !.after = after]]
<1>2. \E p \in PagesHolding(ptr) \cap Granule : \E before, after \in Free(p) \cup {NULL} : Scanned(p, before, after)
  BY Zenon DEF KfreeScan, SetLocals
<1> HIDE DEF Scanned
<1>3. PICK p, before, after :
             p \in PagesHolding(ptr) /\ p \in Granule /\ before \in Free(p) \cup {NULL} /\ after \in Free(p) \cup {NULL} /\ Scanned(p, before, after)
  BY <1>2
<1> DEFINE k == Cleared(p)
           l == [loc[c] EXCEPT !.ph = p, !.before = before, !.after = after]
           BS == BlocksOf(live, loc)
<1>4. PICK b \in BS :
           /\ b.ptr = ptr /\ b.size = loc[c].size /\ b.cpu = c /\ Own(loc[c], c) = {b} /\ b \notin live
           /\ b.ptr \in Int /\ b.size \in Nat \ {0}
  BY <1>1, OwnBytes
<1>5. PICK d \in CPU : p \in P[d]
  <2>1. \A e \in CPU : P[e] = Nodes(mem, pagehead[e])
    BY <1>1, ListsAre
  <2>2. p \in AllPages
    BY <1>3 DEF PagesHolding
  <2> QED
    BY <2>1, <2>2 DEF AllPages
<1>6. p < b.ptr /\ b.ptr < p + PageSize /\ mem[p].magic # 0 /\ p \in Granule
  BY <1>1, <1>3, <1>4 DEF PagesHolding, SlotLeft
<1>7. d = c /\ b.size = mem[p].size /\ b.size \in SmallSize /\ PageAt(p) /\ \E F : FreePage(mem, p, F, In(BS, p), b)
  BY <1>1, <1>4, <1>5, <1>6, FreedPage
<1>8. PICK F : FreePage(mem, p, F, In(BS, p), b)
  BY <1>7
<1>9. k \in Memory /\ \A g \in Granule : (g < b.ptr \/ b.ptr + b.size <= g) => k[g] = mem[g]
  <2>1. ptr \in Int /\ mem[p].size \in Int
    BY <1>4, <1>7
  <2> QED
    BY <2>1, <1>1, <1>4, <1>7, MemsetCells
<1>10. Outside(mem, k, b.ptr, b.size)
  BY <1>9 DEF Outside
<1>11. FreePage(k, p, F, In(BS, p), b) /\ F = Nodes(k, FreeHead(k, p)) /\ F \subseteq Granule
  BY <1>7, <1>8, <1>9, <1>10, FreedCleared
<1>12. Free(p) = F
  BY <1>11
<1>13. before \in Int /\ after \in Int /\ p \in Int
  BY <1>3, <1>6, GranuleInt
<1>14. l \in Locals /\ l.ptr = ptr /\ l.size = loc[c].size /\ l.ph = p /\ l.before = before /\ l.after = after
  BY <1>1, <1>13 DEF Locals
<1>15. mem' = k /\ loc' = [loc EXCEPT ![c] = l] /\ Highest(before, {f \in F : f < ptr}) /\ Lowest(after, {f \in F : f > ptr})
  BY <1>3, <1>12 DEF Scanned
<1> HIDE DEF l, k
<1>16. Own(l, c) = {b}
  BY <1>4, <1>14 DEF Own
<1>17. Linking(k, l, c, F, BS)
  BY <1>11, <1>14, <1>15, <1>16 DEF Linking
<1>18. Proc(k, "free_link", l, c, pagehead[c], P[c], BS, live)
  <2>1. Shape("free_link", l, pagehead[c])
    BY <1>1, <1>4, <1>7, <1>14 DEF Shape
  <2>2. OnPage(k, "free_link", l, c, P[c], BS)
    BY <1>5, <1>7, <1>14, <1>17 DEF OnPage
  <2> QED
    BY <2>1, <2>2, <1>16, <1>4 DEF Proc, Zeroed
<1>19. Bodied(mem, k, pagehead, pc, loc, live, live, P, c, "free_link", l, b)
  <2>1. FreshAt("free_link", l) = FreshAt(pc[c], loc[c])
    BY <1>1 DEF FreshAt
  <2>2. Intact(k, live \ live)
    BY DEF Intact
  <2> QED
    BY <2>1, <2>2, <1>4, <1>9, <1>10, <1>16, <1>18 DEF Bodied
<1>20. "free_link" \in PC
  BY DEF PC
<1>21. All(k, head, pagehead, pc', loc', live, H, P) /\ NodesKept(mem, k, H)
  BY ONLY <1>19, <1>20, <1>1, <1>14, <1>15, c \in CPU, BodyStep
<1> QED
  BY <1>1, <1>15, <1>21 DEF Now

-----------------------------------------------------------------------------
(* Steps that change a page of the processor *)

\* In k the block x has left the free slots of the page at p of processor c.
Gained(m, k, ph, ps, lc, lv, P, c, label, l, p, x) ==
  LET B == In(BlocksOf(lv, lc), p)
  IN  /\ p \in P[c] /\ Own(lc[c], c) = {} /\ Own(l, c) = {x} /\ x.size \in SmallSize
      /\ p < x.ptr /\ x.ptr < p + PageSize /\ x \notin lv
      /\ PageOK(k, p, B \cup {x}) /\ Within(m, k, p, B) /\ FreshAt(label, l) = FreshAt(ps[c], lc[c])
      /\ label \in {"zero", "ret"} /\ Shape(label, l, ph[c]) /\ Zeroed(k, label, l)

\* Such a step preserves the invariant.
LEMMA GainStep ==
  ASSUME NEW m, NEW h, NEW ph, NEW ps, NEW lc, NEW lv, NEW H, NEW P, All(m, h, ph, ps, lc, lv, H, P),
         NEW c \in CPU, NEW label \in PC, NEW l \in Locals, NEW k,
         NEW ps2, ps2 = [ps EXCEPT ![c] = label], NEW lc2, lc2 = [lc EXCEPT ![c] = l],
         NEW p, NEW x, Gained(m, k, ph, ps, lc, lv, P, c, label, l, p, x)
  PROVE  All(k, h, ph, ps2, lc2, lv, H, P) /\ NodesKept(m, k, H)
<1> USE DEF Gained
<1> DEFINE BS == BlocksOf(lv, lc)
           B2 == BlocksOf(lv, lc2)
           f2 == FreshOf(ps2, lc2)
<1>1. ps \in [CPU -> PC] /\ lc \in [CPU -> Locals] /\ World(m, h, ph, FreshOf(ps, lc), BS, H, P)
  BY DEF All
<1>2. B2 = BS \cup {x}
  <2>1. SplitBy(BlocksOf(lv, lc), lv, Own(lc[c], c), lc, c)
    BY BlocksSplit
  <2>2. SplitBy(BlocksOf(lv, lc2), lv, Own(l, c), lc, c)
    BY <1>1, BlocksStep
  <2> QED
    BY <2>1, <2>2 DEF SplitBy
<1>3. f2 = FreshOf(ps, lc)
  <2>1. FreshOf(ps, lc)[c] = FreshAt(ps[c], lc[c])
    BY DEF FreshOf
  <2>2. FreshIs(FreshOf(ps, lc), FreshOf(ps2, lc2), c, FreshAt(label, l))
    BY <1>1, FreshStep
  <2> QED
    BY <2>1, <2>2 DEF FreshIs
<1>4. x \in Block /\ x.cpu = c /\ x.size \in SizeClass /\ ~IsHuge(x)
  <2>1. x \in Own(l, c)
    OBVIOUS
  <2>2. x = [ptr |-> l.ptr, size |-> l.size, cpu |-> c]
    BY <2>1 DEF Own
  <2>3. l.ptr \in Int /\ l.size \in Int
    BY LocalTypes
  <2>4. x.size \in Nat \ {0} /\ MaxSmall \in Nat /\ x.size <= MaxSmall
    BY SmallFacts, ClassFacts DEF SmallSize
  <2> QED
    BY <2>2, <2>3, <2>4 DEF Block, IsHuge, SmallSize
<1>5. In(B2, p) = In(BS, p) \cup {x} /\ In(BS, p) \cap In(B2, p) = In(BS, p) /\ BS \cap B2 = BS
  BY <1>2, <1>4 DEF In
<1>6. Edits(BS, B2, p, c)
  BY <1>1, <1>2, <1>4 DEF Edits, Huge, World, BlockInv
<1>7. PageOK(k, p, In(B2, p)) /\ Within(m, k, p, In(BS, p) \cap In(B2, p)) /\ p \in P[c]
  BY <1>5
<1> HIDE DEF Gained, B2, BS
<1>8. /\ World(k, h, ph, FreshOf(ps, lc), B2, H, P) /\ Kept(m, k, BS \cap B2) /\ Others(m, k, P, BS, B2, c)
      /\ NodesKept(m, k, H)
  BY ONLY <1>1, <1>6, <1>7, c \in CPU, PageWorld
<1>9. Apart2(m, k, ph, ph, lc, P, P, BS, B2, c)
  BY <1>8 DEF Apart2, Kept
<1>10. Intact(k, lv \ lv) /\ \A b \in lv \ lv : b.cpu = c
  BY DEF Intact
<1>11. Proc(k, label, l, c, ph[c], P[c], B2, lv)
  BY DEF Proc, OnPage, Gained
<1>12. Stepped(m, k, h, ph, ph, ps2, lc, lc2, lv, lv, H, P, P, c, label, l)
  BY <1>3, <1>8, <1>9, <1>10, <1>11 DEF Stepped, B2, BS
<1> QED
  BY <1>8, <1>12, Step

\* In k the block b of processor c is free again in the page at p.
Lost(m, k, ps, lc, lv, P, c, p, b) ==
  LET B == In(BlocksOf(lv, lc), p)
  IN  /\ p \in P[c] /\ Own(lc[c], c) = {b} /\ b \in B /\ b \notin lv
      /\ Freed(m, k, p, B, b) /\ FreshAt(ps[c], lc[c]) = NULL

\* Such a step preserves the invariant.
LEMMA LoseStep ==
  ASSUME NEW m, NEW h, NEW ph, NEW ps, NEW lc, NEW lv, NEW H, NEW P, All(m, h, ph, ps, lc, lv, H, P),
         NEW c \in CPU, NEW k,
         NEW ps2, ps2 = [ps EXCEPT ![c] = "idle"], NEW lc2, lc2 = [lc EXCEPT ![c] = NoLocals],
         NEW p, NEW b, Lost(m, k, ps, lc, lv, P, c, p, b)
  PROVE  All(k, h, ph, ps2, lc2, lv, H, P) /\ NodesKept(m, k, H)
<1> USE DEF Lost
<1> DEFINE BS == BlocksOf(lv, lc)
           B2 == BlocksOf(lv, lc2)
           f2 == FreshOf(ps2, lc2)
<1>1. ps \in [CPU -> PC] /\ lc \in [CPU -> Locals] /\ World(m, h, ph, FreshOf(ps, lc), BS, H, P)
  BY DEF All
<1>2. NoLocals \in Locals /\ Own(NoLocals, c) = {} /\ FreshAt("idle", NoLocals) = NULL /\ "idle" \in PC
  <2>1. NoLocals \in Locals /\ NoLocals.ptr = NULL
    BY GranuleInt DEF Locals, NoLocals
  <2> QED
    BY <2>1 DEF Own, FreshAt, PC
<1>3. b.cpu = c
  <2>1. b \in Own(lc[c], c)
    OBVIOUS
  <2> QED
    BY <2>1, OwnFacts
<1>4. B2 = BS \ {b}
  <2>1. SplitBy(BlocksOf(lv, lc), lv, Own(lc[c], c), lc, c)
    BY BlocksSplit
  <2>2. SplitBy(BlocksOf(lv, lc2), lv, Own(NoLocals, c), lc, c)
    BY <1>1, BlocksStep
  <2> QED
    BY <2>1, <2>2, <1>2, <1>3 DEF SplitBy
<1>5. f2 = FreshOf(ps, lc)
  <2>1. FreshOf(ps, lc)[c] = FreshAt(ps[c], lc[c])
    BY DEF FreshOf
  <2>2. FreshIs(FreshOf(ps, lc), FreshOf(ps2, lc2), c, FreshAt("idle", NoLocals))
    BY <1>1, FreshStep
  <2> QED
    BY <2>1, <2>2, <1>2 DEF FreshIs
<1>6. b \in BS /\ ~IsHuge(b) /\ p < b.ptr /\ b.ptr < p + PageSize
  BY DEF In
<1>7. In(B2, p) = In(BS, p) \ {b} /\ In(BS, p) \cap In(B2, p) = In(BS, p) \ {b} /\ BS \cap B2 = BS \ {b}
  BY <1>4 DEF In
<1>8. Edits(BS, B2, p, c)
  BY <1>1, <1>3, <1>4, <1>6 DEF Edits, Huge, World, BlockInv
<1>9. PageOK(k, p, In(B2, p)) /\ Within(m, k, p, In(BS, p) \cap In(B2, p)) /\ p \in P[c]
  BY <1>7 DEF Freed
<1> HIDE DEF Lost, B2, BS
<1>10. /\ World(k, h, ph, FreshOf(ps, lc), B2, H, P) /\ Kept(m, k, BS \cap B2) /\ Others(m, k, P, BS, B2, c)
       /\ NodesKept(m, k, H)
  BY ONLY <1>1, <1>8, <1>9, c \in CPU, PageWorld
<1>11. Apart2(m, k, ph, ph, lc, P, P, BS, B2, c)
  BY <1>10 DEF Apart2, Kept
<1>12. Intact(k, lv \ lv) /\ \A x \in lv \ lv : x.cpu = c
  BY DEF Intact
<1>13. Proc(k, "idle", NoLocals, c, ph[c], P[c], B2, lv)
  <2>1. NoLocals.ptr = NULL
    BY DEF NoLocals
  <2> QED
    BY <2>1, <1>2 DEF Proc, OnPage, Shape, Zeroed
<1>14. Stepped(m, k, h, ph, ph, ps2, lc, lc2, lv, lv, H, P, P, c, "idle", NoLocals)
  BY <1>5, <1>10, <1>11, <1>12, <1>13 DEF Stepped, B2, BS
<1> QED
  BY <1>2, <1>10, <1>14, Step

\* The page at p the fast path has found, and the block x it is about to take.
FastTakes(P, c, p, s, x) ==
  LET B == In(BlocksOf(live, loc), p)
      fd == FreeHead(mem, p)
      k == TakeSlot(mem, p, fd, s)
  IN  /\ p \in P[c] /\ s \in SmallSize /\ mem[p].size = s /\ fd = p + mem[p].magic * s
      /\ fd \in Granule /\ mem[fd].size >= s /\ TakeSlotAsserts(mem, p, fd, s)
      /\ p < fd /\ fd < p + PageSize /\ x \notin live /\ fd # NULL /\ fd \in Int
      /\ PageOK(k, p, B \cup {x}) /\ Within(mem, k, p, B)

\* The page has a free block, and none of the assertions of the fast path fails.
LEMMA FastPage ==
  ASSUME NEW H, NEW P, Now(H, P), NEW c \in CPU, pc[c] = "fast",
         NEW p, p = loc[c].ph, NEW s, s = loc[c].size, NEW x, x = [ptr |-> FreeHead(mem, p), size |-> s, cpu |-> c]
  PROVE  FastTakes(P, c, p, s, x)
<1> DEFINE BS == BlocksOf(live, loc)
           B == In(BS, p)
           fd == FreeHead(mem, p)
           k == TakeSlot(mem, p, fd, s)
<1>1. /\ World(mem, head, pagehead, FreshOf(pc, loc), BS, H, P) /\ s \in SmallSize
      /\ p \in P[c] /\ mem[p].size = s /\ mem[p].magic > 0
  BY ProcFacts DEF Shape, OnPage
<1>2. PageOK(mem, p, B) /\ mem \in Memory /\ PageAt(p)
  BY <1>1 DEF World, FillInv, Pages, PageInv
<1>3. s # 0 /\ s \in Nat /\ mem[p].magic # 0
  BY <1>1, SmallFacts
<1>4. x.ptr = FreeHead(mem, p) /\ x.size = mem[p].size
  BY <1>1
<1>5. /\ fd \in Granule /\ mem[fd].size >= mem[p].size /\ TakeSlotAsserts(mem, p, fd, mem[p].size)
      /\ Slot(p, mem[p].size, fd) /\ fd \notin Ptrs(B)
      /\ PageOK(TakeSlot(mem, p, fd, mem[p].size), p, B \cup {x}) /\ Within(mem, TakeSlot(mem, p, fd, mem[p].size), p, B)
  BY ONLY <1>1, <1>2, <1>3, <1>4, TakeSlotOK DEF fd
<1>6. p < fd /\ fd < p + PageSize /\ fd \in Int /\ fd # NULL
  <2>1. p \in Int /\ p > 0
    BY <1>2, PageFacts
  <2> QED
    BY <2>1, <1>5 DEF Slot, NULL
<1>7. x \notin live
  <2>1. ASSUME x \in live PROVE FALSE
    <3>1. x \in BS /\ ~IsHuge(x)
      BY <2>1, <1>1, SmallFacts, ClassFacts DEF BlocksOf, IsHuge, SmallSize
    <3>2. x \in B
      BY <3>1, <1>4, <1>6 DEF In
    <3> QED
      BY <3>2, <1>4, <1>5 DEF Ptrs
  <2> QED
    BY <2>1
<1>8. fd = p + mem[p].magic * s
  BY <1>1 DEF FreeHead
<1> QED
  BY <1>1, <1>5, <1>6, <1>7, <1>8 DEF FastTakes

\* The fast path takes a block.
LEMMA FastPathStep ==
  ASSUME NEW H, NEW P, Now(H, P), NEW c \in CPU, FastPath(c)
  PROVE  Now(H, P)' /\ NodesKept(mem, mem', H)
<1>1. pc[c] = "fast" /\ pc' = [pc EXCEPT ![c] = "zero"] /\ UNCHANGED <<head, pagehead, live>>
  BY DEF FastPath, At, Goto
<1>2. /\ All(mem, head, pagehead, pc, loc, live, H, P) /\ loc[c] \in Locals /\ mem \in Memory /\ loc[c].ptr = NULL
  BY <1>1, ProcFacts DEF Now, World, Shape
<1>3. ASSUME NEW p, p = loc[c].ph, NEW s, s = loc[c].size,
             NEW x, x = [ptr |-> FreeHead(mem, p), size |-> s, cpu |-> c]
      PROVE  Now(H, P)' /\ NodesKept(mem, mem', H)
  <2> DEFINE B == In(BlocksOf(live, loc), p)
             fd == FreeHead(mem, p)
             k == TakeSlot(mem, p, fd, s)
             l == [loc[c] EXCEPT !.ptr = fd, !.ph = NULL]
  <2>1. /\ p \in P[c] /\ s \in SmallSize /\ fd = p + mem[p].magic * s
        /\ p < fd /\ fd < p + PageSize /\ x \notin live /\ fd # NULL /\ fd \in Int
        /\ PageOK(k, p, B \cup {x}) /\ Within(mem, k, p, B)
    BY <1>1, <1>3, FastPage DEF FastTakes
  <2>2. mem' = k /\ loc' = [loc EXCEPT ![c] = l]
    <3>1. \E f \in Granule \cap {loc[c].ph + mem[loc[c].ph].magic * loc[c].size} :
             /\ mem' = TakeSlot(mem, loc[c].ph, f, loc[c].size)
             /\ loc' = [loc EXCEPT ![c] = [loc[c] EXCEPT !.ptr = f, !.ph = NULL]]
      BY Zenon DEF FastPath, SetLocals
    <3> QED
      BY <3>1, <2>1, <1>3
  <2>3. l \in Locals /\ l.ptr = fd /\ l.size = s
    BY <1>2, <1>3, <2>1, GranuleInt DEF Locals
  <2> HIDE DEF l
  <2>4. Own(l, c) = {x} /\ Own(loc[c], c) = {} /\ x.size = s /\ x.ptr = fd
    BY <1>2, <1>3, <2>1, <2>3 DEF Own
  <2>5. FreshAt("zero", l) = FreshAt(pc[c], loc[c]) /\ Shape("zero", l, pagehead[c]) /\ Zeroed(k, "zero", l) /\ "zero" \in PC
    BY <1>1, <2>1, <2>3 DEF FreshAt, Shape, Zeroed, PC
  <2>6. Gained(mem, k, pagehead, pc, loc, live, P, c, "zero", l, p, x)
    BY <2>1, <2>4, <2>5 DEF Gained
  <2>7. All(k, head, pagehead, pc', loc', live, H, P) /\ NodesKept(mem, k, H)
    BY ONLY <2>2, <2>3, <2>5, <2>6, <1>1, <1>2, c \in CPU, GainStep
  <2> QED
    BY <1>1, <2>2, <2>7 DEF Now
<1> QED
  BY <1>3

\* Its assertions do not fail.
LEMMA NoFastPanic ==
  ASSUME NEW H, NEW P, Now(H, P), NEW c \in CPU, FastPanic(c)
  PROVE  FALSE
<1>1. pc[c] = "fast"
  BY DEF FastPanic, At
<1>2. ASSUME NEW p, p = loc[c].ph, NEW s, s = loc[c].size,
             NEW x, x = [ptr |-> FreeHead(mem, p), size |-> s, cpu |-> c]
      PROVE  FALSE
  <2> DEFINE fd == FreeHead(mem, p)
  <2>1. FastTakes(P, c, p, s, x)
    BY <1>1, <1>2, FastPage
  <2>2. /\ mem[p].size = s /\ fd = p + mem[p].magic * s /\ mem[fd].size >= s /\ TakeSlotAsserts(mem, p, fd, s)
    BY <1>2, <2>1 DEF FastTakes
  <2> QED
    BY <1>2, <2>2 DEF FastPanic, Holds
<1> QED
  BY <1>2

\* The slow path takes the first block of an empty page of the processor.
LEMMA ReusePageStep ==
  ASSUME NEW H, NEW P, Now(H, P), NEW c \in CPU, ReusePage(c)
  PROVE  Now(H, P)' /\ NodesKept(mem, mem', H)
<1> DEFINE BS == BlocksOf(live, loc)
           Sized(p) == [mem EXCEPT ![p].size = loc[c].size]
<1>1. pc[c] = "find" /\ pc' = [pc EXCEPT ![c] = "ret"] /\ UNCHANGED <<head, pagehead, live>>
  BY DEF ReusePage, At, Goto
<1>2. /\ All(mem, head, pagehead, pc, loc, live, H, P) /\ loc[c] \in Locals /\ mem \in Memory /\ loc[c].ptr = NULL
      /\ World(mem, head, pagehead, FreshOf(pc, loc), BS, H, P) /\ loc[c].size \in SmallSize
  BY <1>1, ProcFacts DEF Now, World, Shape
<1>3. PICK p \in Empty :
        /\ First(mem, pagehead[c], p, Empty)
        /\ mem' = CarvePage(Sized(p), p, loc[c].size)
        /\ loc' = [loc EXCEPT ![c] = [loc[c] EXCEPT !.ptr = SlowBlock(Sized(p), p, loc[c].size)]]
  BY Zenon DEF ReusePage, SetLocals
<1>4. p \in P[c] /\ mem[p].size = 0
  BY <1>2, <1>3, ListsAre DEF First, Empty
<1>5. PageAt(p) /\ PageOK(mem, p, In(BS, p)) /\ p \in Granule
  BY <1>2, <1>4, PageFacts DEF World, FillInv, PageInv, Pages
<1>6. mem[p].magic = 1 /\ In(BS, p) = {}
  <2>1. 0 \notin SmallSize
    BY SmallFacts
  <2> QED
    BY <2>1, <1>4, <1>5 DEF PageOK
<1>7. ASSUME NEW s, s = loc[c].size, NEW x, x = [ptr |-> p + s, size |-> s, cpu |-> c] PROVE Now(H, P)' /\ NodesKept(mem, mem', H)
  <2> DEFINE m == Sized(p)
             k == CarvePage(m, p, s)
             l == [loc[c] EXCEPT !.ptr = p + s]
  <2>1. s \in SmallSize /\ s \in Nat \ {0} /\ s \in Int /\ PageSize \in Nat /\ 4 * s <= PageSize
    BY <1>2, <1>7, SmallFacts
  <2>2. Resized(mem, m, p, s)
    BY <1>2, <1>5, <1>7, <2>1, SizeCells
  <2> HIDE DEF m
  <2>3. m \in Memory /\ m[p].size = s /\ m[p].magic = 1 /\ m[p].next = mem[p].next /\ \A g \in Granule \ {p} : m[g] = mem[g]
    BY <2>2, <1>6 DEF Resized
  <2>4. m[p].size \in SmallSize /\ x.ptr = p + m[p].size /\ x.size = m[p].size
    BY <2>1, <2>3, <1>7
  <2>5. /\ SlowBlock(m, p, m[p].size) = p + m[p].size /\ Slot(p, m[p].size, p + m[p].size)
        /\ PageOK(CarvePage(m, p, m[p].size), p, {x}) /\ Within(m, CarvePage(m, p, m[p].size), p, {})
        /\ \A g \in Run(p + m[p].size, m[p].size) : CarvePage(m, p, m[p].size)[g] = ZeroCell
    BY ONLY <1>5, <2>3, <2>4, CarveOK
  <2>6. /\ SlowBlock(m, p, s) = p + s /\ Slot(p, s, p + s) /\ PageOK(k, p, {x}) /\ Within(m, k, p, {})
        /\ \A g \in Run(p + s, s) : k[g] = ZeroCell
    BY <2>3, <2>5
  <2>7. mem' = k /\ loc' = [loc EXCEPT ![c] = l]
    BY <1>3, <1>7, <2>6 DEF m
  <2> HIDE DEF k
  <2>8. Within(mem, k, p, {})
    <3>1. \A g \in Granule : g < p \/ p + PageSize <= g => g # p
      <4>1. p \in Int
        BY <1>5, PageFacts
      <4> QED
        BY <4>1, <2>1, GranuleInt
    <3> QED
      BY <3>1, <2>3, <2>6 DEF Within
  <2>9. p \in Int /\ p > 0 /\ p + s \in Int /\ p + s # NULL
    <3>1. p \in Int /\ p > 0
      BY <1>5, PageFacts
    <3> QED
      BY <3>1, <2>1 DEF NULL
  <2>10. l \in Locals /\ l.ptr = p + s /\ l.size = s
    BY <1>2, <1>7, <2>9 DEF Locals
  <2> HIDE DEF l
  <2>11. Own(l, c) = {x} /\ Own(loc[c], c) = {} /\ x.size = s /\ x.ptr = p + s
    BY <1>2, <1>7, <2>9, <2>10 DEF Own
  <2>12. p < x.ptr /\ x.ptr < p + PageSize
    BY <2>6, <2>11 DEF Slot
  <2>13. x \notin live
    <3>1. ~IsHuge(x)
      BY <2>1, <2>11, ClassFacts DEF IsHuge, SmallSize
    <3> QED
      BY <3>1, <2>12, <1>6 DEF In, BlocksOf
  <2>14. FreshAt("ret", l) = FreshAt(pc[c], loc[c]) /\ Shape("ret", l, pagehead[c]) /\ Zeroed(k, "ret", l) /\ "ret" \in PC
    BY <1>1, <2>6, <2>10 DEF FreshAt, Shape, Zeroed, PC
  <2>15. Gained(mem, k, pagehead, pc, loc, live, P, c, "ret", l, p, x)
    BY <2>1, <2>6, <2>8, <2>11, <2>12, <2>13, <2>14, <1>4, <1>6 DEF Gained
  <2>16. All(k, head, pagehead, pc', loc', live, H, P) /\ NodesKept(mem, k, H)
    BY ONLY <2>7, <2>10, <2>14, <2>15, <1>1, <1>2, c \in CPU, GainStep
  <2> QED
    BY <1>1, <2>7, <2>16 DEF Now
<1> QED
  BY <1>7

\* The page and the neighbours of the block kfree is about to link.
LEMMA LinkPage ==
  ASSUME NEW H, NEW P, Now(H, P), NEW c \in CPU, pc[c] = "free_link", NEW l, l = loc[c]
  PROVE  \E F, b : /\ b.ptr = l.ptr /\ Own(l, c) = {b} /\ b \notin live /\ l.ph \in P[c]
                   /\ PageAt(l.ph) /\ FreePage(mem, l.ph, F, In(BlocksOf(live, loc), l.ph), b)
                   /\ l.before \in F \cup {NULL} /\ l.after \in F \cup {NULL}
<1> DEFINE BS == BlocksOf(live, loc)
<1>1. /\ World(mem, head, pagehead, FreshOf(pc, loc), BS, H, P) /\ l.ptr # NULL /\ l.ph \in P[c]
      /\ \E F : Linking(mem, l, c, F, BS)
  BY ProcFacts DEF Shape, OnPage
<1>2. PICK F : Linking(mem, l, c, F, BS)
  BY <1>1
<1>3. PICK b : b.ptr = l.ptr /\ Own(l, c) = {b} /\ b \notin live
  BY <1>1, OwnBlock
<1>4. FreePage(mem, l.ph, F, In(BS, l.ph), b) /\ PageAt(l.ph)
  BY <1>1, <1>2, <1>3 DEF Linking, World, PageInv, Pages
<1>5. l.before \in F \cup {NULL} /\ l.after \in F \cup {NULL}
  BY <1>2 DEF Linking, Highest, Lowest
<1> QED
  BY <1>1, <1>3, <1>4, <1>5

\* kfree links the block into the free list of its page.
LEMMA KfreeLinkStep ==
  ASSUME NEW H, NEW P, Now(H, P), NEW c \in CPU, KfreeLink(c)
  PROVE  Now(H, P)' /\ NodesKept(mem, mem', H)
<1>1. /\ pc[c] = "free_link" /\ pc' = [pc EXCEPT ![c] = "idle"] /\ UNCHANGED <<head, pagehead, live>>
      /\ loc' = [loc EXCEPT ![c] = NoLocals]
  BY DEF KfreeLink, At, Goto, SetLocals
<1>2. All(mem, head, pagehead, pc, loc, live, H, P)
  BY DEF Now
<1>3. ASSUME NEW l, l = loc[c], NEW p, p = l.ph, NEW ptr, ptr = l.ptr, NEW before, before = l.before, NEW after, after = l.after
      PROVE  Now(H, P)' /\ NodesKept(mem, mem', H)
  <2> DEFINE B == In(BlocksOf(live, loc), p)
             s == mem[p].size
  <2>1. PICK F, b : /\ b.ptr = ptr /\ Own(l, c) = {b} /\ b \notin live /\ p \in P[c]
                    /\ PageAt(p) /\ FreePage(mem, p, F, B, b)
                    /\ before \in F \cup {NULL} /\ after \in F \cup {NULL}
    BY <1>1, <1>3, LinkPage
  <2>2. s \in Nat \ {0} /\ ptr \in Int /\ ptr > 0 /\ p \in Int /\ p < ptr
    <3>1. mem[p].size \in Nat \ {0} /\ p \in Int /\ b.ptr \in Int /\ p < b.ptr
      <4>1. PageAt(p) /\ FreePage(mem, p, F, B, b)
        BY <2>1
      <4> HIDE DEF B
      <4> QED
        BY ONLY <4>1, FreedFacts
    <3>2. p > 0
      BY <2>1, PageFacts
    <3> QED
      BY <3>1, <3>2, <2>1
  <2>3. ptr + s = after => after \in F
    BY <2>1, <2>2 DEF NULL
  <2>4. Freed(mem, mem', p, B, b)
    <3>1. \/ JoinsBefore(mem, before, ptr) /\ mem' = MergeBefore(mem, p, ptr, before, after)
          \/ ptr + s = after /\ mem' = MergeAfter(mem, p, ptr, after)
          \/ mem' = PushFree(mem, p, ptr)
      BY <1>3 DEF KfreeLink
    <3>2. CASE JoinsBefore(mem, before, ptr) /\ mem' = MergeBefore(mem, p, ptr, before, after)
      <4>1. before \in F /\ before + mem[before].size = b.ptr
        BY <3>2, <2>1 DEF JoinsBefore
      <4>2. Freed(mem, MergeBefore(mem, p, b.ptr, before, after), p, B, b)
        BY <4>1, <2>1, <2>3, MergeBeforeOK
      <4> QED
        BY <3>2, <4>2, <2>1
    <3>3. CASE ptr + s = after /\ mem' = MergeAfter(mem, p, ptr, after)
      <4>1. Freed(mem, MergeAfter(mem, p, b.ptr, after), p, B, b)
        BY <3>3, <2>1, <2>3, MergeAfterOK
      <4> QED
        BY <3>3, <4>1, <2>1
    <3>4. CASE mem' = PushFree(mem, p, ptr)
      BY <3>4, <2>1, PushFreeOK
    <3> QED
      BY <3>1, <3>2, <3>3, <3>4
  <2>5. Lost(mem, mem', pc, loc, live, P, c, p, b)
    <3>1. FreshAt(pc[c], loc[c]) = NULL /\ b \in B
      BY <1>1, <2>1 DEF FreshAt, FreePage
    <3> QED
      BY <3>1, <2>1, <2>4, <1>3 DEF Lost
  <2>6. All(mem', head, pagehead, pc', loc', live, H, P) /\ NodesKept(mem, mem', H)
    BY ONLY <2>5, <1>1, <1>2, c \in CPU, LoseStep
  <2> QED
    BY <1>1, <2>6 DEF Now
<1> QED
  BY <1>3

\* Its division and its assertion do not fail.
LEMMA NoKfreePanic ==
  ASSUME NEW H, NEW P, Now(H, P), NEW c \in CPU, KfreePanic(c)
  PROVE  FALSE
<1>1. pc[c] = "free_link" /\ SlotAt(loc[c].ptr - loc[c].ph, mem[loc[c].ph].size) = 0
  BY DEF KfreePanic, At
<1>2. ASSUME NEW l, l = loc[c], NEW p, p = l.ph PROVE FALSE
  <2>1. PICK F, b : b.ptr = l.ptr /\ PageAt(p) /\ FreePage(mem, p, F, In(BlocksOf(live, loc), p), b)
    BY <1>1, <1>2, LinkPage
  <2>2. Fronted(mem, Front(mem, p, b.ptr, 0), p, F, b.ptr, 0)
    BY ONLY <2>1, 0 \in Int, FrontIs
  <2> QED
    BY <1>1, <1>2, <2>1, <2>2 DEF Fronted
<1> QED
  BY <1>2

-----------------------------------------------------------------------------
(* Steps that put a new page on the processor's list *)

\* In k the page at p has been formatted, and holds the block processor c returns, if any.
Added(m, k, ph, ps, lc, lv, c, label, l, p) ==
  /\ p = FreshAt(ps[c], lc[c]) /\ p # NULL /\ Own(lc[c], c) = {} /\ FreshAt(label, l) = NULL
  /\ k \in Memory /\ Outside(m, k, p, PageSize) /\ k[p].next = ph[c] /\ PageOK(k, p, Own(l, c))
  /\ \A x \in Own(l, c) : x.size \in SmallSize /\ p < x.ptr /\ x.ptr < p + PageSize
  /\ label \in {"search_lock", "ret"} /\ Shape(label, l, p) /\ Zeroed(k, label, l)

\* The page at p comes to those of processor c.
Gains(P, P2, c, p) == P2 = [P EXCEPT ![c] = @ \cup {p}]

\* Such a step preserves the invariant.
LEMMA AddStep ==
  ASSUME NEW m, NEW h, NEW ph, NEW ps, NEW lc, NEW lv, NEW H, NEW P, All(m, h, ph, ps, lc, lv, H, P),
         NEW c \in CPU, NEW label \in PC, NEW l \in Locals, NEW k,
         NEW ps2, ps2 = [ps EXCEPT ![c] = label], NEW lc2, lc2 = [lc EXCEPT ![c] = l],
         NEW p, Added(m, k, ph, ps, lc, lv, c, label, l, p), NEW ph2, ph2 = [ph EXCEPT ![c] = p],
         NEW P2, Gains(P, P2, c, p)
  PROVE  All(k, h, ph2, ps2, lc2, lv, H, P2) /\ NodesKept(m, k, H)
<1> USE DEF Added
<1> DEFINE BS == BlocksOf(lv, lc)
           B2 == BlocksOf(lv, lc2)
           fr == FreshOf(ps, lc)
           f2 == FreshOf(ps2, lc2)
<1>1. ps \in [CPU -> PC] /\ lc \in [CPU -> Locals] /\ World(m, h, ph, fr, BS, H, P)
  BY DEF All
<1>2. SplitBy(BS, lv, {}, lc, c) /\ SplitBy(B2, lv, Own(l, c), lc, c)
  <2>1. SplitBy(BlocksOf(lv, lc), lv, Own(lc[c], c), lc, c)
    BY BlocksSplit
  <2>2. SplitBy(BlocksOf(lv, lc2), lv, Own(l, c), lc, c)
    BY <1>1, BlocksStep
  <2> QED
    BY <2>1, <2>2
<1>3. fr[c] = p /\ f2 = [fr EXCEPT ![c] = NULL]
  <2>1. FreshOf(ps, lc)[c] = FreshAt(ps[c], lc[c])
    BY DEF FreshOf
  <2>2. FreshIs(FreshOf(ps, lc), FreshOf(ps2, lc2), c, FreshAt(label, l))
    BY <1>1, FreshStep
  <2> QED
    BY <2>1, <2>2 DEF FreshIs
<1> HIDE DEF fr, f2
<1>4. ASSUME NEW x \in Own(l, c) PROVE x \in Block /\ x.cpu = c /\ x.size \in SizeClass /\ ~IsHuge(x) /\ x \notin BS
  <2>1. x = [ptr |-> l.ptr, size |-> l.size, cpu |-> c]
    BY <1>4 DEF Own
  <2>2. l.ptr \in Int /\ l.size \in Int
    BY LocalTypes
  <2>3. x.size \in Nat \ {0} /\ MaxSmall \in Nat /\ x.size <= MaxSmall /\ x.size \in SizeClass
    BY <1>4, SmallFacts, ClassFacts DEF SmallSize
  <2>4. x \in Block /\ x.cpu = c /\ ~IsHuge(x) /\ x.ptr \in Int
    BY <2>1, <2>2, <2>3 DEF Block, IsHuge
  <2>5. x \notin BS
    <3>1. SUFFICES ASSUME x \in BS PROVE FALSE
      OBVIOUS
    <3>2. p \in Pages(P, fr, c) /\ p \notin P[c]
      BY <1>1, <1>3 DEF Pages, World, PageInv
    <3>3. Off(p, PageSize, x.ptr, x.size)
      BY ONLY <1>1, <3>1, <3>2, c \in CPU, PageOrOff
    <3>4. p \in Int /\ PageSize \in Int
      BY <1>1, <3>2, PageFacts, PageSizePos DEF World, PageInv
    <3> QED
      BY <1>4, <3>3, <3>4, <2>3, <2>4 DEF Off
  <2> QED
    BY <2>3, <2>4, <2>5
<1>5. B2 = BS \cup Own(l, c) /\ B2 \ BS = Own(l, c) /\ BS \subseteq B2 /\ BS \cap B2 = BS
  BY <1>2, <1>4 DEF SplitBy
<1>6. Edits(BS, B2, p, c)
  BY <1>1, <1>4, <1>5 DEF Edits, Huge, World, BlockInv
<1>7. p = fr[c] /\ p # NULL /\ k \in Memory /\ Outside(m, k, p, PageSize) /\ k[p].next = ph[c] /\ PageOK(k, p, B2 \ BS)
  BY <1>3, <1>5
<1> HIDE DEF Added, B2, BS
<1>8. /\ Formatted(m, k, ph, BS, B2, c, p) /\ p = fr[c] /\ P2 = [P EXCEPT ![c] = @ \cup {p}]
      /\ ph2 = [ph EXCEPT ![c] = p] /\ f2 = [fr EXCEPT ![c] = NULL]
  BY <1>3, <1>5, <1>6, <1>7 DEF Formatted, Gains
<1>10. ph2[c] = p /\ \A d \in CPU \ {c} : P2[d] = P[d] /\ ph2[d] = ph[d]
  BY <1>1 DEF World, PageInv, Gains
<1>9. /\ World(k, h, ph2, f2, B2, H, P2) /\ Kept(m, k, BS) /\ Others(m, k, P, BS, B2, c)
      /\ NodesKept(m, k, H)
  <2>1. NewPaged(m, k, h, ph2, f2, BS, B2, H, P, P2, c)
    BY ONLY <1>1, <1>8, c \in CPU, NewPageWorld
  <2> QED
    BY <2>1 DEF NewPaged
<1>11. Apart2(m, k, ph, ph2, lc, P, P2, BS, B2, c)
  BY <1>5, <1>9, <1>10 DEF Apart2, Kept
<1>12. Intact(k, lv \ lv) /\ \A b \in lv \ lv : b.cpu = c
  BY DEF Intact
<1>13. Own(l, c) \cap lv = {}
  BY <1>4 DEF BlocksOf, BS
<1>14. Proc(k, label, l, c, ph2[c], P2[c], B2, lv)
  BY <1>10, <1>13 DEF Proc, OnPage, Added
<1>15. Stepped(m, k, h, ph, ph2, ps2, lc, lc2, lv, lv, H, P, P2, c, label, l)
  BY <1>9, <1>11, <1>12, <1>14 DEF Stepped, B2, BS, f2
<1>16. All(k, h, ph2, ps2, lc2, lv, H, P2)
  BY <1>15, Step
<1> QED
  BY <1>9, <1>16

\* Processor c has put the page at p on its list.
Listed(H, P, P2, c, p) ==
  Gains(P, P2, c, p) /\ Now(H, P2)' /\ NodesKept(mem, mem', H)

\* The page allockpage has given to processor c.
LEMMA FreshPage ==
  ASSUME NEW H, NEW P, Now(H, P), NEW c \in CPU, pc[c] \in {"first_init", "new_init"}, NEW p, p = loc[c].ph, p # NULL
  PROVE  PageAt(p) /\ p = FreshAt(pc[c], loc[c]) /\ mem \in Memory
<1>1. World(mem, head, pagehead, FreshOf(pc, loc), BlocksOf(live, loc), H, P)
  BY ProcFacts
<1>2. p = FreshAt(pc[c], loc[c]) /\ p = FreshOf(pc, loc)[c]
  BY DEF FreshAt, FreshOf
<1>3. p \in Pages(P, FreshOf(pc, loc), c)
  BY <1>2 DEF Pages
<1> QED
  BY <1>1, <1>2, <1>3 DEF World, PageInv

\* The first page of a processor.
LEMMA FirstInitStep ==
  ASSUME NEW H, NEW P, Now(H, P), NEW c \in CPU, FirstInit(c)
  PROVE  \E P2 : Listed(H, P, P2, c, loc[c].ph)
<1>1. /\ pc[c] = "first_init" /\ pc' = [pc EXCEPT ![c] = "search_lock"] /\ UNCHANGED <<head, live>>
      /\ loc[c].ph # NULL /\ pagehead' = [pagehead EXCEPT ![c] = loc[c].ph]
      /\ mem' = FormatPage(mem, loc[c].ph, loc[c].size)
      /\ loc' = [loc EXCEPT ![c] = [loc[c] EXCEPT !.ph = NULL]]
  BY DEF FirstInit, At, Goto, SetLocals
<1>2. /\ All(mem, head, pagehead, pc, loc, live, H, P) /\ loc[c] \in Locals /\ loc[c].ptr = NULL
      /\ pagehead[c] = NULL /\ loc[c].size \in SmallSize
  BY <1>1, ProcFacts DEF Now, Shape
<1>3. ASSUME NEW p, p = loc[c].ph, NEW s, s = loc[c].size
      PROVE  \E P2 : Listed(H, P, P2, c, loc[c].ph)
  <2> DEFINE k == FormatPage(mem, p, s)
             l == [loc[c] EXCEPT !.ph = NULL]
  <2>1. PageAt(p) /\ p = FreshAt(pc[c], loc[c]) /\ p # NULL /\ mem \in Memory /\ s \in SmallSize
    BY <1>1, <1>2, <1>3, FreshPage
  <2>2. /\ k \in Memory /\ k[p].next = NULL /\ PageOK(k, p, {})
        /\ \A g \in Granule : (g < p \/ p + PageSize <= g) => k[g] = mem[g]
    BY <2>1, FormatOK
  <2>3. mem' = k /\ loc' = [loc EXCEPT ![c] = l] /\ pagehead' = [pagehead EXCEPT ![c] = p]
    BY <1>1, <1>3
  <2> HIDE DEF k
  <2>4. l \in Locals /\ l.ptr = NULL /\ l.size = s
    BY <1>2, <1>3, GranuleInt DEF Locals
  <2> HIDE DEF l
  <2>5. Own(l, c) = {} /\ Own(loc[c], c) = {} /\ FreshAt("search_lock", l) = NULL /\ "search_lock" \in PC
    BY <1>2, <2>4 DEF Own, FreshAt, PC
  <2>6. Shape("search_lock", l, p) /\ Zeroed(k, "search_lock", l)
    BY <2>1, <2>4 DEF Shape, Zeroed
  <2>7. Added(mem, k, pagehead, pc, loc, live, c, "search_lock", l, p)
    BY <1>2, <2>1, <2>2, <2>5, <2>6 DEF Added, Outside
  <2>8. ASSUME NEW P2, Gains(P, P2, c, p)
         PROVE  All(k, head, pagehead', pc', loc', live, H, P2) /\ NodesKept(mem, k, H)
    <3>1. /\ All(mem, head, pagehead, pc, loc, live, H, P) /\ "search_lock" \in PC /\ l \in Locals
          /\ pc' = [pc EXCEPT ![c] = "search_lock"] /\ loc' = [loc EXCEPT ![c] = l]
          /\ pagehead' = [pagehead EXCEPT ![c] = p] /\ Gains(P, P2, c, p)
      BY <2>3, <2>8, <2>4, <2>5, <1>1, <1>2
    <3> QED
      BY ONLY <3>1, <2>7, c \in CPU, AddStep
  <2>20. PICK P2 : Gains(P, P2, c, p)
    BY DEF Gains
  <2>21. Now(H, P2)' /\ NodesKept(mem, mem', H)
    BY <1>1, <2>3, <2>8, <2>20 DEF Now
  <2> QED
    BY <2>20, <2>21, <1>3 DEF Listed
<1> QED
  BY <1>3

\* A further page.
LEMMA InsertPageStep ==
  ASSUME NEW H, NEW P, Now(H, P), NEW c \in CPU, InsertPage(c)
  PROVE  \E P2 : Listed(H, P, P2, c, loc[c].ph)
<1> DEFINE Headed == [mem EXCEPT ![loc[c].ph] = [next |-> pagehead[c], size |-> loc[c].size, magic |-> 1]]
<1>1. /\ pc[c] = "new_init" /\ pc' = [pc EXCEPT ![c] = "ret"] /\ UNCHANGED <<head, live>>
      /\ loc[c].ph # NULL /\ pagehead' = [pagehead EXCEPT ![c] = loc[c].ph]
      /\ mem' = CarvePage(Headed, loc[c].ph, loc[c].size)
      /\ loc' = [loc EXCEPT ![c] = [loc[c] EXCEPT !.ptr = SlowBlock(Headed, loc[c].ph, loc[c].size), !.ph = NULL]]
  BY DEF InsertPage, At, Goto, SetLocals
<1>2. /\ All(mem, head, pagehead, pc, loc, live, H, P) /\ loc[c] \in Locals /\ loc[c].ptr = NULL
      /\ loc[c].size \in SmallSize /\ pagehead[c] \in Int
  BY <1>1, ProcFacts DEF Now, Shape, World, PageInv
<1>3. ASSUME NEW p, p = loc[c].ph, NEW s, s = loc[c].size,
             NEW x, x = [ptr |-> p + s, size |-> s, cpu |-> c]
      PROVE  \E P2 : Listed(H, P, P2, c, loc[c].ph)
  <2> DEFINE hdr == [next |-> pagehead[c], size |-> s, magic |-> 1]
             m == [mem EXCEPT ![p] = hdr]
             k == CarvePage(m, p, s)
             l == [loc[c] EXCEPT !.ptr = p + s, !.ph = NULL]
  <2>1. PageAt(p) /\ p = FreshAt(pc[c], loc[c]) /\ p # NULL /\ mem \in Memory /\ s \in SmallSize
    BY <1>1, <1>2, <1>3, FreshPage
  <2>2. s \in Nat \ {0} /\ PageSize \in Nat \ {0} /\ p \in Granule /\ p \in Int /\ p > 0
    BY <2>1, SmallFacts, PageSizePos, PageFacts
  <2>3. hdr \in Cell /\ hdr.next = pagehead[c] /\ hdr.size = s /\ hdr.magic = 1
    BY <1>2, <2>2 DEF Cell
  <2> HIDE DEF hdr
  <2>4. m \in Memory /\ m[p] = hdr /\ \A g \in Granule \ {p} : m[g] = mem[g]
    BY <2>1, <2>2, <2>3, NodeCells
  <2> HIDE DEF m
  <2>5. m[p].size = s /\ m[p].magic = 1 /\ m[p].next = pagehead[c]
    BY <2>3, <2>4
  <2>6. m[p].size \in SmallSize /\ x.ptr = p + m[p].size /\ x.size = m[p].size
    BY <2>1, <2>5, <1>3
  <2>7. /\ SlowBlock(m, p, m[p].size) = p + m[p].size /\ Slot(p, m[p].size, p + m[p].size)
        /\ PageOK(CarvePage(m, p, m[p].size), p, {x}) /\ Within(m, CarvePage(m, p, m[p].size), p, {})
        /\ \A g \in Run(p + m[p].size, m[p].size) : CarvePage(m, p, m[p].size)[g] = ZeroCell
    BY ONLY <2>1, <2>4, <2>5, <2>6, CarveOK, SMTT(30)
  <2>8. /\ SlowBlock(m, p, s) = p + s /\ Slot(p, s, p + s) /\ PageOK(k, p, {x}) /\ Within(m, k, p, {})
        /\ \A g \in Run(p + s, s) : k[g] = ZeroCell
    BY <2>5, <2>7
  <2>9. mem' = k /\ loc' = [loc EXCEPT ![c] = l] /\ pagehead' = [pagehead EXCEPT ![c] = p]
    BY <1>1, <1>3, <2>8 DEF m, hdr
  <2> HIDE DEF k
  <2>10. k \in Memory /\ k[p].next = pagehead[c] /\ Outside(mem, k, p, PageSize)
    <3>1. \A g \in Granule : g < p \/ p + PageSize <= g => g # p
      BY <2>2, GranuleInt
    <3> QED
      BY <3>1, <2>4, <2>5, <2>8 DEF Within, Outside
  <2>11. p + s \in Int /\ p + s # NULL
    BY <2>2 DEF NULL
  <2>12. l \in Locals /\ l.ptr = p + s /\ l.size = s
    BY <1>2, <1>3, <2>11, GranuleInt DEF Locals
  <2> HIDE DEF l
  <2>13. Own(l, c) = {x} /\ Own(loc[c], c) = {} /\ x.size = s /\ x.ptr = p + s
    BY <1>2, <1>3, <2>11, <2>12 DEF Own
  <2>14. p < x.ptr /\ x.ptr < p + PageSize
    BY <2>8, <2>13 DEF Slot
  <2>15. FreshAt("ret", l) = NULL /\ Shape("ret", l, p) /\ Zeroed(k, "ret", l) /\ "ret" \in PC
    BY <2>8, <2>12 DEF FreshAt, Shape, Zeroed, PC
  <2>16. Added(mem, k, pagehead, pc, loc, live, c, "ret", l, p)
    BY <2>1, <2>8, <2>10, <2>13, <2>14, <2>15 DEF Added
  <2>17. ASSUME NEW P2, Gains(P, P2, c, p)
         PROVE  All(k, head, pagehead', pc', loc', live, H, P2) /\ NodesKept(mem, k, H)
    <3>1. /\ All(mem, head, pagehead, pc, loc, live, H, P) /\ "ret" \in PC /\ l \in Locals
          /\ pc' = [pc EXCEPT ![c] = "ret"] /\ loc' = [loc EXCEPT ![c] = l]
          /\ pagehead' = [pagehead EXCEPT ![c] = p] /\ Gains(P, P2, c, p)
      BY <2>9, <2>17, <2>12, <2>15, <1>1, <1>2
    <3> QED
      BY ONLY <3>1, <2>16, c \in CPU, AddStep
  <2>20. PICK P2 : Gains(P, P2, c, p)
    BY DEF Gains
  <2>21. Now(H, P2)' /\ NodesKept(mem, mem', H)
    BY <1>1, <2>9, <2>17, <2>20 DEF Now
  <2> QED
    BY <2>20, <2>21, <1>3 DEF Listed
<1> QED
  BY <1>3

-----------------------------------------------------------------------------
(* Steps under heap_lock *)

\* A step that changes the heap list and at most one new page or huge block preserves the
\* invariant.
LEMMA HeapAll ==
  ASSUME NEW m, NEW h, NEW ph, NEW ps, NEW lc, NEW lv, NEW H, NEW P, All(m, h, ph, ps, lc, lv, H, P),
         NEW c \in CPU, NEW label \in PC, NEW l \in Locals, NEW k, NEW h2, NEW H2,
         NEW ps2, ps2 = [ps EXCEPT ![c] = label], NEW lc2, lc2 = [lc EXCEPT ![c] = l],
         Changed(m, k, h2, ph, FreshOf(ps2, lc2), BlocksOf(lv, lc), BlocksOf(lv, lc2), H2, P),
         Proc(k, label, l, c, ph[c], P[c], BlocksOf(lv, lc2), lv)
  PROVE  All(k, h2, ph, ps2, lc2, lv, H2, P)
<1> DEFINE BS == BlocksOf(lv, lc)
           B2 == BlocksOf(lv, lc2)
<1>1. /\ World(k, h2, ph, FreshOf(ps2, lc2), B2, H2, P)
      /\ Kept(m, k, BS \cap B2) /\ PagesKept(m, k, P) /\ \A q : In(B2, q) = In(BS, q)
  BY DEF Changed
<1> HIDE DEF BS, B2
<1>2. Apart2(m, k, ph, ph, lc, P, P, BS, B2, c)
  BY <1>1 DEF Apart2, Others, Kept, PagesKept
<1>3. Intact(k, lv \ lv) /\ \A b \in lv \ lv : b.cpu = c
  BY DEF Intact
<1>4. Stepped(m, k, h2, ph, ph, ps2, lc, lc2, lv, lv, H2, P, P, c, label, l)
  BY <1>1, <1>2, <1>3 DEF Stepped, BS, B2
<1> QED
  BY <1>4, Step

\* allockpage takes a page from the heap, or there is none.
LEMMA AllockpageStep ==
  ASSUME NEW H, NEW P, Now(H, P), NEW c \in CPU, Allockpage(c)
  PROVE  \E H2 : Now(H2, P)'
<1>1. PICK label : /\ pc[c] \in {"first_page", "new_page"} /\ label \in {"first_init", "new_init"}
                   /\ (label = "first_init" => pc[c] = "first_page")
                   /\ pc' = [pc EXCEPT ![c] = label] /\ UNCHANGED <<pagehead, live>>
  BY DEF Allockpage, At, Goto
<1>2. /\ All(mem, head, pagehead, pc, loc, live, H, P) /\ loc[c] \in Locals /\ loc[c].ptr = NULL
      /\ (pc[c] = "first_page" => pagehead[c] = NULL) /\ loc[c].size \in SmallSize
      /\ World(mem, head, pagehead, FreshOf(pc, loc), BlocksOf(live, loc), H, P)
      /\ FreshAt(pc[c], loc[c]) = NULL /\ FreshOf(pc, loc)[c] = NULL /\ pc \in [CPU -> PC] /\ loc \in [CPU -> Locals]
  BY <1>1, ProcFacts DEF Now, Shape, FreshAt, FreshOf
<1>3. ASSUME NEW n \in Int, NEW l, l = [loc[c] EXCEPT !.ph = n], loc' = [loc EXCEPT ![c] = l]
      PROVE  /\ l \in Locals /\ Own(l, c) = {} /\ Own(loc[c], c) = {} /\ l.ph = n /\ l.ptr = NULL
             /\ FreshAt(label, l) = n /\ label \in PC
             /\ \A k : Proc(k, label, l, c, pagehead[c], P[c], BlocksOf(live, loc), live)
             /\ BlocksOf(live, loc') = BlocksOf(live, loc) /\ FreshOf(pc', loc') = [FreshOf(pc, loc) EXCEPT ![c] = n]
  <2>1. l \in Locals /\ l.ph = n /\ l.ptr = NULL /\ l.size = loc[c].size
    BY <1>2, <1>3 DEF Locals
  <2>2. Own(l, c) = {} /\ Own(loc[c], c) = {} /\ FreshAt(label, l) = n /\ label \in PC
    BY <1>1, <1>2, <2>1 DEF Own, FreshAt, PC
  <2>3. Shape(label, l, pagehead[c])
    BY <1>1, <1>2, <2>1 DEF Shape
  <2>4. \A k : Proc(k, label, l, c, pagehead[c], P[c], BlocksOf(live, loc), live)
    BY <1>1, <2>2, <2>3 DEF Proc, OnPage, Zeroed
  <2>5. BlocksOf(live, loc') = BlocksOf(live, loc)
    <3>1. SplitBy(BlocksOf(live, loc), live, Own(loc[c], c), loc, c)
      BY BlocksSplit
    <3>2. SplitBy(BlocksOf(live, loc'), live, Own(l, c), loc, c)
      BY <1>2, <1>3, BlocksStep
    <3> QED
      BY <3>1, <3>2, <2>2 DEF SplitBy
  <2>6. FreshIs(FreshOf(pc, loc), FreshOf(pc', loc'), c, FreshAt(label, l))
    BY <1>1, <1>2, <1>3, FreshStep
  <2> QED
    BY <2>1, <2>2, <2>4, <2>5, <2>6 DEF FreshIs
<1>4. CASE \E n \in PageFits(mem) :
             /\ First(mem, head, n, PageFits(mem)) /\ mem' = TakePage(mem, head, n)
             /\ head' = HeadAfterTakePage(mem, head, n) /\ loc' = [loc EXCEPT ![c] = [loc[c] EXCEPT !.ph = n]]
  <2>1. PICK n \in PageFits(mem) :
             /\ First(mem, head, n, PageFits(mem)) /\ mem' = TakePage(mem, head, n)
             /\ head' = HeadAfterTakePage(mem, head, n) /\ loc' = [loc EXCEPT ![c] = [loc[c] EXCEPT !.ph = n]]
    BY <1>4
  <2>2. n \in H /\ mem[n].size >= PageSize /\ n \in Int
    BY <1>2, <2>1, ListsAre, GranuleInt DEF First, PageFits
  <2>3. PICK l : l = [loc[c] EXCEPT !.ph = n]
    OBVIOUS
  <2>4. loc' = [loc EXCEPT ![c] = l]
    BY <2>1, <2>3
  <2>5. /\ l \in Locals /\ label \in PC
        /\ Proc(mem', label, l, c, pagehead[c], P[c], BlocksOf(live, loc'), live)
        /\ BlocksOf(live, loc') = BlocksOf(live, loc) /\ FreshOf(pc', loc') = [FreshOf(pc, loc) EXCEPT ![c] = n]
    BY <1>3, <2>2, <2>3, <2>4
  <2>6. PICK H2 : /\ World(mem', head', pagehead, [FreshOf(pc, loc) EXCEPT ![c] = n], BlocksOf(live, loc), H2, P)
                  /\ Kept(mem, mem', BlocksOf(live, loc)) /\ PagesKept(mem, mem', P)
    BY <1>2, <2>1, <2>2, TakePageWorld
  <2>7. Changed(mem, mem', head', pagehead, FreshOf(pc', loc'), BlocksOf(live, loc), BlocksOf(live, loc'), H2, P)
    BY <2>5, <2>6 DEF Changed
  <2>8. All(mem', head', pagehead, pc', loc', live, H2, P)
    BY ONLY <2>4, <2>5, <2>7, <1>1, <1>2, c \in CPU, HeapAll
  <2> QED
    BY <1>1, <2>8 DEF Now
<1>5. CASE loc' = [loc EXCEPT ![c] = [loc[c] EXCEPT !.ph = NULL]] /\ UNCHANGED <<mem, head>>
  <2>1. PICK l : l = [loc[c] EXCEPT !.ph = NULL]
    OBVIOUS
  <2>2. loc' = [loc EXCEPT ![c] = l] /\ NULL \in Int
    BY <1>5, <2>1, GranuleInt
  <2>3. /\ l \in Locals /\ label \in PC \ {"fast", "free_link"} /\ Shape(label, l, pagehead[c])
        /\ FreshAt(label, l) = FreshAt(pc[c], loc[c]) /\ Own(l, c) = Own(loc[c], c) /\ (label = "ret" => l.ptr = NULL)
    BY <1>1, <1>2, <1>3, <2>1, <2>2 DEF Proc, PC
  <2>4. All(mem, head, pagehead, pc', loc', live, H, P)
    BY ONLY <2>2, <2>3, <1>1, <1>2, c \in CPU, Move
  <2> QED
    BY <1>1, <1>5, <2>4 DEF Now
<1> QED
  BY <1>4, <1>5 DEF Allockpage, SetLocals

\* kallocHugeMemory takes a block from the heap, or there is none.
LEMMA KallocHugeStep ==
  ASSUME NEW H, NEW P, Now(H, P), NEW c \in CPU, HeaderFits, KallocHugeMemory(c)
  PROVE  Now(H, P)'
<1> DEFINE fitting == Nodes(mem, head) \cap HugeFits(mem, loc[c].size)
           BS == BlocksOf(live, loc)
<1>1. pc[c] = "huge" /\ pc' = [pc EXCEPT ![c] = "ret"] /\ UNCHANGED <<head, pagehead, live>>
  BY DEF KallocHugeMemory, At, Goto
<1>2. /\ All(mem, head, pagehead, pc, loc, live, H, P) /\ loc[c] \in Locals /\ loc[c].ptr = NULL
      /\ loc[c].size \in SizeClass /\ loc[c].size > MaxSmall
      /\ World(mem, head, pagehead, FreshOf(pc, loc), BS, H, P)
      /\ FreshAt(pc[c], loc[c]) = NULL /\ FreshOf(pc, loc)[c] = NULL /\ pc \in [CPU -> PC] /\ loc \in [CPU -> Locals]
  BY <1>1, ProcFacts DEF Now, Shape, FreshAt, FreshOf
<1>3. CASE \E n \in fitting :
             /\ Highest(n, fitting) /\ mem' = TakeHuge(mem, n, loc[c].size)
             /\ loc' = [loc EXCEPT ![c] = [loc[c] EXCEPT !.ptr = HugeBlock(mem, n, loc[c].size)]]
  <2>1. PICK n \in fitting :
             /\ Highest(n, fitting) /\ mem' = TakeHuge(mem, n, loc[c].size)
             /\ loc' = [loc EXCEPT ![c] = [loc[c] EXCEPT !.ptr = HugeBlock(mem, n, loc[c].size)]]
    BY <1>3
  <2>2. n \in H /\ mem[n].size > loc[c].size + 1
    BY <1>1, <1>2, <2>1, ListsAre DEF HeaderFits
  <2>3. ASSUME NEW s, s = loc[c].size, NEW x, x = [ptr |-> HugeBlock(mem, n, s), size |-> s, cpu |-> c]
        PROVE  Now(H, P)'
    <3> DEFINE l == [loc[c] EXCEPT !.ptr = HugeBlock(mem, n, s)]
    <3>1. s \in SizeClass /\ s > MaxSmall /\ mem[n].size > s + 1 /\ mem' = TakeHuge(mem, n, s) /\ loc' = [loc EXCEPT ![c] = l]
      BY <1>2, <2>1, <2>2, <2>3
    <3>2. /\ World(TakeHuge(mem, n, s), head, pagehead, FreshOf(pc, loc), BS \cup {x}, H, P) /\ x \notin BS
          /\ Kept(mem, TakeHuge(mem, n, s), BS) /\ PagesKept(mem, TakeHuge(mem, n, s), P)
          /\ \A q : In(BS \cup {x}, q) = In(BS, q)
      BY ONLY <1>2, <2>2, <2>3, <3>1, c \in CPU, TakeHugeWorld, SMTT(30)
    <3>3. HugeBlock(mem, n, s) \in Int /\ HugeBlock(mem, n, s) # NULL
      <4>1. x \in BS \cup {x} /\ x.ptr = HugeBlock(mem, n, s)
        BY <2>3
      <4>2. x.ptr \in Int /\ HeapStart < x.ptr
        BY ONLY <3>2, <4>1, BlockFacts
      <4> QED
        BY <4>1, <4>2, HeapAssumption DEF NULL
    <3>4. l \in Locals /\ l.ptr = HugeBlock(mem, n, s) /\ l.size = s
      BY <1>2, <2>3, <3>3 DEF Locals
    <3> HIDE DEF l
    <3>5. Own(l, c) = {x} /\ Own(loc[c], c) = {} /\ FreshAt("ret", l) = NULL /\ "ret" \in PC
      BY <1>2, <2>3, <3>3, <3>4 DEF Own, FreshAt, PC
    <3>6. x \notin live
      BY <3>2 DEF BlocksOf
    <3>7. Proc(mem', "ret", l, c, pagehead[c], P[c], BlocksOf(live, loc'), live)
      <4>1. s \in Int /\ MaxSmall \in Int
        BY <3>1, ClassFacts
      <4>2. Zeroed(mem', "ret", l)
        BY <4>1, <3>1, <3>4 DEF Zeroed
      <4> QED
        BY <4>2, <3>5, <3>6 DEF Proc, Shape, OnPage
    <3>8. BlocksOf(live, loc') = BS \cup {x}
      <4>1. SplitBy(BlocksOf(live, loc), live, Own(loc[c], c), loc, c)
        BY BlocksSplit
      <4>2. SplitBy(BlocksOf(live, loc'), live, Own(l, c), loc, c)
        BY <1>2, <3>1, BlocksStep
      <4> QED
        BY <4>1, <4>2, <3>5 DEF SplitBy
    <3>9. FreshOf(pc', loc') = FreshOf(pc, loc)
      <4>1. FreshIs(FreshOf(pc, loc), FreshOf(pc', loc'), c, FreshAt("ret", l))
        BY <1>1, <1>2, <3>1, FreshStep
      <4> QED
        BY <4>1, <3>5, <1>2 DEF FreshIs
    <3>10. Changed(mem, mem', head, pagehead, FreshOf(pc', loc'), BlocksOf(live, loc), BlocksOf(live, loc'), H, P)
      BY <3>1, <3>2, <3>8, <3>9 DEF Changed, Kept
    <3>11. All(mem', head, pagehead, pc', loc', live, H, P)
      BY ONLY <3>1, <3>4, <3>5, <3>7, <3>10, <1>1, <1>2, c \in CPU, HeapAll
    <3> QED
      BY <1>1, <3>11 DEF Now
  <2> QED
    BY <2>3
<1>4. CASE UNCHANGED <<mem, loc>>
  <2>1. /\ "ret" \in PC \ {"fast", "free_link"} /\ Shape("ret", loc[c], pagehead[c])
        /\ FreshAt("ret", loc[c]) = FreshAt(pc[c], loc[c])
    BY <1>2 DEF PC, Shape, FreshAt
  <2>2. Now(H, P)'
    BY <1>1, <1>2, <1>4, <2>1, LabelStep
  <2> QED
    BY <2>2
<1> QED
  BY <1>3, <1>4 DEF KallocHugeMemory, SetLocals

\* kfree gives a huge block back to the heap.
LEMMA KfreeHugeStep ==
  ASSUME NEW H, NEW P, Now(H, P), NEW c \in CPU, KfreeHuge(c)
  PROVE  \E H2 : Now(H2, P)'
<1> DEFINE BS == BlocksOf(live, loc)
           Cleared(hd) == memset0(mem, hd, mem[hd].size + 1)
           Heap(hd) == Nodes(Cleared(hd), head) \cap Granule
           Linked(hd, before, after) ==
             /\ Highest(before, {h \in Heap(hd) : h < hd}) /\ Lowest(after, {h \in Heap(hd) : h > hd})
             /\ mem' = FreeHuge(Cleared(hd), head, hd, mem[hd].size, before, after)
             /\ head' = HeadAfterFreeHuge(Cleared(hd), head, hd, mem[hd].size, before, after)
<1>1. /\ pc[c] = "free_huge" /\ pc' = [pc EXCEPT ![c] = "idle"] /\ UNCHANGED <<pagehead, live>>
      /\ loc' = [loc EXCEPT ![c] = NoLocals]
  BY DEF KfreeHuge, At, Goto, SetLocals
<1>2. /\ All(mem, head, pagehead, pc, loc, live, H, P) /\ loc[c].ptr # NULL
      /\ loc[c].size \in SizeClass /\ loc[c].size > MaxSmall
      /\ World(mem, head, pagehead, FreshOf(pc, loc), BS, H, P)
      /\ FreshAt(pc[c], loc[c]) = NULL /\ FreshOf(pc, loc)[c] = NULL /\ pc \in [CPU -> PC] /\ loc \in [CPU -> Locals]
  BY <1>1, ProcFacts DEF Now, Shape, FreshAt, FreshOf
<1>3. \E hd \in Granule \cap {loc[c].ptr - 1} :
         \E before, after \in Heap(hd) \cup {NULL} : Linked(hd, before, after)
  BY Zenon DEF KfreeHuge
<1> HIDE DEF Linked
<1>4. PICK hd, before, after : hd = loc[c].ptr - 1 /\ hd \in Granule /\ Linked(hd, before, after)
  BY <1>3
<1>5. PICK b \in BS : /\ b.ptr = loc[c].ptr /\ b.size = loc[c].size /\ b.cpu = c /\ Own(loc[c], c) = {b} /\ b \notin live
  BY <1>2, OwnBlock
<1>6. IsHuge(b) /\ b \in Huge(BS)
  BY <1>2, <1>5 DEF IsHuge, Huge
<1>7. mem[hd].size = b.size /\ hd = b.ptr - 1
  BY <1>2, <1>4, <1>5, <1>6 DEF World, BlockInv, HugeOK
<1>8. ASSUME NEW s, s = b.size, NEW u, u = memset0(mem, hd, s + 1) PROVE \E H2 : Now(H2, P)'
  <2>1. b.ptr \in Int /\ s \in Nat \ {0} /\ hd \in Int /\ s + 1 \in Int /\ mem \in Memory /\ List(mem, head, H)
    BY <1>2, <1>7, <1>8, BlockFacts DEF World, HeapInv
  <2>2. u \in Memory /\ \A g \in Granule : (g < hd \/ hd + (s + 1) <= g) => u[g] = mem[g]
    BY <2>1, <1>8, MemsetCells
  <2>3. ASSUME NEW n \in H PROVE u[n] = mem[n]
    <3>1. n \in Granule /\ n \in Int /\ mem[n].size \in Nat \ {0} /\ Off(n, mem[n].size, b.ptr - 1, b.size + 1)
      BY <1>2, <1>6, NodeFacts DEF World, SpanInv
    <3> QED
      BY <3>1, <2>1, <2>2, <1>7, <1>8 DEF Off
  <2>4. List(u, head, H)
    BY <2>1, <2>2, <2>3, ListFrame
  <2>5. H = Nodes(u, head) /\ H \subseteq Granule
    BY <2>4, ListFacts DEF List
  <2>6. u = Cleared(hd) /\ Heap(hd) = H
    BY <2>5, <1>7, <1>8
  <2>7. /\ Highest(before, {h \in H : h < hd}) /\ Lowest(after, {h \in H : h > hd})
        /\ mem' = FreeHuge(u, head, hd, s, before, after)
        /\ head' = HeadAfterFreeHuge(u, head, hd, s, before, after)
    BY <1>4, <1>7, <1>8, <2>6 DEF Linked
  <2>8. FreeArgs(u, H, b, before, after)
    BY <2>7, <1>7 DEF FreeArgs
  <2>9. \E H2 : Changed(mem, mem', head', pagehead, FreshOf(pc, loc), BS, BS \ {b}, H2, P)
    BY ONLY <1>2, <1>6, <1>7, <1>8, <2>7, <2>8, c \in CPU, FreeHugeWorld
  <2>10. PICK H2 : Changed(mem, mem', head', pagehead, FreshOf(pc, loc), BS, BS \ {b}, H2, P)
    BY <2>9
  <2>11. NoLocals \in Locals /\ NoLocals.ptr = NULL
    BY GranuleInt DEF Locals, NoLocals
  <2>12. Own(NoLocals, c) = {} /\ FreshAt("idle", NoLocals) = NULL /\ "idle" \in PC
    BY <2>11 DEF Own, FreshAt, PC
  <2>13. BlocksOf(live, loc') = BS \ {b}
    <3>1. SplitBy(BlocksOf(live, loc), live, Own(loc[c], c), loc, c)
      BY BlocksSplit
    <3>2. SplitBy(BlocksOf(live, loc'), live, Own(NoLocals, c), loc, c)
      BY <1>1, <1>2, BlocksStep
    <3> QED
      BY <3>1, <3>2, <2>12, <1>5 DEF SplitBy
  <2>14. FreshOf(pc', loc') = FreshOf(pc, loc)
    <3>1. FreshIs(FreshOf(pc, loc), FreshOf(pc', loc'), c, FreshAt("idle", NoLocals))
      BY <1>1, <1>2, FreshStep
    <3> QED
      BY <3>1, <2>12, <1>2 DEF FreshIs
  <2>15. Proc(mem', "idle", NoLocals, c, pagehead[c], P[c], BlocksOf(live, loc'), live)
    BY <2>11, <2>12 DEF Proc, Shape, OnPage, Zeroed
  <2>16. Changed(mem, mem', head', pagehead, FreshOf(pc', loc'), BlocksOf(live, loc), BlocksOf(live, loc'), H2, P)
    BY <2>10, <2>13, <2>14
  <2>17. All(mem', head', pagehead, pc', loc', live, H2, P)
    BY ONLY <2>11, <2>12, <2>15, <2>16, <1>1, <1>2, c \in CPU, HeapAll
  <2> QED
    BY <1>1, <2>17 DEF Now
<1> QED
  BY <1>8

-----------------------------------------------------------------------------
(* The invariant and what it says *)

\* After pmm_init the heap is one node, and there are no pages.
LEMMA DataInit == Init => DataInv
<1> SUFFICES ASSUME Init PROVE DataInv
  OBVIOUS
<1> DEFINE H == {HeapStart}
           P == [c \in CPU |-> {}]
           BS == BlocksOf(live, loc)
           fr == FreshOf(pc, loc)
           hdr == [ZeroCell EXCEPT !.size = HeapEnd - HeapStart]
<1>1. /\ HeapStart \in Granule /\ HeapStart \in Int /\ HeapEnd \in Int /\ HeapStart < HeapEnd
      /\ HeapEnd - HeapStart \in Int
  BY HeapAssumption DEF Granule
<1>2. mem \in Memory /\ pc \in [CPU -> PC] /\ loc \in [CPU -> Locals] /\ pagehead \in [CPU -> Int]
  BY TypeInit DEF TypeOK
<1>3. mem[HeapStart].size = HeapEnd - HeapStart /\ mem[HeapStart].next = NULL
  <2>1. hdr.size = HeapEnd - HeapStart /\ hdr.next = NULL
    BY DEF ZeroCell
  <2> QED
    BY <2>1, <1>1 DEF Init
<1>4. \A c \in CPU : pc[c] = "idle" /\ loc[c] = NoLocals /\ pagehead[c] = NULL /\ P[c] = {}
  BY DEF Init
<1>5. BS = {} /\ live = {} /\ \A c \in CPU : Own(loc[c], c) = {}
  <2>1. NoLocals.ptr = NULL
    BY DEF NoLocals
  <2>2. \A c \in CPU : Own(loc[c], c) = {}
    BY <2>1, <1>4 DEF Own
  <2>3. live = {}
    BY DEF Init
  <2> QED
    BY <2>2, <2>3 DEF BlocksOf
<1>6. fr \in [CPU -> Int] /\ \A c \in CPU : fr[c] = NULL
  BY <1>4, GranuleInt DEF FreshOf, FreshAt
<1>7. P \in [CPU -> SUBSET Granule] /\ \A c \in CPU : Pages(P, fr, c) = {}
  BY <1>4, <1>6 DEF Pages
<1> HIDE DEF P, BS, fr
<1>8. HeapInv(mem, head, H)
  <2>1. List(mem, NULL, {})
    BY <1>2, NoList
  <2>2. List(mem, HeapStart, {} \cup {HeapStart})
    <3>1. HeapStart \in Granule \ {}
      BY <1>1
    <3> QED
      BY ONLY <3>1, <2>1, <1>2, <1>3, ListPush
  <2>3. List(mem, head, H)
    BY <2>2 DEF Init
  <2> QED
    BY <2>3, <1>1, <1>3 DEF HeapInv
<1>9. PageInv(mem, pagehead, fr, P)
  <2>1. List(mem, NULL, {})
    BY <1>2, NoList
  <2> QED
    BY <2>1, <1>2, <1>4, <1>6, <1>7 DEF PageInv, P
<1>10. FillInv(mem, P, BS) /\ BlockInv(mem, P, BS)
  BY <1>4, <1>5 DEF FillInv, BlockInv, Huge, P
<1>11. SpanInv(mem, H, P, fr, BS)
  BY <1>5, <1>7 DEF SpanInv, Huge
<1>12. World(mem, head, pagehead, fr, BS, H, P)
  BY <1>2, <1>8, <1>9, <1>10, <1>11 DEF World
<1>13. ASSUME NEW c \in CPU PROVE Proc(mem, pc[c], loc[c], c, pagehead[c], P[c], BS, live)
  <2>1. NoLocals.ptr = NULL
    BY DEF NoLocals
  <2> QED
    BY <2>1, <1>4, <1>5 DEF Proc, Shape, OnPage, Zeroed
<1>14. Intact(mem, live)
  BY <1>5 DEF Intact
<1>15. Now(H, P)
  BY <1>2, <1>12, <1>13, <1>14 DEF Now, All, BS, fr
<1> QED
  BY <1>15 DEF DataInv

\* A processor that stops changes nothing else.
LEMMA PanicStep ==
  ASSUME NEW H, NEW P, Now(H, P), NEW c \in CPU, FirstPanic(c) \/ KfreeHugePanic(c) \/ Stray(c)
  PROVE  Now(H, P)'
<1>1. UNCHANGED <<mem, head, pagehead, pc, loc, live>>
  BY DEF FirstPanic, KfreeHugePanic, Stray, Panic
<1> QED
  BY <1>1, StillStep

\* Every step preserves the invariant, when blocks are freed where they were allocated.
LEMMA DataNext ==
  ASSUME ~RemoteFree, Careful, DataInv, [Next]_vars
  PROVE  DataInv'
<1>1. PICK H, P : Now(H, P)
  BY DEF DataInv
<1>2. Now(H, P)' => DataInv'
  BY DEF DataInv
<1>3. SlotLeft /\ HeaderFits
  BY DEF Careful
<1>4. CASE UNCHANGED vars
  BY <1>1, <1>2, <1>4, StillStep DEF vars
<1>5. ASSUME NEW c \in CPU, Call(c) PROVE DataInv'
  <2>1. CASE Kfree(c)
    BY <1>1, <1>2, <2>1, KfreeStep
  <2>2. CASE KallocSmall(c) \/ KallocHuge(c) \/ KallocTooBig(c)
    BY <1>1, <1>2, <2>2, CallStep
  <2> QED
    BY <1>5, <2>1, <2>2 DEF Call
<1>6. ASSUME NEW c \in CPU, Work(c) PROVE DataInv'
  <2>1. CASE \/ AllockpageLock(c) \/ FirstLock(c) \/ SearchLock(c) \/ NeedPage(c) \/ NoPage(c)
             \/ HugeLock(c) \/ KfreeLock(c) \/ KfreeNotInPage(c) \/ KfreeHugeLock(c)
    BY <1>1, <1>2, <2>1, QuietStep
  <2>2. CASE FirstPanic(c) \/ KfreeHugePanic(c) \/ Stray(c)
    BY <1>1, <1>2, <2>2, PanicStep
  <2>3. CASE FastPanic(c) \/ KfreePanic(c)
    BY <1>1, <2>3, NoFastPanic, NoKfreePanic
  <2>4. CASE Allockpage(c)
    BY <1>1, <2>4, AllockpageStep DEF DataInv
  <2>5. CASE FirstInit(c)
    BY <1>1, <2>5, FirstInitStep DEF Listed, DataInv
  <2>6. CASE InsertPage(c)
    BY <1>1, <2>6, InsertPageStep DEF Listed, DataInv
  <2>7. CASE FindPage(c)
    BY <1>1, <1>2, <2>7, FindPageStep
  <2>8. CASE FastPath(c)
    BY <1>1, <1>2, <2>8, FastPathStep
  <2>9. CASE Zero(c)
    BY <1>1, <1>2, <2>9, ZeroStep
  <2>10. CASE ReusePage(c)
    BY <1>1, <1>2, <2>10, ReusePageStep
  <2>11. CASE KallocHugeMemory(c)
    BY <1>1, <1>2, <1>3, <2>11, KallocHugeStep
  <2>12. CASE Return(c)
    BY <1>1, <1>2, <2>12, ReturnStep
  <2>13. CASE KfreeScan(c)
    BY <1>1, <1>2, <1>3, <2>13, KfreeScanStep
  <2>14. CASE KfreeLink(c)
    BY <1>1, <1>2, <2>14, KfreeLinkStep
  <2>15. CASE KfreeHuge(c)
    BY <1>1, <2>15, KfreeHugeStep DEF DataInv
  <2> QED
    BY <1>6, <2>1, <2>2, <2>3, <2>4, <2>5, <2>6, <2>7, <2>8, <2>9, <2>10, <2>11, <2>12, <2>13, <2>14, <2>15 DEF Work
<1> QED
  BY <1>4, <1>5, <1>6 DEF Next

\* What the invariant says of the properties the runs check.
LEMMA DataSays ==
  ASSUME DataInv
  PROVE  LiveDataIntact /\ SmallZeroed /\ ListsEnd
<1>1. PICK H, P : Now(H, P)
  BY DEF DataInv
<1> DEFINE BS == BlocksOf(live, loc)
<1>2. LiveDataIntact
  BY <1>1 DEF Now, All, Intact, LiveDataIntact
<1>3. SmallZeroed
  BY <1>1 DEF Now, All, Proc, Zeroed, SmallZeroed
<1>4. World(mem, head, pagehead, FreshOf(pc, loc), BS, H, P)
  BY <1>1 DEF Now, All
<1>5. ListsEnd
  <2>1. Ends(mem, head)
    BY <1>4, ListEnds DEF World, HeapInv
  <2>2. \A c \in CPU : Ends(mem, pagehead[c])
    BY <1>4, ListEnds DEF World, PageInv
  <2>3. ASSUME NEW p \in AllPages, mem[p].size > 0, mem[p].magic > 0 PROVE Ends(mem, FreeHead(mem, p))
    <3>1. PICK c \in CPU : p \in P[c]
      <4>1. \A e \in CPU : P[e] = Nodes(mem, pagehead[e])
        BY <1>4, ListsAre
      <4> QED
        BY <4>1, <2>3 DEF AllPages
    <3>2. PageOK(mem, p, In(BS, p)) /\ mem \in Memory /\ PageAt(p)
      BY <1>4, <3>1 DEF World, FillInv, PageInv, Pages
    <3>3. mem[p].size # 0 /\ mem[p].magic # 0
      BY <2>3
    <3>4. PICK F : FreeOK(mem, p, F, In(BS, p))
      BY <3>2, <3>3, HasFree
    <3> QED
      BY <3>4, ListEnds DEF FreeOK
  <2> QED
    BY <2>1, <2>2, <2>3 DEF ListsEnd
<1> QED
  BY <1>2, <1>3, <1>5

\* A huge block that is freed has its header.
LEMMA NoHugePanic ==
  ASSUME NEW H, NEW P, Now(H, P), NEW c \in CPU, KfreeHugePanic(c)
  PROVE  FALSE
<1> DEFINE BS == BlocksOf(live, loc)
<1>1. /\ pc[c] = "free_huge"
      /\ \E hd \in Granule \cap {loc[c].ptr - 1} : mem[hd].magic # HUGE_MAGIC \/ mem[hd].size < 0
  BY DEF KfreeHugePanic, At
<1>2. /\ loc[c].ptr # NULL /\ loc[c].size \in SizeClass /\ loc[c].size > MaxSmall
      /\ World(mem, head, pagehead, FreshOf(pc, loc), BS, H, P)
      /\ All(mem, head, pagehead, pc, loc, live, H, P)
  BY <1>1, ProcFacts DEF Now, Shape
<1>3. PICK b \in BS : b.ptr = loc[c].ptr /\ b.size = loc[c].size
  BY <1>2, OwnBlock
<1>4. HugeOK(mem, b) /\ b.size \in Nat
  BY <1>2, <1>3, ClassFacts DEF World, BlockInv, Huge, IsHuge
<1> QED
  BY <1>1, <1>3, <1>4 DEF HugeOK

-----------------------------------------------------------------------------
(* Every access is in the heap *)

\* Addresses between the ends of the heap are in it.
LEMMA RunIn ==
  ASSUME NEW a \in Int, NEW n \in Int, HeapStart <= a, a + n <= HeapEnd
  PROVE  ~Beyond(a, n)
<1>1. HeapStart \in Int /\ HeapEnd \in Int
  BY HeapAssumption
<1> QED
  BY <1>1 DEF Beyond, Run, Granule

\* allockpage.
LEMMA AllockpageStays ==
  ASSUME NEW H, NEW P, World(mem, head, pagehead, FreshOf(pc, loc), BlocksOf(live, loc), H, P)
  PROVE  ~AllockpageStrays
<1>1. Ends(mem, head)
  BY ListEnds DEF World, HeapInv
<1>2. ASSUME NEW n \in PageFits(mem), First(mem, head, n, PageFits(mem)), mem[n].size > PageSize
      PROVE  n + PageSize \in Granule
  <2>1. n \in H
    BY <1>2, ListsAre DEF First
  <2>2. n \in Granule /\ n \in Int /\ mem[n].size \in Nat /\ n + mem[n].size <= HeapEnd
    BY <2>1, NodeFacts
  <2>3. PageSize \in Nat \ {0} /\ HeapStart \in Int /\ HeapEnd \in Int
    BY PageSizePos, HeapAssumption
  <2> QED
    BY <2>2, <2>3, <1>2 DEF Granule
<1> QED
  BY <1>1, <1>2 DEF AllockpageStrays, Astray

\* The search for a page with free slots, and the page it reuses.
LEMMA FindStays ==
  ASSUME NEW H, NEW P, Now(H, P), NEW c \in CPU, pc[c] = "find"
  PROVE  ~FindStrays(pagehead[c], loc[c].size)
<1> DEFINE s == loc[c].size
           BS == BlocksOf(live, loc)
<1>1. s \in SmallSize /\ World(mem, head, pagehead, FreshOf(pc, loc), BS, H, P)
  BY ProcFacts DEF Shape
<1>2. s \in Nat \ {0} /\ 4 * s <= PageSize /\ PageSize \in Nat
  BY <1>1, SmallFacts
<1>3. Ends(mem, pagehead[c])
  BY <1>1, ListEnds DEF World, PageInv
<1>4. ASSUME NEW p \in Empty, First(mem, pagehead[c], p, Empty) PROVE ~Beyond(p + mem[p].magic * s, s + 1)
  <2>1. p \in P[c] /\ mem[p].size = 0 /\ 0 \notin SmallSize
    BY <1>1, <1>4, ListsAre, SmallFacts DEF First, Empty
  <2>2. PageAt(p) /\ PageOK(mem, p, In(BS, p))
    BY <1>1, <2>1 DEF World, FillInv, PageInv, Pages
  <2>3. mem[p].magic = 1
    BY <2>1, <2>2 DEF PageOK
  <2>4. p \in Int /\ p >= HeapStart /\ p + PageSize <= HeapEnd /\ HeapStart \in Int /\ HeapEnd \in Int
    BY <2>2, PageFacts
  <2>5. p + s \in Int /\ s + 1 \in Int /\ HeapStart <= p + s /\ p + s + (s + 1) <= HeapEnd
    BY <1>2, <2>4
  <2>6. p + mem[p].magic * s = p + s
    BY <1>2, <2>3
  <2> HIDE DEF s
  <2> QED
    BY <2>5, <2>6, RunIn
<1> QED
  BY <1>3, <1>4 DEF FindStrays

\* The fast path.
LEMMA FastStays ==
  ASSUME NEW H, NEW P, Now(H, P), NEW c \in CPU, pc[c] = "fast"
  PROVE  ~FastStrays(loc[c].ph, loc[c].size)
<1> DEFINE p == loc[c].ph
           s == loc[c].size
           B == In(BlocksOf(live, loc), p)
           fd == FreeHead(mem, p)
<1>1. /\ World(mem, head, pagehead, FreshOf(pc, loc), BlocksOf(live, loc), H, P) /\ s \in SmallSize
      /\ p \in P[c] /\ mem[p].size = s /\ mem[p].magic > 0
  BY ProcFacts DEF Shape, OnPage
<1>2. PageOK(mem, p, B) /\ mem \in Memory /\ PageAt(p) /\ mem[p].magic # 0 /\ mem[p].size # 0
  BY <1>1, SmallFacts DEF World, FillInv, Pages, PageInv
<1> HIDE DEF p, s, B
<1>3. PICK F : FreeOK(mem, p, F, B)
  BY ONLY <1>2, HasFree
<1>4. fd \in F
  BY <1>3 DEF FreeOK
<1>5. fd \in Int /\ fd \in Granule /\ mem[fd].size \in Nat /\ mem[fd].size >= s /\ fd + mem[fd].size <= p + PageSize
  <2>1. /\ F \subseteq Granule
        /\ \A f \in F : f \in Int /\ mem[f].size \in Nat /\ mem[f].size >= mem[p].size /\ f + mem[f].size <= p + PageSize
    BY ONLY <1>1, <1>2, <1>3, FreeFacts
  <2> QED
    BY <2>1, <1>1, <1>4
<1>6. p \in Int /\ p + PageSize <= HeapEnd /\ HeapStart \in Int /\ HeapEnd \in Int /\ PageSize \in Nat /\ s \in Nat \ {0}
  BY <1>1, <1>2, PageFacts, SmallFacts
<1>7. mem[fd].size # s => fd + s \in Granule
  BY <1>5, <1>6 DEF Granule
<1>8. fd = p + mem[p].magic * s
  BY <1>1 DEF FreeHead
<1> QED
  BY <1>5, <1>7, <1>8 DEF FastStrays, p, s

\* kallocHugeMemory, when the node it picks has room for the header.
LEMMA HugeStays ==
  ASSUME NEW H, NEW P, Now(H, P), NEW c \in CPU, pc[c] = "huge", HeaderFits
  PROVE  ~HugeStrays(loc[c].size)
<1> DEFINE s == loc[c].size
           fitting == Nodes(mem, head) \cap HugeFits(mem, s)
<1>1. s \in SizeClass /\ World(mem, head, pagehead, FreshOf(pc, loc), BlocksOf(live, loc), H, P)
  BY ProcFacts DEF Shape
<1>2. s \in Nat \ {0} /\ HeapStart \in Int /\ HeapEnd \in Int
  BY <1>1, ClassFacts, HeapAssumption
<1>3. Ends(mem, head)
  BY <1>1, ListEnds DEF World, HeapInv
<1>4. ASSUME NEW n \in fitting, Highest(n, fitting) PROVE HugeBlock(mem, n, s) - 1 \in Granule
  <2>1. n \in H /\ mem[n].size > s + 1
    BY <1>1, <1>4, ListsAre DEF HeaderFits
  <2>2. n \in Granule /\ n \in Int /\ mem[n].size \in Nat /\ n + mem[n].size <= HeapEnd
    BY <1>1, <2>1, NodeFacts
  <2> QED
    BY <1>2, <2>1, <2>2 DEF HugeBlock, Granule
<1> QED
  BY <1>3, <1>4 DEF HugeStrays

\* The page a new block comes from.
LEMMA FreshStays ==
  ASSUME NEW H, NEW P, Now(H, P), NEW c \in CPU, pc[c] \in {"first_init", "new_init"}, loc[c].ph # NULL
  PROVE  /\ loc[c].ph + loc[c].size \in Granule
         /\ ~Beyond(loc[c].ph + loc[c].size, loc[c].size + 1)
<1> DEFINE p == loc[c].ph
           s == loc[c].size
<1>1. s \in SmallSize /\ World(mem, head, pagehead, FreshOf(pc, loc), BlocksOf(live, loc), H, P)
  BY ProcFacts DEF Shape
<1>2. FreshOf(pc, loc)[c] = p
  BY DEF FreshOf, FreshAt
<1>3. PageAt(p)
  BY <1>1, <1>2 DEF World, PageInv, Pages
<1>4. /\ p \in Int /\ p >= HeapStart /\ p + PageSize <= HeapEnd /\ HeapStart \in Int /\ HeapEnd \in Int
      /\ s \in Nat \ {0} /\ 4 * s <= PageSize /\ PageSize \in Nat
  BY <1>1, <1>3, PageFacts, SmallFacts
<1>5. p + s \in Int /\ s + 1 \in Int /\ HeapStart <= p + s /\ p + s + (s + 1) <= HeapEnd /\ p + s < HeapEnd
  BY <1>4
<1>6. p + s \in Granule
  BY <1>4, <1>5 DEF Granule
<1> HIDE DEF p, s
<1>7. ~Beyond(p + s, s + 1)
  BY <1>5, RunIn
<1> QED
  BY <1>6, <1>7 DEF p, s

\* The walk of kfree over all pages, and over the free list of the block's page.
LEMMA ScanStays ==
  ASSUME NEW H, NEW P, Now(H, P), NEW c \in CPU, pc[c] = "free_scan", SlotLeft
  PROVE  ~ScanStrays(loc[c].ptr)
<1> DEFINE ptr == loc[c].ptr
           BS == BlocksOf(live, loc)
<1>1. ptr # NULL /\ World(mem, head, pagehead, FreshOf(pc, loc), BS, H, P) /\ mem \in Memory
  BY ProcFacts DEF Shape, World
<1>2. \A d \in CPU : Ends(mem, pagehead[d])
  BY <1>1, ListEnds DEF World, PageInv
<1>3. PICK b \in BS : b.ptr = ptr /\ b.ptr \in Int /\ b.size \in Nat \ {0} /\ Run(b.ptr, b.size) \subseteq Granule
  BY <1>1, OwnBytes
<1>4. ASSUME NEW p \in PagesHolding(ptr), NEW k, k = memset0(mem, ptr, mem[p].size)
      PROVE  ~(mem[p].size < 0 \/ Beyond(ptr, mem[p].size) \/ ~Ends(k, FreeHead(k, p)))
  <2>1. p \in AllPages /\ p < b.ptr /\ b.ptr < p + PageSize /\ mem[p].magic # 0
    BY <1>3, <1>4 DEF PagesHolding, SlotLeft
  <2>2. PICK d \in CPU : p \in P[d]
    <3>1. \A e \in CPU : P[e] = Nodes(mem, pagehead[e])
      BY <1>1, ListsAre
    <3> QED
      BY <2>1, <3>1 DEF AllPages
  <2>3. b.size = mem[p].size /\ PageAt(p) /\ \E F : FreePage(mem, p, F, In(BS, p), b)
    BY <1>1, <1>3, <2>1, <2>2, FreedPage
  <2>4. PICK F : FreePage(mem, p, F, In(BS, p), b)
    BY <2>3
  <2>5. k \in Memory /\ \A g \in Granule : (g < b.ptr \/ b.ptr + b.size <= g) => k[g] = mem[g]
    <3>1. ptr \in Int /\ mem[p].size \in Int /\ b.ptr = ptr /\ b.size = mem[p].size
      BY <1>3, <2>3
    <3>2. /\ k \in Memory
          /\ \A g \in Granule : (g < ptr \/ ptr + mem[p].size <= g) => k[g] = mem[g]
      BY ONLY <3>1, <1>1, <1>4, MemsetCells
    <3> QED
      BY <3>1, <3>2
  <2>6. Outside(mem, k, b.ptr, b.size)
    BY <2>5 DEF Outside
  <2>7. FreePage(k, p, F, In(BS, p), b)
    BY <2>3, <2>4, <2>5, <2>6, FreedCleared
  <2>8. Ends(k, FreeHead(k, p))
    BY <2>7, ListEnds DEF FreePage, FreeOK
  <2> QED
    BY <1>3, <2>3, <2>8 DEF Beyond
<1> QED
  BY <1>2, <1>4 DEF ScanStrays, Astray

\* The walks that link a block into the free list of its page.
LEMMA LinkStays ==
  ASSUME NEW H, NEW P, Now(H, P), NEW c \in CPU, pc[c] = "free_link"
  PROVE  ~LinkStrays(loc[c])
<1> SUFFICES ASSUME NEW l, l = loc[c], NEW p, p = l.ph, NEW ptr, ptr = l.ptr,
                    NEW before, before = l.before, NEW after, after = l.after, NEW B, B = In(BlocksOf(live, loc), p)
             PROVE  ~LinkStrays(l)
  OBVIOUS
<1> DEFINE s == mem[p].size
<1>1. PICK F, b : /\ b.ptr = ptr /\ PageAt(p) /\ FreePage(mem, p, F, B, b)
                  /\ before \in F \cup {NULL} /\ after \in F \cup {NULL}
  BY LinkPage
<1>2. /\ s \in Nat \ {0} /\ p \in Int /\ p \in Granule /\ mem \in Memory /\ b.ptr \in Int /\ b.ptr \in Granule
      /\ p < b.ptr /\ F \subseteq Granule /\ p \notin F /\ b.ptr \notin F
  BY ONLY <1>1, FreedFacts
<1>3. List(mem, FreeHead(mem, p), F) /\ FreeOK(mem, p, F, B) /\ s \in SmallSize
  BY <1>1 DEF FreePage, FreeOK
<1>4. ptr + s # NULL /\ (ptr + s = after => after \in F)
  <2>1. p > 0
    BY <1>1, PageFacts
  <2> QED
    BY <1>1, <1>2, <2>1 DEF NULL
<1>5. ASSUME JoinsBefore(mem, before, ptr) PROVE ~MergeBeforeStrays(mem, p, ptr, before, after)
  <2> DEFINE grown == [mem EXCEPT ![before].size = @ + s]
             both == [grown EXCEPT ![before].size = @ + grown[after].size]
  <2>1. before \in F /\ before \in Granule /\ before # p /\ mem[before].size \in Int
    <3>1. before \in F
      BY <1>1, <1>5 DEF JoinsBefore
    <3> QED
      BY <3>1, <1>2, CellFields
  <2>2. Resized(mem, grown, before, mem[before].size + s)
    <3>1. grown = [mem EXCEPT ![before].size = mem[before].size + s] /\ mem[before].size + s \in Int
      BY <1>2, <2>1
    <3> QED
      BY ONLY <3>1, <1>2, <2>1, SizeCells
  <2> HIDE DEF grown
  <2>3. grown \in Memory /\ grown[p] = mem[p] /\ \A g \in Granule : grown[g].next = mem[g].next
    BY <1>2, <2>1, <2>2 DEF Resized
  <2>4. CASE ptr + s = after
    <3>1. after \in Granule /\ grown[before].size \in Int /\ grown[after].size \in Int
      BY <1>2, <1>4, <2>1, <2>3, <2>4, CellFields
    <3>2. Resized(grown, both, before, grown[before].size + grown[after].size)
      <4>1. both = [grown EXCEPT ![before].size = grown[before].size + grown[after].size]
            /\ grown[before].size + grown[after].size \in Int
        BY <2>1, <2>3, <3>1
      <4> QED
        BY ONLY <4>1, <2>1, <2>3, SizeCells
    <3> HIDE DEF both
    <3>3. both \in Memory /\ both[p] = mem[p] /\ \A g \in Granule : both[g].next = mem[g].next
      BY <1>2, <2>1, <2>3, <3>2 DEF Resized
    <3>4. FreeHead(both, p) = FreeHead(mem, p)
      BY <3>3 DEF FreeHead
    <3>5. \A g \in F : both[g].next = mem[g].next
      BY <1>2, <3>3
    <3>6. List(both, FreeHead(both, p), F)
      BY ONLY <1>3, <3>3, <3>4, <3>5, ListFrame
    <3>7. Ends(both, FreeHead(both, p))
      BY <3>6, ListEnds
    <3> QED
      BY <3>7 DEF MergeBeforeStrays, grown, both
  <2>5. CASE ptr + s # after
    <3>1. ptr + grown[p].size # after
      BY <2>3, <2>5
    <3> QED
      BY <3>1 DEF MergeBeforeStrays, grown
  <2> QED
    BY <2>4, <2>5
<1>6. ASSUME ptr + s = after PROVE ~MergeAfterStrays(mem, p, ptr, after)
  <2> DEFINE v == s + mem[after].size
             front == Front(mem, p, b.ptr, v)
  <2>1. after \in F /\ after \in Granule /\ after # ptr /\ v \in Int
    BY <1>1, <1>2, <1>4, <1>6, CellFields
  <2> HIDE DEF v
  <2>2. Fronted(mem, front, p, F, b.ptr, v)
    BY ONLY <1>1, <2>1, FrontIs
  <2>3. List(front, b.ptr, F \cup {b.ptr}) /\ FreeHead(front, p) = b.ptr
    BY <2>2 DEF Fronted
  <2>4. HasPrev(front, b.ptr, after)
    <3>1. after \in F \cup {b.ptr}
      BY <2>1
    <3>2. HasPrev(front, b.ptr, after) <=> after # b.ptr
      BY ONLY <3>1, <2>3, UnlinkIs
    <3> QED
      BY <3>2, <2>1, <1>1
  <2> QED
    BY <2>3, <2>4, <1>1, Zenon DEF MergeAfterStrays, Front, v
<1> QED
  BY <1>1, <1>2, <1>5, <1>6 DEF LinkStrays

\* kfree of a huge block.
LEMMA FreeHugeStays ==
  ASSUME NEW H, NEW P, Now(H, P), NEW c \in CPU, pc[c] = "free_huge"
  PROVE  ~FreeHugeStrays(loc[c].ptr - 1)
<1> DEFINE BS == BlocksOf(live, loc)
<1>1. /\ loc[c].ptr # NULL /\ loc[c].size \in SizeClass /\ loc[c].size > MaxSmall
      /\ World(mem, head, pagehead, FreshOf(pc, loc), BS, H, P)
  BY ProcFacts DEF Shape
<1>2. PICK b \in BS : b.ptr = loc[c].ptr /\ b.size = loc[c].size
  BY <1>1, OwnBlock
<1>3. IsHuge(b) /\ b \in Huge(BS)
  BY <1>1, <1>2 DEF IsHuge, Huge
<1>4. SUFFICES ASSUME NEW hd, hd = b.ptr - 1, NEW s, s = b.size, NEW u, u = memset0(mem, hd, s + 1)
               PROVE  ~FreeHugeStrays(hd)
  BY <1>2
<1>5. /\ b.ptr \in Int /\ s \in Nat \ {0} /\ hd \in Int /\ s + 1 \in Int /\ mem \in Memory /\ List(mem, head, H)
      /\ HeapStart < b.ptr /\ b.ptr + s <= HeapEnd /\ HeapStart \in Int /\ HeapEnd \in Int
  BY <1>1, <1>4, BlockFacts, HeapAssumption DEF World, HeapInv
<1>6. mem[hd].size = s /\ hd \in Granule /\ HeapStart <= hd /\ hd + (s + 1) <= HeapEnd
  BY <1>1, <1>3, <1>4, <1>5 DEF World, BlockInv, HugeOK, Granule
<1>7. u \in Memory /\ \A g \in Granule : (g < hd \/ hd + (s + 1) <= g) => u[g] = mem[g]
  BY <1>4, <1>5, MemsetCells
<1>8. ASSUME NEW n \in H PROVE u[n] = mem[n]
  <2>1. n \in Granule /\ n \in Int /\ mem[n].size \in Nat \ {0} /\ Off(n, mem[n].size, b.ptr - 1, b.size + 1)
    BY <1>1, <1>3, NodeFacts DEF World, SpanInv
  <2> QED
    BY <2>1, <1>4, <1>5, <1>7 DEF Off
<1>9. List(u, head, H)
  BY <1>5, <1>7, <1>8, ListFrame
<1>10. Ends(u, head)
  BY <1>9, ListEnds
<1>11. ~Beyond(hd, s + 1)
  BY <1>5, <1>6, RunIn
<1> QED
  BY <1>4, <1>6, <1>10, <1>11 DEF FreeHugeStrays

\* No step leaves the heap, when clients avoid the two slips of Careful.
LEMMA StaysSays ==
  ASSUME DataInv, Careful
  PROVE  StaysInHeap
<1>1. PICK H, P : Now(H, P)
  BY DEF DataInv
<1>2. ASSUME NEW c \in CPU, Strays(c) PROVE FALSE
  <2>1. World(mem, head, pagehead, FreshOf(pc, loc), BlocksOf(live, loc), H, P)
    BY <1>1, ProcFacts
  <2>2. ASSUME pc[c] \in {"zero", "ret"}, loc[c].ptr # NULL PROVE ~Beyond(loc[c].ptr, loc[c].size)
    <3>1. \E b \in BlocksOf(live, loc) : b.ptr = loc[c].ptr /\ b.size = loc[c].size /\ Run(b.ptr, b.size) \subseteq Granule
      BY <1>1, <2>2, OwnBytes
    <3> QED
      BY <3>1 DEF Beyond
  <2>3. CASE pc[c] \in {"first_page", "new_page"} /\ AllockpageStrays
    BY <2>1, <2>3, AllockpageStays
  <2>4. CASE pc[c] = "first_init" /\ loc[c].ph # NULL /\ loc[c].ph + loc[c].size \notin Granule
    BY <1>1, <2>4, FreshStays
  <2>5. CASE pc[c] = "find" /\ FindStrays(pagehead[c], loc[c].size)
    BY <1>1, <2>5, FindStays
  <2>6. CASE pc[c] = "fast" /\ FastStrays(loc[c].ph, loc[c].size)
    BY <1>1, <2>6, FastStays
  <2>7. CASE pc[c] = "new_init" /\ loc[c].ph # NULL /\ Beyond(loc[c].ph + loc[c].size, loc[c].size + 1)
    BY <1>1, <2>7, FreshStays
  <2>8. CASE pc[c] = "huge" /\ HugeStrays(loc[c].size)
    BY <1>1, <2>8, HugeStays DEF Careful
  <2>9. CASE pc[c] \in {"zero", "ret"} /\ loc[c].ptr # NULL /\ Beyond(loc[c].ptr, loc[c].size)
    BY <2>2, <2>9
  <2>10. CASE pc[c] = "free_scan" /\ ScanStrays(loc[c].ptr)
    BY <1>1, <2>10, ScanStays DEF Careful
  <2>11. CASE pc[c] = "free_link" /\ LinkStrays(loc[c])
    BY <1>1, <2>11, LinkStays
  <2>12. CASE pc[c] = "free_huge" /\ FreeHugeStrays(loc[c].ptr - 1)
    BY <1>1, <2>12, FreeHugeStays
  <2> QED
    BY <1>2, <2>3, <2>4, <2>5, <2>6, <2>7, <2>8, <2>9, <2>10, <2>11, <2>12 DEF Strays
<1> QED
  BY <1>2 DEF StaysInHeap

-----------------------------------------------------------------------------
(* The steps that stop a processor *)

\* No assertion of kalloc and kfree fails, except that the first page of a processor
\* may not be there.
MemoryPanicOnly == \A c \in CPU : c \in halted' \ halted => pc[c] = "first_init" /\ loc[c].ph = NULL

\* The steps that stop a processor.
LEMMA PanicNext ==
  ASSUME ~RemoteFree, Careful, DataInv, [Next]_vars
  PROVE  MemoryPanicOnly
<1>1. PICK H, P : Now(H, P)
  BY DEF DataInv
<1>2. CASE halted' = halted
  BY <1>2 DEF MemoryPanicOnly
<1>3. ASSUME NEW c \in CPU, Call(c) PROVE halted' = halted
  BY <1>3, Zenon DEF Call, KallocSmall, KallocHuge, KallocTooBig, Kfree
<1>4. ASSUME NEW c \in CPU, FirstPanic(c) PROVE MemoryPanicOnly
  BY <1>4 DEF FirstPanic, Panic, At, MemoryPanicOnly
<1>5. ASSUME NEW c \in CPU, FastPanic(c) \/ KfreePanic(c) \/ KfreeHugePanic(c) \/ Stray(c) PROVE FALSE
  <2>1. CASE Stray(c)
    BY <2>1, StaysSays DEF StaysInHeap, Stray
  <2> QED
    BY <1>1, <1>5, <2>1, NoFastPanic, NoKfreePanic, NoHugePanic
<1>6. ASSUME NEW c \in CPU, Work(c) PROVE MemoryPanicOnly
  <2>1. CASE \/ AllockpageLock(c) \/ FirstLock(c) \/ SearchLock(c) \/ NeedPage(c) \/ NoPage(c)
             \/ HugeLock(c) \/ KfreeLock(c) \/ KfreeNotInPage(c) \/ KfreeHugeLock(c)
    BY <2>1, <1>2 DEF AllockpageLock, FirstLock, SearchLock, NeedPage, NoPage, HugeLock, KfreeLock,
                      KfreeNotInPage, KfreeHugeLock
  <2>2. CASE \/ Allockpage(c) \/ FirstInit(c) \/ InsertPage(c) \/ FindPage(c) \/ FastPath(c)
             \/ Zero(c) \/ ReusePage(c)
    <3>1. Allockpage(c) \/ FirstInit(c) \/ InsertPage(c) => halted' = halted
      BY Zenon DEF Allockpage, FirstInit, InsertPage
    <3>2. FindPage(c) \/ FastPath(c) \/ Zero(c) => halted' = halted
      BY Zenon DEF FindPage, FastPath, Zero
    <3>3. ReusePage(c) => halted' = halted
      BY Zenon DEF ReusePage
    <3> QED
      BY <2>2, <3>1, <3>2, <3>3, <1>2
  <2>3. CASE KallocHugeMemory(c) \/ Return(c)
    BY <2>3, <1>2, Zenon DEF KallocHugeMemory, Return
  <2>4. CASE KfreeScan(c) \/ KfreeLink(c) \/ KfreeHuge(c)
    BY <2>4, <1>2 DEF KfreeScan, KfreeLink, KfreeHuge
  <2> QED
    BY <1>4, <1>5, <1>6, <2>1, <2>2, <2>3, <2>4 DEF Work
<1>7. CASE UNCHANGED vars
  BY <1>2, <1>7 DEF vars
<1> QED
  BY <1>2, <1>3, <1>6, <1>7 DEF Next

-----------------------------------------------------------------------------
(* The refinement of AllocSpec *)

\* What AllocSpec sees of the heap list, of the page lists and of the blocks.
FreeIn(m, h) == UNION {Run(n, m[n].size) : n \in Nodes(m, h)}
PagesIn(m, ph, ps, lc) ==
  [c \in CPU |-> Nodes(m, ph[c])
                   \cup {p \in {lc[c].ph} : p # NULL /\ ps[c] \in {"first_init", "new_init"}}]
Bare(b) == [ptr |-> b.ptr, size |-> b.size]
OwnedIn(lv, lc) ==
  {[ptr |-> b.ptr, size |-> b.size] : b \in lv}
    \cup {[ptr |-> lc[c].ptr, size |-> lc[c].size] : c \in {d \in CPU : lc[d].ptr # NULL}}
AbsPages == [c \in CPU |-> PagesOf(c)]

\* The same, from the sets of the invariant.
FreeOf(m, H) == UNION {Run(n, m[n].size) : n \in H}
BareOf(BS) == {Bare(b) : b \in BS}

\* What AllocSpec sees, before and after a step, as functions of the memory.
LEMMA Seen ==
  /\ HeapFree = FreeIn(mem, head) /\ HeapFree' = FreeIn(mem', head')
  /\ AbsPages = PagesIn(mem, pagehead, pc, loc) /\ AbsPages' = PagesIn(mem', pagehead', pc', loc')
  /\ Owned = OwnedIn(live, loc) /\ Owned' = OwnedIn(live', loc')
<1>1. HeapFree = FreeIn(mem, head) /\ HeapFree' = FreeIn(mem', head')
  BY DEF HeapFree, FreeIn
<1>2. AbsPages = PagesIn(mem, pagehead, pc, loc) /\ AbsPages' = PagesIn(mem', pagehead', pc', loc')
  BY DEF AbsPages, PagesOf, PagesIn
<1>3. Owned = OwnedIn(live, loc) /\ Owned' = OwnedIn(live', loc')
  BY DEF Owned, OwnedIn
<1> QED
  BY <1>1, <1>2, <1>3

Shown(m, h, ph, ps, lc, lv, H, P) ==
  /\ FreeIn(m, h) = FreeOf(m, H)
  /\ PagesIn(m, ph, ps, lc) = [c \in CPU |-> Pages(P, FreshOf(ps, lc), c)]
  /\ OwnedIn(lv, lc) = BareOf(BlocksOf(lv, lc))

\* The sets of the invariant are what AllocSpec sees.
LEMMA AllShown ==
  ASSUME NEW m, NEW h, NEW ph, NEW ps, NEW lc, NEW lv, NEW H, NEW P, All(m, h, ph, ps, lc, lv, H, P)
  PROVE  Shown(m, h, ph, ps, lc, lv, H, P)
<1>1. H = Nodes(m, h) /\ \A c \in CPU : P[c] = Nodes(m, ph[c])
  BY ListsAre DEF All
<1>2. FreeIn(m, h) = FreeOf(m, H)
  BY <1>1 DEF FreeIn, FreeOf
<1>3. ASSUME NEW c \in CPU
      PROVE  Nodes(m, ph[c]) \cup {p \in {lc[c].ph} : p # NULL /\ ps[c] \in {"first_init", "new_init"}}
               = Pages(P, FreshOf(ps, lc), c)
  <2>1. FreshOf(ps, lc)[c] = FreshAt(ps[c], lc[c])
    BY DEF FreshOf
  <2> QED
    BY <1>1, <2>1 DEF Pages, FreshAt
<1>4. PagesIn(m, ph, ps, lc) = [c \in CPU |-> Pages(P, FreshOf(ps, lc), c)]
  BY <1>3 DEF PagesIn
<1>5. OwnedIn(lv, lc) = BareOf(BlocksOf(lv, lc))
  <2>1. ASSUME NEW x \in OwnedIn(lv, lc) PROVE x \in BareOf(BlocksOf(lv, lc))
    <3>1. CASE \E b \in lv : x = [ptr |-> b.ptr, size |-> b.size]
      BY <3>1 DEF BareOf, Bare, BlocksOf
    <3>2. CASE \E c \in CPU : lc[c].ptr # NULL /\ x = [ptr |-> lc[c].ptr, size |-> lc[c].size]
      <4>1. PICK c \in CPU : lc[c].ptr # NULL /\ x = [ptr |-> lc[c].ptr, size |-> lc[c].size]
        BY <3>2
      <4>2. PICK b : b = [ptr |-> lc[c].ptr, size |-> lc[c].size, cpu |-> c]
        OBVIOUS
      <4>3. b \in BlocksOf(lv, lc)
        BY <4>1, <4>2 DEF BlocksOf, Own
      <4>4. x = Bare(b)
        BY <4>1, <4>2 DEF Bare
      <4> QED
        BY <4>3, <4>4 DEF BareOf
    <3> QED
      BY <2>1, <3>1, <3>2 DEF OwnedIn
  <2>2. ASSUME NEW b \in BlocksOf(lv, lc) PROVE Bare(b) \in OwnedIn(lv, lc)
    <3>1. CASE b \in lv
      BY <3>1 DEF OwnedIn, Bare
    <3>2. CASE b \notin lv
      <4>1. PICK c \in CPU : b \in Own(lc[c], c)
        BY <2>2, <3>2 DEF BlocksOf
      <4>2. b.ptr = lc[c].ptr /\ b.size = lc[c].size /\ lc[c].ptr # NULL
        BY <4>1, OwnFacts
      <4> QED
        BY <4>2 DEF OwnedIn, Bare
    <3> QED
      BY <3>1, <3>2
  <2> QED
    BY <2>1, <2>2 DEF BareOf
<1> QED
  BY <1>2, <1>4, <1>5 DEF Shown

\* A small block: the step of processor c hands out one more, in a page of its own.
LEMMA SmallSpan ==
  ASSUME NEW m, NEW h, NEW ph, NEW fr, NEW BS, NEW H, NEW P, World(m, h, ph, fr, BS, H, P),
         NEW b \in BS, ~IsHuge(b)
  PROVE  \E p \in Pages(P, fr, b.cpu) : \E i \in 1 .. (PageSize \div b.size - 1) : b.ptr = p + i * b.size
<1>1. PICK p \in P[b.cpu] : /\ p \in Int /\ p \in Pages(P, fr, b.cpu) /\ m[p].size \in SmallSize
                            /\ b.size = m[p].size /\ Slot(p, b.size, b.ptr) /\ p < b.ptr
                            /\ b.ptr + b.size <= p + PageSize
  BY SmallIn
<1>2. b.size \in Nat \ {0} /\ PageSize \in Nat /\ Whole(b.size, PageSize) /\ b.ptr \in Int
  BY <1>1, SmallFacts DEF Slot
<1>3. PICK i \in Nat : b.ptr - p = i * b.size
  BY <1>1 DEF Slot, Whole
<1>4. PICK j \in Nat : PageSize = j * b.size
  BY <1>2 DEF Whole
<1>5. ASSUME NEW s \in Nat \ {0}, s = b.size, NEW a \in Int, a = b.ptr
      PROVE  b.ptr = p + i * b.size /\ i \in 1 .. (PageSize \div b.size - 1)
  <2>1. a = p + i * s /\ i * s > 0 /\ i * s + s <= j * s /\ p \in Int
    <3>1. i * s \in Int /\ j * s \in Int
      OBVIOUS
    <3> QED
      BY <3>1, <1>1, <1>2, <1>3, <1>4, <1>5
  <2>2. i >= 1
    BY <2>1
  <2>3. i + 1 <= j
    <3>1. SUFFICES ASSUME j <= i PROVE FALSE
      OBVIOUS
    <3>2. PICK d \in Nat : i = j + d
      BY <3>1
    <3>3. i * s = j * s + d * s /\ d * s \in Nat /\ j * s \in Nat
      BY <3>2
    <3> QED
      BY <3>3, <2>1
  <2>4. (j * s) \div s = j
    OBVIOUS
  <2>5. PageSize \div b.size = j
    BY <2>4, <1>4, <1>5
  <2>6. i \in 1 .. (j - 1)
    BY <2>2, <2>3
  <2> QED
    BY <2>1, <2>5, <2>6, <1>5
<1> QED
  BY <1>1, <1>2, <1>5

\* What a step of processor c that leaves the heap nodes alone means to AllocSpec.
HeapSame == HeapFree' = HeapFree
PagesSame == AbsPages' = AbsPages
OwnedSame == Owned' = Owned

\* The heap nodes keep their sizes.
LEMMA SameHeap ==
  ASSUME NEW H, NEW P, NEW P2, Now(H, P), Now(H, P2)', NodesKept(mem, mem', H)
  PROVE  HeapSame
<1>1. FreeIn(mem, head) = FreeOf(mem, H)
  BY AllShown DEF Now, Shown
<1>2. FreeIn(mem', head') = FreeOf(mem', H)
  <2>1. All(mem', head', pagehead', pc', loc', live', H, P2)
    BY DEF Now
  <2> QED
    BY <2>1, AllShown DEF Shown
<1>3. FreeOf(mem', H) = FreeOf(mem, H)
  BY DEF FreeOf, NodesKept
<1> QED
  BY <1>1, <1>2, <1>3, Seen DEF HeapSame

\* No page comes or goes.
LEMMA SamePages ==
  ASSUME NEW H, NEW P, NEW H2, NEW P2, Now(H, P), Now(H2, P2)',
         \A c \in CPU : Pages(P2, FreshOf(pc', loc'), c) = Pages(P, FreshOf(pc, loc), c)
  PROVE  PagesSame
<1>1. AbsPages = [c \in CPU |-> Pages(P, FreshOf(pc, loc), c)]
  BY AllShown, Seen DEF Now, Shown
<1>2. AbsPages' = [c \in CPU |-> Pages(P2, FreshOf(pc', loc'), c)]
  <2>1. All(mem', head', pagehead', pc', loc', live', H2, P2)
    BY DEF Now
  <2>2. Shown(mem', head', pagehead', pc', loc', live', H2, P2)
    BY <2>1, AllShown
  <2> QED
    BY <2>2, Seen DEF Shown
<1> QED
  BY <1>1, <1>2 DEF PagesSame

\* A step of c that neither gets nor lists a new page.
LEMMA NoPageChange ==
  ASSUME NEW H, NEW P, NEW H2, Now(H, P), Now(H2, P)', NEW c \in CPU, NEW label, NEW l,
         pc' = [pc EXCEPT ![c] = label], loc' = [loc EXCEPT ![c] = l], FreshAt(label, l) = FreshAt(pc[c], loc[c])
  PROVE  PagesSame
<1>1. pc \in [CPU -> PC] /\ loc \in [CPU -> Locals]
  BY DEF Now, All
<1>2. FreshIs(FreshOf(pc, loc), FreshOf(pc', loc'), c, FreshAt(label, l))
  BY <1>1, FreshStep
<1>3. FreshOf(pc, loc)[c] = FreshAt(pc[c], loc[c])
  BY DEF FreshOf
<1>4. FreshOf(pc', loc') = FreshOf(pc, loc)
  BY <1>2, <1>3 DEF FreshIs
<1> QED
  BY <1>4, SamePages

\* The blocks, after a step of c that leaves it with the block in l, if any.
LEMMA OwnedStep ==
  ASSUME NEW H, NEW P, NEW H2, NEW P2, Now(H, P), Now(H2, P2)', NEW c \in CPU, NEW l,
         loc' = [loc EXCEPT ![c] = l]
  PROVE  /\ Owned = BareOf(BlocksOf(live, loc)) /\ Owned' = BareOf(BlocksOf(live', loc'))
         /\ SplitBy(BlocksOf(live, loc), live, Own(loc[c], c), loc, c)
         /\ SplitBy(BlocksOf(live', loc'), live', Own(l, c), loc, c)
<1>1. Owned = BareOf(BlocksOf(live, loc)) /\ loc \in [CPU -> Locals]
  BY AllShown, Seen DEF Now, Shown, All
<1>2. Owned' = BareOf(BlocksOf(live', loc'))
  <2>1. All(mem', head', pagehead', pc', loc', live', H2, P2)
    BY DEF Now
  <2>2. Shown(mem', head', pagehead', pc', loc', live', H2, P2)
    BY <2>1, AllShown
  <2> QED
    BY <2>2, Seen DEF Shown
<1>3. SplitBy(BlocksOf(live, loc), live, Own(loc[c], c), loc, c)
  BY BlocksSplit
<1>4. SplitBy(BlocksOf(live', loc'), live', Own(l, c), loc, c)
  BY <1>1, BlocksStep
<1> QED
  BY <1>1, <1>2, <1>3, <1>4

\* The block changes hands, or there is none.
LEMMA SameOwned ==
  ASSUME NEW H, NEW P, NEW H2, NEW P2, Now(H, P), Now(H2, P2)', NEW c \in CPU, NEW l,
         loc' = [loc EXCEPT ![c] = l], live' \cup Own(l, c) = live \cup Own(loc[c], c)
  PROVE  OwnedSame
<1>1. BlocksOf(live', loc') = BlocksOf(live, loc)
  BY OwnedStep DEF SplitBy
<1> QED
  BY <1>1, OwnedStep DEF OwnedSame

\* Processor c gets the block x.
LEMMA OneMore ==
  ASSUME NEW H, NEW P, NEW H2, NEW P2, Now(H, P), Now(H2, P2)', NEW c \in CPU, NEW l,
         loc' = [loc EXCEPT ![c] = l], live' = live, loc[c].ptr = NULL,
         NEW x, Own(l, c) = {x}
  PROVE  /\ BlocksOf(live', loc') = BlocksOf(live, loc) \cup {x} /\ x \notin BlocksOf(live, loc)
         /\ Owned' = Owned \cup {Bare(x)}
<1>1. Own(loc[c], c) = {}
  BY DEF Own
<1>2. BlocksOf(live', loc') = BlocksOf(live, loc) \cup {x}
  BY <1>1, OwnedStep DEF SplitBy
<1>3. x.cpu = c /\ x \notin live
  <2>1. Proc(mem', pc'[c], loc'[c], c, pagehead'[c], P2[c], BlocksOf(live', loc'), live')
    BY DEF Now, All
  <2>2. loc'[c] = l
    BY DEF Now, All
  <2>3. Own(l, c) \cap live = {}
    BY <2>1, <2>2 DEF Proc
  <2> QED
    BY <2>3, OwnFacts
<1>4. x \notin BlocksOf(live, loc)
  BY <1>1, <1>3, OwnedStep DEF SplitBy
<1> QED
  BY <1>2, <1>4, OwnedStep DEF BareOf

\* The other blocks are apart from x.
LEMMA MoreApart ==
  ASSUME NEW m, NEW h, NEW ph, NEW fr, NEW BS, NEW H, NEW P, NEW B2, World(m, h, ph, fr, B2, H, P),
         NEW x, x \notin BS, B2 = BS \cup {x}, NEW b \in BareOf(BS)
  PROVE  Run(x.ptr, x.size) \cap Run(b.ptr, b.size) = {}
<1>1. PICK a \in BS : b = Bare(a)
  BY DEF BareOf
<1>2. b.ptr = a.ptr /\ b.size = a.size
  BY <1>1 DEF Bare
<1>3. Off(x.ptr, x.size, a.ptr, a.size)
  BY <1>1, BodiesOff
<1>4. x.ptr \in Int /\ x.size \in Nat \ {0} /\ a.ptr \in Int /\ a.size \in Nat \ {0}
  BY <1>1, BlockFacts
<1> QED
  BY <1>2, <1>3, <1>4 DEF Off, Run

\* A small block is handed out.
LEMMA AllocSmallView ==
  ASSUME NEW H, NEW P, NEW P2, Now(H, P), Now(H, P2)', NodesKept(mem, mem', H), NEW c \in CPU, NEW l,
         loc' = [loc EXCEPT ![c] = l], live' = live, loc[c].ptr = NULL, l.ptr # NULL, l.size \in SmallSize,
         PagesSame
  PROVE  Alloc!AllocSmall(c)
<1>1. PICK x : x = [ptr |-> l.ptr, size |-> l.size, cpu |-> c]
  OBVIOUS
<1>2. Own(l, c) = {x} /\ x.ptr = l.ptr /\ x.size = l.size /\ x.cpu = c
  BY <1>1 DEF Own
<1>3. /\ BlocksOf(live', loc') = BlocksOf(live, loc) \cup {x} /\ x \notin BlocksOf(live, loc)
      /\ Owned' = Owned \cup {Bare(x)} /\ Owned = BareOf(BlocksOf(live, loc))
  BY <1>2, OneMore, OwnedStep
<1>4. World(mem', head', pagehead', FreshOf(pc', loc'), BlocksOf(live', loc'), H, P2)
  BY DEF Now, All
<1>5. ~IsHuge(x) /\ x.size \in Nat \ {0}
  <2>1. l.size \in Nat \ {0} /\ MaxSmall \in Nat /\ l.size <= MaxSmall
    BY SmallFacts, ClassFacts DEF SmallSize
  <2> QED
    BY <2>1, <1>2 DEF IsHuge
<1>6. PICK p \in Pages(P2, FreshOf(pc', loc'), c), i \in 1 .. (PageSize \div x.size - 1) : x.ptr = p + i * x.size
  <2>1. x \in BlocksOf(live', loc')
    BY <1>3
  <2> QED
    BY <2>1, <1>2, <1>4, <1>5, SmallSpan
<1>7. p \in AbsPages[c]
  <2>1. All(mem', head', pagehead', pc', loc', live', H, P2)
    BY DEF Now
  <2>2. Shown(mem', head', pagehead', pc', loc', live', H, P2)
    BY <2>1, AllShown
  <2> QED
    BY <2>2, <1>6, Seen DEF Shown, PagesSame
<1>8. \A b \in Owned : Run(x.ptr, x.size) \cap Run(b.ptr, b.size) = {}
  <2>1. ASSUME NEW b \in BareOf(BlocksOf(live, loc))
        PROVE  Run(x.ptr, x.size) \cap Run(b.ptr, b.size) = {}
    BY ONLY <1>3, <1>4, <2>1, MoreApart
  <2> QED
    BY <1>3, <2>1
<1>9. HeapFree' = HeapFree /\ AbsPages' = AbsPages
  BY SameHeap DEF HeapSame, PagesSame
<1>10. Bare(x) = [ptr |-> p + i * l.size, size |-> l.size] /\ Run(x.ptr, x.size) = Run(p + i * l.size, l.size)
  BY <1>2, <1>6 DEF Bare
<1>11. p \in PagesOf(c) /\ l.size \in {s \in SizeClass : s <= MaxSmall} /\ i \in 1 .. (PageSize \div l.size - 1)
  BY <1>2, <1>6, <1>7 DEF AbsPages, SmallSize
<1>12. /\ \A b \in Owned : Run(p + i * l.size, l.size) \cap Run(b.ptr, b.size) = {}
       /\ Owned' = Owned \cup {[ptr |-> p + i * l.size, size |-> l.size]}
  BY <1>3, <1>8, <1>10
<1> QED
  BY <1>9, <1>11, <1>12 DEF Alloc!AllocSmall, Alloc!Small, Alloc!Span, Run, AbsPages

\* Processor c gives its block back.
LEMMA OneLess ==
  ASSUME NEW H, NEW P, NEW H2, NEW P2, Now(H, P), Now(H2, P2)', NEW c \in CPU, NEW l,
         loc' = [loc EXCEPT ![c] = l], live' = live, l.ptr = NULL,
         NEW x, Own(loc[c], c) = {x}
  PROVE  Owned' = Owned \ {Bare(x)} /\ Bare(x) \in Owned
<1> DEFINE BS == BlocksOf(live, loc)
<1>1. Own(l, c) = {}
  BY DEF Own
<1>2. x.cpu = c /\ x \notin live
  <2>1. Own(loc[c], c) \cap live = {}
    BY ProcFacts
  <2> QED
    BY <2>1, OwnFacts
<1>3. BlocksOf(live', loc') = BS \ {x} /\ x \in BS
  <2>1. SplitBy(BS, live, {x}, loc, c) /\ SplitBy(BlocksOf(live', loc'), live, {}, loc, c)
    BY <1>1, OwnedStep
  <2> QED
    BY ONLY <2>1, <1>2 DEF SplitBy
<1>4. ASSUME NEW a \in BS, a # x PROVE Bare(a) # Bare(x)
  <2>1. World(mem, head, pagehead, FreshOf(pc, loc), BS, H, P)
    BY ProcFacts
  <2> HIDE DEF BS
  <2>2. Off(a.ptr, a.size, x.ptr, x.size)
    BY <1>3, <1>4, <2>1, BodiesOff
  <2>3. a.ptr \in Int /\ a.size \in Nat \ {0} /\ x.ptr \in Int /\ x.size \in Nat \ {0}
    BY <1>3, <1>4, <2>1, BlockFacts
  <2>4. a.ptr # x.ptr
    BY <2>2, <2>3 DEF Off
  <2>5. Bare(a).ptr = a.ptr /\ Bare(x).ptr = x.ptr
    BY DEF Bare
  <2> QED
    BY <2>4, <2>5
<1>5. Owned = BareOf(BS) /\ Owned' = BareOf(BS \ {x})
  BY <1>3, OwnedStep
<1> HIDE DEF BS
<1> QED
  BY <1>3, <1>4, <1>5 DEF BareOf

\* A small block is given back.
LEMMA FreeSmallView ==
  ASSUME NEW H, NEW P, NEW P2, Now(H, P), Now(H, P2)', NodesKept(mem, mem', H), NEW c \in CPU, NEW l,
         loc' = [loc EXCEPT ![c] = l], live' = live, loc[c].ptr # NULL, l.ptr = NULL, loc[c].size \in SmallSize,
         PagesSame
  PROVE  Alloc!FreeSmall
<1>1. PICK x : Own(loc[c], c) = {x} /\ x.size = loc[c].size
  BY OwnBlock
<1>2. Owned' = Owned \ {Bare(x)} /\ Bare(x) \in Owned
  BY <1>1, OneLess
<1>3. HeapFree' = HeapFree /\ AbsPages' = AbsPages
  BY SameHeap DEF HeapSame, PagesSame
<1>4. Bare(x).size \in {s \in SizeClass : s <= MaxSmall}
  BY <1>1 DEF Bare, SmallSize
<1> QED
  BY <1>2, <1>3, <1>4 DEF Alloc!FreeSmall, Alloc!Small, AbsPages

\* allockpage takes the first page of the node n off the free memory.
LEMMA TakePageFree ==
  ASSUME NEW m, NEW h, NEW ph, NEW fr, NEW BS, NEW H, NEW P, World(m, h, ph, fr, BS, H, P),
         NEW n \in H, m[n].size >= PageSize
  PROVE  /\ FreeIn(TakePage(m, h, n), HeadAfterTakePage(m, h, n)) = FreeIn(m, h) \ Run(n, PageSize)
         /\ n \in FreeIn(m, h) /\ Run(n, PageSize) \subseteq FreeIn(m, h)
         /\ Nodes(TakePage(m, h, n), HeadAfterTakePage(m, h, n)) \subseteq H \cup {n + PageSize}
<1> DEFINE k == TakePage(m, h, n)
           h2 == HeadAfterTakePage(m, h, n)
           t == n + PageSize
<1>1. /\ m \in Memory /\ List(m, h, H) /\ PageSize \in Nat \ {0} /\ HeapStart \in Int /\ HeapEnd \in Int
      /\ n \in Granule /\ n \in Int /\ m[n].size \in Nat \ {0} /\ n + m[n].size <= HeapEnd
  BY PageSizePos, NodeFacts, HeapAssumption DEF World, HeapInv
<1>2. \A o \in H : o \in Int /\ m[o].size \in Nat \ {0}
  BY NodeFacts
<1>3. \A o \in H : o # n => Off(o, m[o].size, n, m[n].size)
  BY DEF World, SpanInv
<1>4. FreeIn(m, h) = FreeOf(m, H)
  BY <1>1 DEF List, FreeIn, FreeOf
<1>5. n \in FreeOf(m, H) /\ Run(n, PageSize) \subseteq FreeOf(m, H)
  <2>1. n \in Run(n, m[n].size) /\ Run(n, PageSize) \subseteq Run(n, m[n].size)
    BY <1>1 DEF Run
  <2> QED
    BY <2>1 DEF FreeOf
<1>6. \A o \in H \ {n} : Run(o, m[o].size) \cap Run(n, PageSize) = {}
  BY <1>1, <1>2, <1>3 DEF Off, Run
<1>7. CASE m[n].size = PageSize
  <2>1. PageUnlinked(m, k, h2, H, n)
    BY <1>1, <1>7, TakePageUnlinks
  <2> HIDE DEF k, h2
  <2>2. FreeIn(k, h2) = FreeOf(k, H \ {n})
    BY <2>1 DEF PageUnlinked, List, FreeIn, FreeOf
  <2>3. \A o \in H \ {n} : Run(o, k[o].size) = Run(o, m[o].size)
    BY <2>1 DEF PageUnlinked
  <2>4. FreeOf(k, H \ {n}) = FreeOf(m, H) \ Run(n, PageSize)
    BY <2>3, <1>6, <1>7 DEF FreeOf
  <2>5. Nodes(k, h2) \subseteq H \cup {n + PageSize}
    BY <2>1 DEF PageUnlinked, List
  <2> QED
    BY <2>2, <2>4, <2>5, <1>4, <1>5 DEF k, h2
<1>8. CASE m[n].size # PageSize
  <2>1. t \in Granule /\ t \in Int /\ t < n + m[n].size /\ n < t
    BY <1>1, <1>8 DEF Granule
  <2>2. t \notin H
    <3>1. ASSUME t \in H PROVE FALSE
      <4>1. Off(t, m[t].size, n, m[n].size) /\ m[t].size \in Nat \ {0}
        BY <3>1, <2>1, <1>1, <1>2, <1>3
      <4> QED
        BY <4>1, <2>1, <1>1 DEF Off
    <3> QED
      BY <3>1
  <2>3. PageSplit(m, k, h2, H, n)
    <3>1. n + PageSize \in Granule \ H
      BY <2>1, <2>2
    <3> QED
      BY ONLY <3>1, <1>1, <1>8, n \in H, TakePageSplits DEF k, h2
  <2> HIDE DEF k, h2
  <2>4. FreeIn(k, h2) = FreeOf(k, (H \ {n}) \cup {t})
    BY <2>3 DEF PageSplit, List, FreeIn, FreeOf
  <2>5. /\ \A o \in H \ {n} : Run(o, k[o].size) = Run(o, m[o].size)
        /\ k[t].size = m[n].size - PageSize
    BY <2>3 DEF PageSplit
  <2>6. Run(t, k[t].size) = Run(n, m[n].size) \ Run(n, PageSize)
    BY <2>1, <2>5, <1>1, SMTT(30) DEF Run
  <2>7. FreeOf(k, (H \ {n}) \cup {t}) = FreeOf(m, H) \ Run(n, PageSize)
    <3>1. FreeOf(k, (H \ {n}) \cup {t}) = FreeOf(k, H \ {n}) \cup Run(t, k[t].size)
      BY DEF FreeOf
    <3>2. FreeOf(k, H \ {n}) = FreeOf(m, H \ {n})
      BY <2>5 DEF FreeOf
    <3>3. FreeOf(m, H) = FreeOf(m, H \ {n}) \cup Run(n, m[n].size)
      BY DEF FreeOf
    <3>4. FreeOf(m, H \ {n}) \cap Run(n, PageSize) = {}
      BY <1>6 DEF FreeOf
    <3> QED
      BY <3>1, <3>2, <3>3, <3>4, <2>6
  <2>8. Nodes(k, h2) \subseteq H \cup {n + PageSize}
    BY <2>3 DEF PageSplit, List
  <2> QED
    BY <2>4, <2>7, <2>8, <1>4, <1>5 DEF k, h2
<1> QED
  BY <1>7, <1>8

\* A node or a page that is new starts where the node n did, or a page further.
StartsFrom(n) ==
  /\ Nodes(mem', head') \subseteq Nodes(mem, head) \cup {n + PageSize}
  /\ HeapFree' = HeapFree \ Run(n, PageSize)
  /\ \A c \in CPU : AbsPages'[c] \subseteq AbsPages[c] \cup {n}

\* allockpage gives processor c a page.
LEMMA AllockpageView ==
  ASSUME NEW H, NEW P, Now(H, P), NEW c \in CPU, Allockpage(c)
  PROVE  \/ Alloc!TakePage(c) /\ \E n \in Nodes(mem, head) : StartsFrom(n)
         \/ HeapSame /\ PagesSame /\ OwnedSame /\ UNCHANGED <<mem, head>>
<1>1. PICK H2 : Now(H2, P)'
  BY AllockpageStep
<1>2. PICK label : /\ pc[c] \in {"first_page", "new_page"} /\ label \in {"first_init", "new_init"}
                   /\ pc' = [pc EXCEPT ![c] = label] /\ UNCHANGED <<pagehead, live>>
  BY DEF Allockpage, At, Goto
<1>3. /\ loc[c] \in Locals /\ loc[c].ptr = NULL
      /\ World(mem, head, pagehead, FreshOf(pc, loc), BlocksOf(live, loc), H, P)
      /\ FreshAt(pc[c], loc[c]) = NULL /\ FreshOf(pc, loc)[c] = NULL /\ pc \in [CPU -> PC] /\ loc \in [CPU -> Locals]
  BY <1>2, ProcFacts DEF Shape, FreshAt, FreshOf
<1>4. ASSUME NEW n \in Int, NEW l, l = [loc[c] EXCEPT !.ph = n], loc' = [loc EXCEPT ![c] = l]
      PROVE  OwnedSame /\ FreshOf(pc', loc') = [FreshOf(pc, loc) EXCEPT ![c] = n] /\ FreshAt(label, l) = n
  <2>1. l.ph = n /\ l.ptr = NULL
    BY <1>3, <1>4 DEF Locals
  <2>2. Own(l, c) = {} /\ Own(loc[c], c) = {} /\ FreshAt(label, l) = n
    BY <1>2, <1>3, <2>1 DEF Own, FreshAt
  <2>3. live' \cup Own(l, c) = live \cup Own(loc[c], c)
    BY <2>2, <1>2
  <2>4. OwnedSame
    BY ONLY <2>3, <1>1, <1>4, Now(H, P), c \in CPU, SameOwned
  <2>5. FreshIs(FreshOf(pc, loc), FreshOf(pc', loc'), c, FreshAt(label, l))
    BY <1>2, <1>3, <1>4, FreshStep
  <2> QED
    BY <2>2, <2>4, <2>5 DEF FreshIs
<1>5. CASE \E n \in PageFits(mem) :
             /\ First(mem, head, n, PageFits(mem)) /\ mem' = TakePage(mem, head, n)
             /\ head' = HeadAfterTakePage(mem, head, n) /\ loc' = [loc EXCEPT ![c] = [loc[c] EXCEPT !.ph = n]]
  <2>1. PICK n \in PageFits(mem) :
             /\ First(mem, head, n, PageFits(mem)) /\ mem' = TakePage(mem, head, n)
             /\ head' = HeadAfterTakePage(mem, head, n) /\ loc' = [loc EXCEPT ![c] = [loc[c] EXCEPT !.ph = n]]
    BY <1>5
  <2>2. n \in H /\ mem[n].size >= PageSize /\ n \in Int /\ n # NULL
    BY <1>3, <2>1, ListsAre, GranuleInt DEF First, PageFits
  <2>3. /\ HeapFree' = HeapFree \ Run(n, PageSize) /\ n \in HeapFree /\ Run(n, PageSize) \subseteq HeapFree
    BY <1>3, <2>1, <2>2, TakePageFree, Seen
  <2>4. PICK l : l = [loc[c] EXCEPT !.ph = n]
    OBVIOUS
  <2>5. OwnedSame /\ FreshOf(pc', loc') = [FreshOf(pc, loc) EXCEPT ![c] = n]
    BY <2>1, <2>2, <2>4, <1>4
  <2>6. ASSUME NEW fr, fr = FreshOf(pc, loc), NEW f2, f2 = FreshOf(pc', loc'), NEW A, A = AbsPages,
               NEW A2, A2 = AbsPages'
        PROVE  A2 = [A EXCEPT ![c] = @ \cup {n}]
    <3>1. fr[c] = NULL /\ fr \in [CPU -> Int] /\ f2 = [fr EXCEPT ![c] = n]
      BY <1>3, <2>5, <2>6 DEF World, PageInv
    <3>2. A = [e \in CPU |-> Pages(P, fr, e)]
      BY <2>6, AllShown, Seen DEF Now, Shown
    <3>3. A2 = [e \in CPU |-> Pages(P, f2, e)]
      <4>1. All(mem', head', pagehead', pc', loc', live', H2, P)
        BY <1>1 DEF Now
      <4>2. Shown(mem', head', pagehead', pc', loc', live', H2, P)
        BY <4>1, AllShown
      <4> QED
        BY <4>2, <2>6, Seen DEF Shown
    <3>4. Pages(P, f2, c) = Pages(P, fr, c) \cup {n} /\ \A e \in CPU \ {c} : Pages(P, f2, e) = Pages(P, fr, e)
      BY <3>1, <2>2 DEF Pages
    <3> QED
      BY ONLY <3>2, <3>3, <3>4, c \in CPU
  <2>7. AbsPages' = [AbsPages EXCEPT ![c] = @ \cup {n}]
    BY <2>6
  <2>8. Alloc!TakePage(c)
    BY <2>3, <2>5, <2>7 DEF Alloc!TakePage, Alloc!Span, Run, AbsPages, OwnedSame
  <2>9. Nodes(mem', head') \subseteq Nodes(mem, head) \cup {n + PageSize} /\ n \in Nodes(mem, head)
    BY <1>3, <2>1, <2>2, TakePageFree, ListsAre
  <2>10. \A d \in CPU : AbsPages'[d] \subseteq AbsPages[d] \cup {n}
    BY <2>7 DEF AbsPages
  <2> QED
    BY <2>3, <2>8, <2>9, <2>10 DEF StartsFrom
<1>6. CASE loc' = [loc EXCEPT ![c] = [loc[c] EXCEPT !.ph = NULL]] /\ UNCHANGED <<mem, head>>
  <2>1. PICK l : l = [loc[c] EXCEPT !.ph = NULL]
    OBVIOUS
  <2>2. loc' = [loc EXCEPT ![c] = l] /\ NULL \in Int
    BY <1>6, <2>1, GranuleInt
  <2>3. OwnedSame /\ FreshAt(label, l) = FreshAt(pc[c], loc[c])
    BY <1>3, <1>4, <2>1, <2>2
  <2>4. PagesSame
    BY ONLY <1>1, <1>2, <2>2, <2>3, Now(H, P), c \in CPU, NoPageChange
  <2>5. HeapSame
    BY <1>6, Seen DEF HeapSame
  <2> QED
    BY <2>3, <2>4, <2>5, <1>6
<1> QED
  BY <1>5, <1>6 DEF Allockpage, SetLocals

\* kallocHugeMemory takes the block and its header off the free memory.
LEMMA TakeHugeFree ==
  ASSUME NEW m, NEW h, NEW ph, NEW fr, NEW BS, NEW H, NEW P, World(m, h, ph, fr, BS, H, P),
         NEW n \in H, NEW s \in Nat, m[n].size > s + 1, NEW k, List(k, h, H),
         NEW hd, hd = HugeBlock(m, n, s) - 1, Shrunk(m, k, H, n, hd - n)
  PROVE  /\ FreeIn(k, h) = FreeIn(m, h) \ Run(hd, s + 1)
         /\ hd \in FreeIn(m, h) /\ Run(hd, s + 1) \subseteq FreeIn(m, h)
<1>1. n \in Int /\ m[n].size \in Nat \ {0}
  BY NodeFacts
<1>2. \A o \in H : o \in Int /\ m[o].size \in Nat \ {0}
  BY NodeFacts
<1>3. \A o \in H : o # n => Off(o, m[o].size, n, m[n].size)
  BY DEF World, SpanInv
<1>4. hd \in Int /\ n < hd /\ hd + s + 1 = n + m[n].size
  BY <1>1 DEF HugeBlock
<1>5. FreeIn(m, h) = FreeOf(m, H) /\ FreeIn(k, h) = FreeOf(k, H)
  BY DEF World, HeapInv, List, FreeIn, FreeOf
<1>6. /\ Run(n, k[n].size) = Run(n, m[n].size) \ Run(hd, s + 1)
      /\ hd \in Run(n, m[n].size) /\ Run(hd, s + 1) \subseteq Run(n, m[n].size)
  <2>1. k[n].size = hd - n
    BY DEF Shrunk
  <2> QED
    BY <2>1, <1>1, <1>4 DEF Run
<1>7. \A o \in H \ {n} : Run(o, k[o].size) = Run(o, m[o].size) /\ Run(o, m[o].size) \cap Run(hd, s + 1) = {}
  <2>1. ASSUME NEW o \in H \ {n} PROVE Run(o, m[o].size) \cap Run(hd, s + 1) = {}
    <3>1. o \in Int /\ m[o].size \in Nat \ {0} /\ Off(o, m[o].size, n, m[n].size)
      BY <1>2, <1>3
    <3> QED
      BY <3>1, <1>1, <1>4 DEF Off, Run
  <2> QED
    BY <2>1 DEF Shrunk
<1>8. FreeOf(k, H) = FreeOf(m, H) \ Run(hd, s + 1)
  BY <1>6, <1>7 DEF FreeOf
<1>9. hd \in FreeOf(m, H) /\ Run(hd, s + 1) \subseteq FreeOf(m, H)
  BY <1>6 DEF FreeOf
<1> QED
  BY <1>5, <1>8, <1>9

\* kfree gives the huge block b and its header back to the free memory, when a heap node ends
\* where the header starts.
HugeFreed(m, h, H, b, hd, s, u, before, after, k, h2, n) ==
  /\ hd = b.ptr - 1 /\ s = b.size /\ u = memset0(m, hd, s + 1) /\ FreeArgs(u, H, b, before, after)
  /\ k = FreeHuge(u, h, hd, s, before, after) /\ h2 = HeadAfterFreeHuge(u, h, hd, s, before, after)
  /\ n \in H /\ n + m[n].size = hd

\* The block and its header are free again, and nothing else.
LEMMA FreeHugeFree ==
  ASSUME NEW m, NEW h, NEW ph, NEW fr, NEW BS, NEW H, NEW P, World(m, h, ph, fr, BS, H, P),
         NEW b \in Huge(BS), NEW hd, NEW s, NEW u, NEW before, NEW after, NEW k, NEW h2, NEW n,
         HugeFreed(m, h, H, b, hd, s, u, before, after, k, h2, n)
  PROVE  FreeIn(k, h2) = FreeIn(m, h) \cup Run(hd, s + 1) /\ Nodes(k, h2) \subseteq H \ {hd + 1 + s}
<1>0. /\ hd = b.ptr - 1 /\ s = b.size /\ u = memset0(m, hd, s + 1) /\ FreeArgs(u, H, b, before, after)
      /\ k = FreeHuge(u, h, hd, s, before, after) /\ h2 = HeadAfterFreeHuge(u, h, hd, s, before, after)
      /\ n \in H /\ n + m[n].size = hd
  BY DEF HugeFreed
<1>1. /\ b.ptr \in Int /\ s \in Nat \ {0} /\ HeapStart < b.ptr /\ b.ptr + s <= HeapEnd
      /\ HeapStart \in Int /\ HeapEnd \in Int /\ b \in BS /\ m \in Memory /\ List(m, h, H)
  BY <1>0, BlockFacts, HeapAssumption DEF Huge, World, HeapInv
<1>2. hd \in Int /\ s + 1 \in Int /\ s \in Int /\ NULL \notin Granule
  BY <1>0, <1>1, GranuleInt
<1>3. \A o \in H : o \in Granule /\ o \in Int /\ m[o].size \in Nat \ {0} /\ Off(o, m[o].size, hd, s + 1)
  BY <1>0, NodeFacts DEF World, SpanInv
<1>4. u \in Memory /\ \A g \in Granule : (g < hd \/ hd + (s + 1) <= g) => u[g] = m[g]
  BY <1>0, <1>1, <1>2, MemsetCells
<1>5. \A o \in H : u[o] = m[o]
  BY <1>0, <1>1, <1>2, <1>3, <1>4 DEF Off
<1>6. List(u, h, H)
  <2>1. \A o \in H : u[o].next = m[o].next
    BY <1>0, <1>5
  <2> QED
    BY ONLY <2>1, <1>1, <1>4, ListFrame
<1>7. \A o, q \in H : o # q => Off(o, m[o].size, q, m[q].size)
  BY <1>0 DEF World, SpanInv
<1>8. n < hd /\ n \in Int /\ m[n].size \in Nat \ {0}
  BY <1>0, <1>3
<1>9. before = n
  <2>1. before \in H /\ before < hd /\ n <= before
    BY <1>0, <1>8 DEF FreeArgs, Highest
  <2>2. ASSUME before # n PROVE FALSE
    <3>1. Off(n, m[n].size, before, m[before].size) /\ before \in Int /\ m[before].size \in Nat \ {0}
      BY <1>0, <2>1, <2>2, <1>3, <1>7
    <3> QED
      BY <1>0, <3>1, <2>1, <2>2, <1>8 DEF Off
  <2> QED
    BY <1>0, <2>2
<1>10. JoinsBefore(u, before, hd)
  BY <1>0, <1>2, <1>3, <1>5, <1>9 DEF JoinsBefore
<1>11. FreeIn(m, h) = FreeOf(m, H)
  BY <1>0, <1>1 DEF List, FreeIn, FreeOf
<1>12. ASSUME NEW H2, NEW z, FreedNode(u, k, h2, H, H2, n, z)
       PROVE  FreeIn(k, h2) = FreeOf(m, H2 \ {n}) \cup Run(n, z) /\ Nodes(k, h2) = H2
  <2>1. FreeIn(k, h2) = FreeOf(k, H2)
    BY <1>0, <1>12 DEF FreedNode, List, FreeIn, FreeOf
  <2>2. FreeOf(k, H2) = FreeOf(k, H2 \ {n}) \cup Run(n, k[n].size)
    BY <1>0, <1>12 DEF FreedNode, FreeOf
  <2>3. \A o \in H2 \ {n} : k[o].size = m[o].size
    BY <1>0, <1>5, <1>12 DEF FreedNode
  <2>4. FreeOf(k, H2 \ {n}) = FreeOf(m, H2 \ {n})
    BY <1>0, <2>3 DEF FreeOf
  <2>5. Nodes(k, h2) = H2
    BY <1>12 DEF FreedNode, List
  <2> QED
    BY <1>0, <2>1, <2>2, <2>4, <2>5, <1>12 DEF FreedNode
<1>13. FreeOf(m, H) = FreeOf(m, H \ {n}) \cup Run(n, m[n].size)
  BY <1>0 DEF FreeOf
<1>14. CASE hd + 1 + s # after
  <2>1. FreedNode(u, k, h2, H, H, n, u[n].size + s + 1)
    BY ONLY <1>2, <1>6, <1>9, <1>10, <1>14, <1>0, FreeHugeBefore
  <2>2. Run(n, u[n].size + s + 1) = Run(n, m[n].size) \cup Run(hd, s + 1)
    BY <1>0, <1>1, <1>2, <1>5, <1>8 DEF Run
  <2>3. hd + 1 + s \notin H
    <3>1. ASSUME hd + 1 + s \in H PROVE FALSE
      <4>1. after \in H /\ hd < after /\ after <= hd + 1 + s
        BY <1>0, <1>1, <1>2, <3>1 DEF FreeArgs, Lowest
      <4>2. Off(after, m[after].size, hd, s + 1) /\ after \in Int /\ m[after].size \in Nat \ {0}
        BY <4>1, <1>3
      <4> QED
        BY <4>1, <4>2, <1>1, <1>2, <1>14 DEF Off
    <3> QED
      BY <3>1
  <2>4. FreeIn(k, h2) = FreeOf(m, H \ {n}) \cup Run(n, u[n].size + s + 1) /\ Nodes(k, h2) = H
    BY ONLY <2>1, <1>12
  <2> QED
    BY <2>2, <2>3, <2>4, <1>11, <1>13
<1>15. CASE hd + 1 + s = after
  <2>1. after \in H /\ n # after
    <3>1. after # NULL
      BY <1>0, <1>1, <1>2, <1>15, HeapAssumption DEF NULL
    <3>2. after \in H /\ hd < after
      BY <1>0, <3>1 DEF FreeArgs, Lowest
    <3> QED
      BY <1>0, <3>2, <1>2, <1>8
  <2>2. FreedNode(u, k, h2, H, H \ {after}, n, u[n].size + s + 1 + u[after].size)
    BY ONLY <2>1, <1>2, <1>6, <1>9, <1>10, <1>15, <1>0, FreeHugeBoth
  <2>3. after \in Int /\ m[after].size \in Nat \ {0}
    BY <1>0, <2>1, <1>3
  <2>4. Run(n, u[n].size + s + 1 + u[after].size)
          = Run(n, m[n].size) \cup Run(hd, s + 1) \cup Run(after, m[after].size)
    <3>1. u[n].size = m[n].size /\ u[after].size = m[after].size
      BY <1>0, <2>1, <1>5
    <3> QED
      BY <1>0, <3>1, <2>3, <1>1, <1>2, <1>8, <1>15 DEF Run
  <2>5. FreeOf(m, H \ {n}) = FreeOf(m, (H \ {after}) \ {n}) \cup Run(after, m[after].size)
    BY <1>0, <2>1 DEF FreeOf
  <2>6. /\ FreeIn(k, h2) = FreeOf(m, (H \ {after}) \ {n}) \cup Run(n, u[n].size + s + 1 + u[after].size)
        /\ Nodes(k, h2) = H \ {after}
    BY ONLY <2>2, <1>12
  <2> QED
    BY ONLY <2>4, <2>5, <2>6, <1>11, <1>13, <1>15
<1> QED
  BY <1>0, <1>14, <1>15

\* The sizes that kalloc hands out.
SizesBounded == (\A c \in CPU : loc[c].size <= MaxHuge) /\ (\A b \in live : b.size <= MaxHuge)

\* No call is in progress at first.
LEMMA SizesInit == Init => SizesBounded
<1>1. MaxHuge \in Nat
  BY ClientAssumption, SizeAssumption
<1> QED
  BY <1>1 DEF Init, SizesBounded, NoLocals

\* A request above MaxHuge is turned away.
LEMMA SizesNext ==
  ASSUME DataInv, SizesBounded, [Next]_vars
  PROVE  SizesBounded'
<1>1. MaxHuge \in Nat /\ MaxHuge \in SizeClass /\ MaxSmall \in Nat /\ MaxSmall < MaxHuge
  BY ClientAssumption, SizeAssumption
<1>2. loc \in [CPU -> Locals]
  BY DEF DataInv, Now, All
<1>3. ASSUME NEW c \in CPU, NEW l, loc' = [loc EXCEPT ![c] = l], l.size <= MaxHuge, \A b \in live' : b.size <= MaxHuge
      PROVE  SizesBounded'
  BY <1>2, <1>3 DEF SizesBounded
<1>4. CASE UNCHANGED <<loc, live>>
  BY <1>4 DEF SizesBounded
<1>5. ASSUME NEW c \in CPU, KallocSmall(c) PROVE SizesBounded'
  <2>1. PICK s \in SizeClass : /\ s <= MaxSmall /\ loc' = [loc EXCEPT ![c] = [NoLocals EXCEPT !.size = s]]
                               /\ live' = live
    BY <1>5 DEF KallocSmall, SetLocals
  <2>2. [NoLocals EXCEPT !.size = s].size = s /\ s <= MaxHuge
    BY <2>1, <1>1, ClassFacts DEF NoLocals
  <2> QED
    BY <2>1, <2>2, <1>3 DEF SizesBounded
<1>6. ASSUME NEW c \in CPU, KallocHuge(c) PROVE SizesBounded'
  <2>1. PICK n \in Request, s \in SizeClass :
          /\ n <= MaxHuge /\ RoundsTo(n, s) /\ loc' = [loc EXCEPT ![c] = [NoLocals EXCEPT !.size = s]]
          /\ live' = live
    BY <1>6 DEF KallocHuge, SetLocals
  <2>2. [NoLocals EXCEPT !.size = s].size = s /\ s <= MaxHuge
    BY <2>1, <1>1 DEF NoLocals, RoundsTo
  <2> QED
    BY <2>1, <2>2, <1>3 DEF SizesBounded
<1>7. NoLocals.size <= MaxHuge
  BY <1>1 DEF NoLocals
<1>8. ASSUME NEW c \in CPU, KallocTooBig(c) PROVE SizesBounded'
  BY <1>3, <1>7, <1>8 DEF KallocTooBig, SetLocals, SizesBounded
<1>9. ASSUME NEW c \in CPU, Kfree(c) PROVE SizesBounded'
  <2>1. PICK b \in live : /\ live' = live \ {b}
                          /\ loc' = [loc EXCEPT ![c] = [NoLocals EXCEPT !.ptr = b.ptr, !.size = b.size]]
    BY <1>9, Zenon DEF Kfree, SetLocals
  <2>2. [NoLocals EXCEPT !.ptr = b.ptr, !.size = b.size].size = b.size
    BY DEF NoLocals
  <2> QED
    BY <2>1, <2>2, <1>3 DEF SizesBounded
<1>10. ASSUME NEW c \in CPU, Return(c) PROVE SizesBounded'
  <2>1. /\ loc' = [loc EXCEPT ![c] = NoLocals]
        /\ live' = live \/ live' = live \cup {[ptr |-> loc[c].ptr, size |-> loc[c].size, cpu |-> c]}
    BY <1>10 DEF Return, SetLocals
  <2> QED
    BY <2>1, <1>3, <1>7 DEF SizesBounded
\* The other steps leave the size and the blocks of clients alone, or are done.
<1>11. ASSUME NEW c \in CPU, live' = live, NEW x, NEW y, NEW z, NEW w,
              \/ loc' = loc \/ loc' = [loc EXCEPT ![c] = NoLocals]
              \/ loc' = [loc EXCEPT ![c] = [loc[c] EXCEPT !.ph = x]]
              \/ loc' = [loc EXCEPT ![c] = [loc[c] EXCEPT !.ptr = y]]
              \/ loc' = [loc EXCEPT ![c] = [loc[c] EXCEPT !.ptr = y, !.ph = x]]
              \/ loc' = [loc EXCEPT ![c] = [loc[c] EXCEPT !.ph = x, !.before = z, !.after = w]]
       PROVE  SizesBounded'
  <2>1. /\ [loc[c] EXCEPT !.ph = x].size = loc[c].size
        /\ [loc[c] EXCEPT !.ptr = y].size = loc[c].size
        /\ [loc[c] EXCEPT !.ptr = y, !.ph = x].size = loc[c].size
        /\ [loc[c] EXCEPT !.ph = x, !.before = z, !.after = w].size = loc[c].size
    BY <1>2 DEF Locals
  <2>2. loc[c].size <= MaxHuge /\ \A b \in live' : b.size <= MaxHuge
    BY <1>11 DEF SizesBounded
  <2> QED
    BY <2>1, <2>2, <1>3, <1>4, <1>7, <1>11
<1>12. ASSUME NEW c \in CPU,
               \/ AllockpageLock(c) \/ FirstLock(c) \/ SearchLock(c) \/ NeedPage(c) \/ NoPage(c) \/ Zero(c)
               \/ HugeLock(c) \/ KfreeLock(c) \/ KfreeNotInPage(c) \/ KfreeHugeLock(c)
        PROVE  SizesBounded'
  <2>1. UNCHANGED <<loc, live>>
    BY <1>12 DEF AllockpageLock, FirstLock, SearchLock, NeedPage, NoPage, Zero, HugeLock, KfreeLock, KfreeNotInPage,
                 KfreeHugeLock
  <2> QED
    BY <2>1, <1>4
<1>13. ASSUME NEW c \in CPU, FirstPanic(c) \/ FastPanic(c) \/ KfreePanic(c) \/ KfreeHugePanic(c) \/ Stray(c)
        PROVE  SizesBounded'
  <2>1. UNCHANGED <<loc, live>>
    BY <1>13, Zenon DEF FirstPanic, FastPanic, KfreePanic, KfreeHugePanic, Stray, Panic
  <2> QED
    BY <2>1, <1>4
<1>14. ASSUME NEW c \in CPU, Allockpage(c) PROVE SizesBounded'
  <2>1. live' = live /\ \E x : loc' = [loc EXCEPT ![c] = [loc[c] EXCEPT !.ph = x]]
    BY <1>14, Zenon DEF Allockpage, SetLocals
  <2> QED
    BY <2>1, <1>11
<1>15. ASSUME NEW c \in CPU, FirstInit(c) \/ FindPage(c) PROVE SizesBounded'
  <2>1. live' = live /\ \E x : loc' = [loc EXCEPT ![c] = [loc[c] EXCEPT !.ph = x]]
    BY <1>15, Zenon DEF FirstInit, FindPage, SetLocals
  <2> QED
    BY <2>1, <1>11
<1>16. ASSUME NEW c \in CPU, FastPath(c) \/ InsertPage(c) PROVE SizesBounded'
  <2>1. live' = live /\ \E x, y : loc' = [loc EXCEPT ![c] = [loc[c] EXCEPT !.ptr = y, !.ph = x]]
    BY <1>16, Zenon DEF FastPath, InsertPage, SetLocals
  <2> QED
    BY <2>1, <1>11
<1>17. ASSUME NEW c \in CPU, ReusePage(c) \/ KallocHugeMemory(c) PROVE SizesBounded'
  <2>1. live' = live /\ (loc' = loc \/ \E y : loc' = [loc EXCEPT ![c] = [loc[c] EXCEPT !.ptr = y]])
    BY <1>17, Zenon DEF ReusePage, KallocHugeMemory, SetLocals
  <2> QED
    BY <2>1, <1>11
<1>18. ASSUME NEW c \in CPU, KfreeScan(c) PROVE SizesBounded'
  <2>1. PICK x, z, w : loc' = [loc EXCEPT ![c] = [loc[c] EXCEPT !.ph = x, !.before = z, !.after = w]]
    BY <1>18, Zenon DEF KfreeScan, SetLocals
  <2>2. live' = live
    BY <1>18 DEF KfreeScan
  <2> QED
    BY ONLY <2>1, <2>2, <1>11, c \in CPU
<1>19. ASSUME NEW c \in CPU, KfreeLink(c) \/ KfreeHuge(c) PROVE SizesBounded'
  <2>1. live' = live /\ loc' = [loc EXCEPT ![c] = NoLocals]
    BY <1>19, Zenon DEF KfreeLink, KfreeHuge, SetLocals
  <2> QED
    BY <2>1, <1>11
<1>20. ASSUME NEW c \in CPU, Call(c) \/ Work(c) PROVE SizesBounded'
  BY <1>20, <1>5, <1>6, <1>8, <1>9, <1>10, <1>12, <1>13, <1>14, <1>15, <1>16, <1>17, <1>18, <1>19 DEF Call, Work
<1> QED
  BY <1>4, <1>20 DEF Next, vars

\* A step that AllocSpec does not see.
Unseen == HeapSame /\ PagesSame /\ OwnedSame

\* A step that moves the processor and its block within what AllocSpec shows of them.
LEMMA UnseenStep ==
  ASSUME NEW H, NEW P, Now(H, P), Now(H, P)', NodesKept(mem, mem', H), NEW c \in CPU, NEW label, NEW l,
         pc' = [pc EXCEPT ![c] = label], loc' = [loc EXCEPT ![c] = l], FreshAt(label, l) = FreshAt(pc[c], loc[c]),
         live' \cup Own(l, c) = live \cup Own(loc[c], c)
  PROVE  Unseen
<1>1. HeapSame
  BY SameHeap
<1>2. PagesSame
  BY NoPageChange
<1>3. OwnedSame
  BY SameOwned
<1> QED
  BY <1>1, <1>2, <1>3 DEF Unseen

\* Memory that does not change keeps the heap nodes.
LEMMA KeptStill ==
  ASSUME NEW H, mem' = mem
  PROVE  NodesKept(mem, mem', H)
BY DEF NodesKept

\* Steps that only move on.
LEMMA QuietView ==
  ASSUME NEW H, NEW P, Now(H, P), NEW c \in CPU,
         \/ AllockpageLock(c) \/ FirstLock(c) \/ SearchLock(c) \/ NeedPage(c) \/ NoPage(c)
         \/ HugeLock(c) \/ KfreeLock(c) \/ KfreeNotInPage(c) \/ KfreeHugeLock(c)
  PROVE  Unseen
<1>1. Now(H, P)' /\ loc = [loc EXCEPT ![c] = loc[c]]
  BY QuietStep, ProcFacts
<1>2. UNCHANGED <<mem, loc, live>>
  BY DEF AllockpageLock, FirstLock, SearchLock, NeedPage, NoPage, HugeLock, KfreeLock, KfreeNotInPage,
         KfreeHugeLock
<1>3. ASSUME NEW label, pc' = [pc EXCEPT ![c] = label], FreshAt(label, loc[c]) = FreshAt(pc[c], loc[c])
      PROVE  Unseen
  <2>1. NodesKept(mem, mem', H) /\ loc' = [loc EXCEPT ![c] = loc[c]] /\ live' \cup Own(loc[c], c) = live \cup Own(loc[c], c)
    BY <1>1, <1>2, KeptStill
  <2> QED
    BY ONLY <2>1, <1>1, <1>3, Now(H, P), c \in CPU, UnseenStep
<1>4. CASE AllockpageLock(c)
  <2>1. PICK label : /\ pc[c] \in {"first_heap", "new_heap"} /\ label \in {"first_page", "new_page"}
                     /\ pc' = [pc EXCEPT ![c] = label]
    BY <1>4 DEF AllockpageLock, At, Goto
  <2> QED
    BY <2>1, <1>3 DEF FreshAt
<1>5. CASE FirstLock(c)
  BY <1>3, <1>5 DEF FirstLock, At, Goto, FreshAt
<1>6. CASE SearchLock(c)
  BY <1>3, <1>6 DEF SearchLock, At, Goto, FreshAt
<1>7. CASE NeedPage(c)
  BY <1>3, <1>7 DEF NeedPage, At, Goto, FreshAt
<1>8. CASE NoPage(c)
  BY <1>3, <1>8 DEF NoPage, At, Goto, FreshAt
<1>9. CASE HugeLock(c)
  BY <1>3, <1>9 DEF HugeLock, At, Goto, FreshAt
<1>10. CASE KfreeLock(c)
  BY <1>3, <1>10 DEF KfreeLock, At, Goto, FreshAt
<1>11. CASE KfreeNotInPage(c)
  BY <1>3, <1>11 DEF KfreeNotInPage, At, Goto, FreshAt
<1>12. CASE KfreeHugeLock(c)
  BY <1>3, <1>12 DEF KfreeHugeLock, At, Goto, FreshAt
<1> QED
  BY <1>4, <1>5, <1>6, <1>7, <1>8, <1>9, <1>10, <1>11, <1>12

\* The client calls kalloc or kfree.
LEMMA CallView ==
  ASSUME NEW H, NEW P, Now(H, P), NEW c \in CPU, ~RemoteFree, Call(c)
  PROVE  Unseen
<1>1. Now(H, P)'
  BY CallStep, KfreeStep DEF Call
<1>2. pc[c] = "idle" /\ mem' = mem
  BY DEF Call, KallocSmall, KallocHuge, KallocTooBig, Kfree, At
<1>3. loc[c].ptr = NULL /\ FreshAt(pc[c], loc[c]) = NULL /\ NodesKept(mem, mem', H)
  BY <1>2, ProcFacts, KeptStill DEF Shape, FreshAt
<1>4. Own(loc[c], c) = {}
  BY <1>3 DEF Own
<1>5. CASE KallocSmall(c) \/ KallocHuge(c) \/ KallocTooBig(c)
  <2>1. PICK label, l : /\ label \in {"first_lock", "search_lock", "huge_lock", "ret"} /\ pc' = [pc EXCEPT ![c] = label]
                        /\ l.ptr = NULL /\ loc' = [loc EXCEPT ![c] = l] /\ live' = live
    <3>1. CASE KallocSmall(c)
      <4>1. PICK s : loc' = [loc EXCEPT ![c] = [NoLocals EXCEPT !.size = s]]
        BY <3>1, Zenon DEF KallocSmall, SetLocals
      <4>2. PICK label : label \in {"first_lock", "search_lock"} /\ pc' = [pc EXCEPT ![c] = label] /\ live' = live
        BY <3>1 DEF KallocSmall, Goto
      <4>3. [NoLocals EXCEPT !.size = s].ptr = NULL
        BY DEF NoLocals
      <4> QED
        BY <4>1, <4>2, <4>3
    <3>2. CASE KallocHuge(c)
      <4>1. PICK s : loc' = [loc EXCEPT ![c] = [NoLocals EXCEPT !.size = s]]
        BY <3>2, Zenon DEF KallocHuge, SetLocals
      <4>2. pc' = [pc EXCEPT ![c] = "huge_lock"] /\ live' = live
        BY <3>2 DEF KallocHuge, Goto
      <4>3. [NoLocals EXCEPT !.size = s].ptr = NULL
        BY DEF NoLocals
      <4> QED
        BY <4>1, <4>2, <4>3
    <3>3. CASE KallocTooBig(c)
      <4>1. pc' = [pc EXCEPT ![c] = "ret"] /\ live' = live /\ loc' = [loc EXCEPT ![c] = NoLocals]
        BY <3>3 DEF KallocTooBig, Goto, SetLocals
      <4>3. NoLocals.ptr = NULL
        BY DEF NoLocals
      <4> QED
        BY <4>1, <4>3
    <3> QED
      BY <1>5, <3>1, <3>2, <3>3
  <2>2. Own(l, c) = {} /\ FreshAt(label, l) = NULL
    BY <2>1 DEF Own, FreshAt
  <2>3. live' \cup Own(l, c) = live \cup Own(loc[c], c) /\ FreshAt(label, l) = FreshAt(pc[c], loc[c])
    BY <2>1, <2>2, <1>3, <1>4
  <2> QED
    BY ONLY <2>1, <2>3, <1>1, <1>3, Now(H, P), c \in CPU, UnseenStep
<1>6. CASE Kfree(c)
  <2>1. PICK b \in live : /\ b.cpu = c /\ live' = live \ {b}
                          /\ loc' = [loc EXCEPT ![c] = [NoLocals EXCEPT !.ptr = b.ptr, !.size = b.size]]
    BY <1>6, Zenon DEF Kfree, SetLocals
  <2>2. pc' = [pc EXCEPT ![c] = "free_lock"]
    BY <1>6 DEF Kfree, Goto
  <2>3. PICK l : l = [NoLocals EXCEPT !.ptr = b.ptr, !.size = b.size]
    OBVIOUS
  <2>4. l.ptr = b.ptr /\ l.size = b.size
    BY <2>3 DEF NoLocals
  <2>5. World(mem, head, pagehead, FreshOf(pc, loc), BlocksOf(live, loc), H, P) /\ b \in BlocksOf(live, loc)
    BY <2>1, ProcFacts DEF BlocksOf
  <2>6. b.ptr # NULL /\ b \in Block
    <3>1. b.ptr \in Int /\ HeapStart < b.ptr
      BY <2>5, BlockFacts
    <3> QED
      BY <3>1, <2>5, HeapAssumption DEF NULL, World, BlockInv
  <2>7. Own(l, c) = {b}
    BY <2>1, <2>4, <2>6 DEF Own, Block
  <2>8. live' \cup Own(l, c) = live \cup Own(loc[c], c) /\ FreshAt("free_lock", l) = FreshAt(pc[c], loc[c])
        /\ loc' = [loc EXCEPT ![c] = l]
    BY <2>1, <2>3, <2>7, <1>3, <1>4 DEF FreshAt
  <2> QED
    BY ONLY <2>2, <2>8, <1>1, <1>3, Now(H, P), c \in CPU, UnseenStep
<1> QED
  BY <1>5, <1>6 DEF Call

\* Steps that look for a page or a neighbour, or write into the block in hand.
LEMMA InHandView ==
  ASSUME NEW H, NEW P, Now(H, P), NEW c \in CPU, SlotLeft,
         FindPage(c) \/ Zero(c) \/ Return(c) \/ KfreeScan(c)
  PROVE  Unseen
<1>1. Now(H, P)' /\ NodesKept(mem, mem', H)
  <2>1. FindPage(c) => mem' = mem
    BY DEF FindPage
  <2> QED
    BY <2>1, FindPageStep, ZeroStep, ReturnStep, KfreeScanStep, KeptStill
<1>2. loc \in [CPU -> Locals] /\ loc[c] \in Locals /\ loc = [loc EXCEPT ![c] = loc[c]]
  BY ProcFacts
<1>3. ASSUME NEW label, NEW l, label \notin {"first_init", "new_init"}, pc[c] \notin {"first_init", "new_init"},
             pc' = [pc EXCEPT ![c] = label], loc' = [loc EXCEPT ![c] = l],
             live' \cup Own(l, c) = live \cup Own(loc[c], c)
      PROVE  Unseen
  <2>1. FreshAt(label, l) = FreshAt(pc[c], loc[c])
    BY <1>3 DEF FreshAt
  <2> QED
    BY ONLY <2>1, <1>1, <1>3, Now(H, P), c \in CPU, UnseenStep
<1>4. ASSUME NEW l, l.ptr = loc[c].ptr, l.size = loc[c].size PROVE Own(l, c) = Own(loc[c], c)
  BY <1>4 DEF Own
<1>5. CASE FindPage(c)
  <2>1. PICK p : loc' = [loc EXCEPT ![c] = [loc[c] EXCEPT !.ph = p]]
    BY <1>5, Zenon DEF FindPage, SetLocals
  <2>2. [loc[c] EXCEPT !.ph = p].ptr = loc[c].ptr /\ [loc[c] EXCEPT !.ph = p].size = loc[c].size
    BY <1>2 DEF Locals
  <2>3. pc[c] = "find" /\ pc' = [pc EXCEPT ![c] = "fast"] /\ live' = live
    BY <1>5 DEF FindPage, At, Goto
  <2> QED
    BY <2>1, <2>2, <2>3, <1>3, <1>4
<1>6. CASE Zero(c)
  <2>1. pc[c] = "zero" /\ pc' = [pc EXCEPT ![c] = "ret"] /\ live' = live /\ loc' = loc
    BY <1>6 DEF Zero, At, Goto
  <2> QED
    BY <2>1, <1>2, <1>3
<1>7. CASE KfreeScan(c)
  <2>1. PICK p, z, w : loc' = [loc EXCEPT ![c] = [loc[c] EXCEPT !.ph = p, !.before = z, !.after = w]]
    BY <1>7, Zenon DEF KfreeScan, SetLocals
  <2>2. /\ [loc[c] EXCEPT !.ph = p, !.before = z, !.after = w].ptr = loc[c].ptr
        /\ [loc[c] EXCEPT !.ph = p, !.before = z, !.after = w].size = loc[c].size
    BY <1>2 DEF Locals
  <2>3. pc[c] = "free_scan" /\ pc' = [pc EXCEPT ![c] = "free_link"] /\ live' = live
    BY <1>7 DEF KfreeScan, At, Goto
  <2> QED
    BY <2>1, <2>2, <2>3, <1>3, <1>4
<1>8. CASE Return(c)
  <2>1. /\ pc[c] = "ret" /\ pc' = [pc EXCEPT ![c] = "idle"] /\ loc' = [loc EXCEPT ![c] = NoLocals]
        /\ live' = live \cup Own(loc[c], c)
    BY <1>8 DEF Return, At, Goto, SetLocals, Own
  <2>2. Own(NoLocals, c) = {}
    BY DEF Own, NoLocals
  <2> QED
    BY <2>1, <2>2, <1>3
<1> QED
  BY <1>5, <1>6, <1>7, <1>8

\* A page is formatted and put on its list.
LEMMA ListedPages ==
  ASSUME NEW H, NEW P, NEW P2, Now(H, P), NEW c \in CPU, NEW p, p = loc[c].ph, p # NULL,
         pc[c] \in {"first_init", "new_init"}, Listed(H, P, P2, c, p),
         NEW label, NEW l, label \notin {"first_init", "new_init"},
         pc' = [pc EXCEPT ![c] = label], loc' = [loc EXCEPT ![c] = l]
  PROVE  PagesSame
<1>1. /\ pc \in [CPU -> PC] /\ loc \in [CPU -> Locals] /\ P \in [CPU -> SUBSET Granule]
      /\ FreshOf(pc, loc) \in [CPU -> Int]
  BY ProcFacts DEF World, PageInv
<1>2. FreshAt(label, l) = NULL /\ FreshAt(pc[c], loc[c]) = p
  BY DEF FreshAt
<1>3. FreshIs(FreshOf(pc, loc), FreshOf(pc', loc'), c, NULL)
  BY <1>1, <1>2, FreshStep
<1>4. FreshOf(pc, loc)[c] = p
  BY <1>2 DEF FreshOf
<1>5. ASSUME NEW fr, fr = FreshOf(pc, loc), NEW f2, f2 = FreshOf(pc', loc')
      PROVE  \A d \in CPU : Pages(P2, f2, d) = Pages(P, fr, d)
  <2>1. fr \in [CPU -> Int] /\ f2 = [fr EXCEPT ![c] = NULL] /\ fr[c] = p /\ P2 = [P EXCEPT ![c] = @ \cup {p}]
    BY <1>1, <1>3, <1>4, <1>5 DEF FreshIs, Listed, Gains
  <2> QED
    BY <2>1, <1>1 DEF Pages
<1>6. Now(H, P2)'
  BY DEF Listed
<1>7. \A d \in CPU : Pages(P2, FreshOf(pc', loc'), d) = Pages(P, FreshOf(pc, loc), d)
  BY <1>5
<1> QED
  BY ONLY <1>6, <1>7, Now(H, P), SamePages

\* The first page.
LEMMA FirstInitView ==
  ASSUME NEW H, NEW P, Now(H, P), NEW c \in CPU, FirstInit(c)
  PROVE  Unseen
<1>1. PICK P2 : Listed(H, P, P2, c, loc[c].ph)
  BY FirstInitStep
<1>2. /\ pc[c] = "first_init" /\ pc' = [pc EXCEPT ![c] = "search_lock"] /\ live' = live
      /\ loc[c].ph # NULL /\ loc' = [loc EXCEPT ![c] = [loc[c] EXCEPT !.ph = NULL]]
  BY DEF FirstInit, At, Goto, SetLocals
<1>3. PICK l : l = [loc[c] EXCEPT !.ph = NULL]
  OBVIOUS
<1>4. l.ptr = NULL /\ loc[c].ptr = NULL
  BY <1>2, <1>3, ProcFacts DEF Locals, Shape
<1>5. Own(l, c) = Own(loc[c], c) /\ loc' = [loc EXCEPT ![c] = l]
  BY <1>2, <1>3, <1>4 DEF Own
<1>6. PagesSame
  <2>1. /\ "search_lock" \notin {"first_init", "new_init"} /\ pc[c] \in {"first_init", "new_init"}
        /\ pc' = [pc EXCEPT ![c] = "search_lock"] /\ loc[c].ph # NULL
    BY <1>2
  <2>2. loc' = [loc EXCEPT ![c] = l]
    BY <1>5
  <2> QED
    BY ONLY <2>1, <2>2, <1>1, Now(H, P), c \in CPU, ListedPages
<1>7. Now(H, P2)' /\ NodesKept(mem, mem', H)
  BY <1>1 DEF Listed
<1>8. HeapSame
  BY <1>7, SameHeap
<1>9. OwnedSame
  <2>1. live' \cup Own(l, c) = live \cup Own(loc[c], c)
    BY <1>2, <1>5
  <2> QED
    BY ONLY <2>1, <1>5, <1>7, Now(H, P), c \in CPU, SameOwned
<1> QED
  BY <1>6, <1>8, <1>9 DEF Unseen

\* The slow path hands out an address.
LEMMA SlowAddress ==
  ASSUME NEW m \in Memory, NEW p \in Granule, NEW s \in Nat, m[p].magic > 0
  PROVE  SlowBlock(m, p, s) \in Int /\ SlowBlock(m, p, s) # NULL
<1>1. m[p].magic \in Int /\ p \in Int /\ p > 0
  BY HeapAssumption DEF Memory, Cell, Granule
<1>2. m[p].magic * s \in Int /\ m[p].magic * s >= 0
  <2>1. PICK i \in Nat : i = m[p].magic
    BY <1>1
  <2>2. i * s \in Nat
    OBVIOUS
  <2> QED
    BY <2>1, <2>2
<1> QED
  BY <1>1, <1>2 DEF SlowBlock, NULL

\* A small block is handed out.
LEMMA AllocView ==
  ASSUME NEW H, NEW P, Now(H, P), NEW c \in CPU, FastPath(c) \/ ReusePage(c) \/ InsertPage(c)
  PROVE  Alloc!AllocSmall(c)
<1>1. loc[c] \in Locals /\ loc[c].ptr = NULL /\ loc[c].size \in SmallSize
  <2>1. pc[c] \in {"fast", "find", "new_init"}
    BY DEF FastPath, ReusePage, InsertPage, At
  <2> QED
    BY <2>1, ProcFacts DEF Shape
<1>2. ASSUME NEW P2, Now(H, P2)', NodesKept(mem, mem', H), NEW l, loc' = [loc EXCEPT ![c] = l], live' = live,
             l.ptr \in Int, l.ptr # NULL, l.size = loc[c].size, PagesSame
      PROVE  Alloc!AllocSmall(c)
  <2>1. l.size \in SmallSize
    BY <1>1, <1>2
  <2> QED
    BY ONLY <2>1, <1>1, <1>2, Now(H, P), c \in CPU, AllocSmallView
<1>3. CASE FastPath(c)
  <2>1. PICK fd \in Granule : loc' = [loc EXCEPT ![c] = [loc[c] EXCEPT !.ptr = fd, !.ph = NULL]]
    BY <1>3, Zenon DEF FastPath, SetLocals
  <2>2. PICK l : l = [loc[c] EXCEPT !.ptr = fd, !.ph = NULL]
    OBVIOUS
  <2>3. l.ptr = fd /\ l.size = loc[c].size /\ fd \in Int /\ fd # NULL
    BY <2>2, <1>1, GranuleInt DEF Locals
  <2>4. pc[c] = "fast" /\ pc' = [pc EXCEPT ![c] = "zero"] /\ live' = live
    BY <1>3 DEF FastPath, At, Goto
  <2>5. Now(H, P)' /\ NodesKept(mem, mem', H)
    BY <1>3, FastPathStep
  <2>6. FreshAt("zero", l) = FreshAt(pc[c], loc[c]) /\ loc' = [loc EXCEPT ![c] = l]
    BY <2>1, <2>2, <2>4 DEF FreshAt
  <2>7. PagesSame
    BY ONLY <2>4, <2>5, <2>6, Now(H, P), c \in CPU, NoPageChange
  <2> QED
    BY ONLY <2>3, <2>4, <2>5, <2>6, <2>7, <1>2
<1>4. CASE ReusePage(c)
  <2>1. PICK p, y : /\ p \in Empty /\ y = SlowBlock([mem EXCEPT ![p].size = loc[c].size], p, loc[c].size)
                      /\ loc' = [loc EXCEPT ![c] = [loc[c] EXCEPT !.ptr = y]]
    BY <1>4, Zenon DEF ReusePage, SetLocals
  <2>2. PICK l : l = [loc[c] EXCEPT !.ptr = y]
    OBVIOUS
  <2>3. l.ptr = y /\ l.size = loc[c].size
    BY <2>2, <1>1 DEF Locals
  <2>4. pc[c] = "find" /\ pc' = [pc EXCEPT ![c] = "ret"] /\ live' = live
    BY <1>4 DEF ReusePage, At, Goto
  <2>5. Now(H, P)' /\ NodesKept(mem, mem', H)
    BY <1>4, ReusePageStep
  <2>6. FreshAt("ret", l) = FreshAt(pc[c], loc[c]) /\ loc' = [loc EXCEPT ![c] = l]
    BY <2>1, <2>2, <2>4 DEF FreshAt
  <2>7. PagesSame
    BY ONLY <2>4, <2>5, <2>6, Now(H, P), c \in CPU, NoPageChange
  <2>8. y \in Int /\ y # NULL
    <3>1. p \in Granule /\ mem[p].magic > 0 /\ mem \in Memory /\ loc[c].size \in Nat
      BY <2>1, <1>1, SmallFacts, ProcFacts DEF Empty, World
    <3>2. [mem[p] EXCEPT !.size = loc[c].size] \in Cell /\ [mem[p] EXCEPT !.size = loc[c].size].magic = mem[p].magic
      BY <3>1 DEF Memory, Cell
    <3>3. ASSUME NEW m, m = [mem EXCEPT ![p].size = loc[c].size] PROVE m \in Memory /\ m[p].magic = mem[p].magic
      BY <3>1, <3>2, <3>3 DEF Memory
    <3>4. ASSUME NEW m, m = [mem EXCEPT ![p].size = loc[c].size] PROVE y \in Int /\ y # NULL
      BY <3>1, <3>3, <3>4, <2>1, SlowAddress
    <3> QED
      BY <3>4
  <2> QED
    BY ONLY <2>3, <2>4, <2>5, <2>6, <2>7, <2>8, <1>2
<1>5. CASE InsertPage(c)
  <2> DEFINE hdr == [next |-> pagehead[c], size |-> loc[c].size, magic |-> 1]
  <2>1. PICK y : /\ y = SlowBlock([mem EXCEPT ![loc[c].ph] = hdr], loc[c].ph, loc[c].size)
                 /\ loc' = [loc EXCEPT ![c] = [loc[c] EXCEPT !.ptr = y, !.ph = NULL]]
    BY <1>5, Zenon DEF InsertPage, SetLocals
  <2>2. PICK l : l = [loc[c] EXCEPT !.ptr = y, !.ph = NULL]
    OBVIOUS
  <2>3. l.ptr = y /\ l.size = loc[c].size
    BY <2>2, <1>1 DEF Locals
  <2>4. pc[c] = "new_init" /\ pc' = [pc EXCEPT ![c] = "ret"] /\ live' = live /\ loc[c].ph # NULL
    BY <1>5, Zenon DEF InsertPage, At, Goto
  <2>5. PICK P2 : Listed(H, P, P2, c, loc[c].ph)
    BY <1>5, InsertPageStep
  <2>6. Now(H, P2)' /\ NodesKept(mem, mem', H) /\ loc' = [loc EXCEPT ![c] = l]
    BY <2>1, <2>2, <2>5 DEF Listed
  <2>7. PagesSame
    <3>1. "ret" \notin {"first_init", "new_init"} /\ pc[c] \in {"first_init", "new_init"}
      BY <2>4
    <3> QED
      BY ONLY <3>1, <2>4, <2>5, <2>6, Now(H, P), c \in CPU, ListedPages
  <2>8. y \in Int /\ y # NULL
    <3>1. ASSUME NEW p, p = loc[c].ph PROVE y \in Int /\ y # NULL
      <4>1. p \in Granule /\ mem \in Memory /\ loc[c].size \in Nat /\ pagehead[c] \in Int
        BY <1>1, <2>4, <3>1, SmallFacts, ProcFacts, FreshPage, PageFacts DEF World, PageInv
      <4>2. hdr \in Cell /\ hdr.magic = 1
        BY <4>1 DEF Cell
      <4> HIDE DEF hdr
      <4>3. ASSUME NEW m, m = [mem EXCEPT ![p] = hdr] PROVE m \in Memory /\ m[p].magic > 0
        BY <4>1, <4>2, <4>3 DEF Memory
      <4>4. ASSUME NEW m, m = [mem EXCEPT ![p] = hdr] PROVE y \in Int /\ y # NULL
        BY <4>1, <4>3, <4>4, <3>1, <2>1, SlowAddress
      <4> QED
        BY <4>4
    <3> QED
      BY <3>1
  <2> QED
    BY ONLY <2>3, <2>4, <2>6, <2>7, <2>8, <1>2
<1> QED
  BY <1>3, <1>4, <1>5

\* kfree puts a small block back into its page.
LEMMA KfreeLinkView ==
  ASSUME NEW H, NEW P, Now(H, P), NEW c \in CPU, KfreeLink(c)
  PROVE  Alloc!FreeSmall
<1>1. /\ pc[c] = "free_link" /\ pc' = [pc EXCEPT ![c] = "idle"] /\ live' = live
      /\ loc' = [loc EXCEPT ![c] = NoLocals]
  BY Zenon DEF KfreeLink, At, Goto, SetLocals
<1>2. loc[c].ptr # NULL /\ loc[c].size \in SmallSize /\ NoLocals.ptr = NULL
  BY <1>1, ProcFacts DEF Shape, NoLocals
<1>3. Now(H, P)' /\ NodesKept(mem, mem', H)
  BY KfreeLinkStep
<1>4. FreshAt("idle", NoLocals) = FreshAt(pc[c], loc[c])
  BY <1>1 DEF FreshAt
<1>5. PagesSame
  BY ONLY <1>1, <1>3, <1>4, Now(H, P), c \in CPU, NoPageChange
<1> QED
  BY ONLY <1>1, <1>2, <1>3, <1>5, Now(H, P), c \in CPU, FreeSmallView

\* kallocHugeMemory cuts a block and its header from the heap.
LEMMA KallocHugeView ==
  ASSUME NEW H, NEW P, Now(H, P), NEW c \in CPU, HeaderFits, SizesBounded, KallocHugeMemory(c)
  PROVE  Alloc!AllocHuge \/ Unseen
<1> DEFINE fitting == Nodes(mem, head) \cap HugeFits(mem, loc[c].size)
           BS == BlocksOf(live, loc)
<1>1. pc[c] = "huge" /\ pc' = [pc EXCEPT ![c] = "ret"] /\ UNCHANGED <<head, pagehead, live>>
  BY DEF KallocHugeMemory, At, Goto
<1>2. /\ loc[c] \in Locals /\ loc[c].ptr = NULL /\ loc[c].size \in SizeClass /\ loc[c].size > MaxSmall
      /\ World(mem, head, pagehead, FreshOf(pc, loc), BS, H, P) /\ loc[c].size <= MaxHuge
      /\ FreshAt(pc[c], loc[c]) = NULL /\ loc = [loc EXCEPT ![c] = loc[c]]
  BY <1>1, ProcFacts DEF Shape, FreshAt, SizesBounded
<1>3. Now(H, P)'
  BY KallocHugeStep
<1>4. ASSUME NEW l, loc' = [loc EXCEPT ![c] = l] PROVE PagesSame
  <2>1. FreshAt("ret", l) = FreshAt(pc[c], loc[c])
    BY <1>2 DEF FreshAt
  <2> QED
    BY ONLY <2>1, <1>1, <1>3, <1>4, Now(H, P), c \in CPU, NoPageChange
<1>5. CASE \E n \in fitting :
             /\ Highest(n, fitting) /\ mem' = TakeHuge(mem, n, loc[c].size)
             /\ loc' = [loc EXCEPT ![c] = [loc[c] EXCEPT !.ptr = HugeBlock(mem, n, loc[c].size)]]
  <2>1. PICK n \in fitting :
             /\ Highest(n, fitting) /\ mem' = TakeHuge(mem, n, loc[c].size)
             /\ loc' = [loc EXCEPT ![c] = [loc[c] EXCEPT !.ptr = HugeBlock(mem, n, loc[c].size)]]
    BY <1>5
  <2>2. n \in H /\ mem[n].size > loc[c].size + 1
    BY <1>1, <1>2, <2>1, ListsAre DEF HeaderFits
  <2>3. ASSUME NEW s, s = loc[c].size, NEW x, x = [ptr |-> HugeBlock(mem, n, s), size |-> s, cpu |-> c],
               NEW l, l = [loc[c] EXCEPT !.ptr = HugeBlock(mem, n, s)], NEW hd, hd = HugeBlock(mem, n, s) - 1
        PROVE  Alloc!AllocHuge
    <3>1. s \in SizeClass /\ s > MaxSmall /\ mem[n].size > s + 1 /\ mem' = TakeHuge(mem, n, s) /\ loc' = [loc EXCEPT ![c] = l]
      BY <1>2, <2>1, <2>2, <2>3
    <3>2. /\ World(mem', head, pagehead, FreshOf(pc, loc), BS \cup {x}, H, P)
          /\ Shrunk(mem, mem', H, n, hd - n)
      <4>1. ASSUME NEW k, k = TakeHuge(mem, n, s)
            PROVE  /\ World(k, head, pagehead, FreshOf(pc, loc), BS \cup {x}, H, P)
                   /\ Shrunk(mem, k, H, n, HugeBlock(mem, n, s) - 1 - n)
        BY ONLY <1>2, <2>2, <2>3, <3>1, <4>1, c \in CPU, TakeHugeWorld, SMTT(30)
      <4> QED
        BY <4>1, <3>1, <2>3
    <3>3. x.ptr = hd + 1 /\ x.size = s /\ x.cpu = c /\ hd \in Int /\ x.ptr # NULL /\ s \in Nat
      <4>1. x \in BS \cup {x} /\ x.ptr = HugeBlock(mem, n, s)
        BY <2>3
      <4>2. x.ptr \in Int /\ HeapStart < x.ptr
        BY ONLY <3>2, <4>1, BlockFacts
      <4> QED
        BY <4>1, <4>2, <2>3, <3>1, ClassFacts, HeapAssumption DEF NULL
    <3>4. Own(l, c) = {x}
      <4>1. l.ptr = HugeBlock(mem, n, s) /\ l.size = s
        BY <1>2, <2>3 DEF Locals
      <4> QED
        BY <4>1, <3>3, <2>3 DEF Own
    <3>5. /\ x \notin BS /\ Owned' = Owned \cup {Bare(x)}
      BY ONLY <1>1, <1>2, <1>3, <3>1, <3>4, Now(H, P), c \in CPU, OneMore
    <3>6. /\ FreeIn(mem', head) = FreeIn(mem, head) \ Run(hd, s + 1)
          /\ hd \in FreeIn(mem, head) /\ Run(hd, s + 1) \subseteq FreeIn(mem, head)
      <4>1. List(mem', head, H)
        BY <3>2 DEF World, HeapInv
      <4> QED
        BY ONLY <4>1, <3>1, <3>2, <3>3, <2>2, <2>3, <1>2, TakeHugeFree
    <3>7. /\ HeapFree' = HeapFree \ Run(hd, s + 1) /\ hd \in HeapFree /\ Run(hd, s + 1) \subseteq HeapFree
      BY <1>1, <3>6, Seen
    <3>8. s \in {z \in SizeClass : MaxSmall < z /\ z <= MaxHuge}
      BY <1>2, <3>1, <2>3
    <3>9. Bare(x) = [ptr |-> hd + 1, size |-> s]
      BY <3>3 DEF Bare
    <3>10. AbsPages' = AbsPages
      BY <1>4, <3>1 DEF PagesSame
    <3> QED
      BY <3>5, <3>7, <3>8, <3>9, <3>10 DEF Alloc!AllocHuge, Alloc!Span, Run, AbsPages
  <2> QED
    BY <2>3
<1>6. CASE UNCHANGED <<mem, loc>>
  <2>1. HeapSame /\ OwnedSame
    BY <1>1, <1>6, Seen DEF HeapSame, OwnedSame
  <2>2. PagesSame
    BY <1>2, <1>4, <1>6
  <2> QED
    BY <2>1, <2>2 DEF Unseen
<1> QED
  BY <1>5, <1>6 DEF KallocHugeMemory, SetLocals

\* The s + 1 granules from hd on are free again, and no node starts where they end.
Rejoined(hd, s) ==
  /\ HeapFree' = HeapFree \cup Run(hd, s + 1)
  /\ Nodes(mem', head') \subseteq Nodes(mem, head) \ {hd + 1 + s}
  /\ \A n \in Nodes(mem, head) : n <= hd \/ hd + 1 + s <= n

\* kfree gives a huge block and its header back to the heap.
LEMMA KfreeHugeView ==
  ASSUME NEW H, NEW P, Now(H, P), NEW c \in CPU, HugeRejoins, SizesBounded, KfreeHuge(c)
  PROVE  /\ Alloc!FreeHuge
         /\ \E hd, s \in Int : Rejoined(hd, s)
<1> DEFINE BS == BlocksOf(live, loc)
           Cleared(hd) == memset0(mem, hd, mem[hd].size + 1)
           Heap(hd) == Nodes(Cleared(hd), head) \cap Granule
           Linked(hd, before, after) ==
             /\ Highest(before, {h \in Heap(hd) : h < hd}) /\ Lowest(after, {h \in Heap(hd) : h > hd})
             /\ mem' = FreeHuge(Cleared(hd), head, hd, mem[hd].size, before, after)
             /\ head' = HeadAfterFreeHuge(Cleared(hd), head, hd, mem[hd].size, before, after)
<1>1. /\ pc[c] = "free_huge" /\ pc' = [pc EXCEPT ![c] = "idle"] /\ UNCHANGED <<pagehead, live>>
      /\ loc' = [loc EXCEPT ![c] = NoLocals]
  BY DEF KfreeHuge, At, Goto, SetLocals
<1>2. /\ loc[c].ptr # NULL /\ loc[c].size \in SizeClass /\ loc[c].size > MaxSmall /\ loc[c].size <= MaxHuge
      /\ World(mem, head, pagehead, FreshOf(pc, loc), BS, H, P) /\ FreshAt(pc[c], loc[c]) = NULL
  BY <1>1, ProcFacts DEF Shape, FreshAt, SizesBounded
<1>3. \E hd \in Granule \cap {loc[c].ptr - 1} :
         \E before, after \in Heap(hd) \cup {NULL} : Linked(hd, before, after)
  BY Zenon DEF KfreeHuge
<1> HIDE DEF Linked
<1>4. PICK hd, before, after : hd = loc[c].ptr - 1 /\ hd \in Granule /\ Linked(hd, before, after)
  BY <1>3
<1>5. PICK b \in BS : /\ b.ptr = loc[c].ptr /\ b.size = loc[c].size /\ b.cpu = c /\ Own(loc[c], c) = {b} /\ b \notin live
  BY <1>2, OwnBlock
<1>6. IsHuge(b) /\ b \in Huge(BS)
  BY <1>2, <1>5 DEF IsHuge, Huge
<1>7. mem[hd].size = b.size /\ hd = b.ptr - 1
  BY <1>2, <1>4, <1>5, <1>6 DEF World, BlockInv, HugeOK
<1>8. PICK n \in H : n + mem[n].size = hd
  BY <1>1, <1>2, <1>4, ListsAre DEF HugeRejoins
<1>9. PICK H2 : Now(H2, P)'
  BY KfreeHugeStep
<1>10. ASSUME NEW s, s = b.size, NEW u, u = memset0(mem, hd, s + 1)
       PROVE  HeapFree' = HeapFree \cup Run(hd, s + 1) /\ Nodes(mem', head') \subseteq H \ {hd + 1 + s}
  <2>1. b.ptr \in Int /\ s \in Nat \ {0} /\ hd \in Int /\ s + 1 \in Int /\ mem \in Memory /\ List(mem, head, H)
    BY <1>2, <1>7, <1>10, BlockFacts DEF World, HeapInv
  <2>2. u \in Memory /\ \A g \in Granule : (g < hd \/ hd + (s + 1) <= g) => u[g] = mem[g]
    BY <2>1, <1>10, MemsetCells
  <2>3. ASSUME NEW o \in H PROVE u[o] = mem[o]
    <3>1. o \in Granule /\ o \in Int /\ mem[o].size \in Nat \ {0} /\ Off(o, mem[o].size, b.ptr - 1, b.size + 1)
      BY <1>2, <1>6, NodeFacts DEF World, SpanInv
    <3> QED
      BY <3>1, <2>1, <2>2, <1>7, <1>10 DEF Off
  <2>4. List(u, head, H)
    BY <2>1, <2>2, <2>3, ListFrame
  <2>5. H = Nodes(u, head) /\ H \subseteq Granule
    BY <2>4, ListFacts DEF List
  <2>6. u = Cleared(hd) /\ Heap(hd) = H
    BY <2>5, <1>7, <1>10
  <2>7. /\ Highest(before, {h \in H : h < hd}) /\ Lowest(after, {h \in H : h > hd})
        /\ mem' = FreeHuge(u, head, hd, s, before, after)
        /\ head' = HeadAfterFreeHuge(u, head, hd, s, before, after)
    BY <1>4, <1>7, <1>10, <2>6 DEF Linked
  <2>8. FreeArgs(u, H, b, before, after)
    BY <2>7, <1>7 DEF FreeArgs
  <2>9. /\ FreeIn(mem', head') = FreeIn(mem, head) \cup Run(hd, s + 1)
        /\ Nodes(mem', head') \subseteq H \ {hd + 1 + s}
    <3>1. HugeFreed(mem, head, H, b, hd, s, u, before, after, mem', head', n)
      BY <1>7, <1>8, <1>10, <2>7, <2>8 DEF HugeFreed
    <3>2. World(mem, head, pagehead, FreshOf(pc, loc), BS, H, P) /\ b \in Huge(BS)
      BY <1>2, <1>6
    <3> HIDE DEF BS
    <3> QED
      BY ONLY <3>1, <3>2, FreeHugeFree
  <2> QED
    BY <2>9, Seen
<1>11. HeapFree' = HeapFree \cup Run(hd, b.size + 1) /\ Nodes(mem', head') \subseteq H \ {hd + 1 + b.size}
  BY <1>10
<1>12. NoLocals.ptr = NULL /\ FreshAt("idle", NoLocals) = FreshAt(pc[c], loc[c])
  BY <1>2 DEF FreshAt, NoLocals
<1>13. Owned' = Owned \ {Bare(b)} /\ Bare(b) \in Owned
  BY ONLY <1>1, <1>5, <1>9, <1>12, Now(H, P), c \in CPU, OneLess
<1>14. AbsPages' = AbsPages
  <2>1. PagesSame
    BY ONLY <1>1, <1>9, <1>12, Now(H, P), c \in CPU, NoPageChange
  <2> QED
    BY <2>1 DEF PagesSame
<1>15. Bare(b).ptr - 1 = hd /\ Bare(b).size = b.size /\ b.size \in {z \in SizeClass : MaxSmall < z /\ z <= MaxHuge}
  BY <1>2, <1>5, <1>7 DEF Bare
<1>16. Alloc!FreeHuge
  BY <1>11, <1>13, <1>14, <1>15 DEF Alloc!FreeHuge, Alloc!Huge, Alloc!HugeSpan, Alloc!Span, Run, AbsPages
<1>17. hd \in Int /\ b.size \in Int /\ Rejoined(hd, b.size)
  <2>1. b.ptr \in Int /\ b.size \in Nat \ {0}
    BY <1>2, BlockFacts
  <2>2. ASSUME NEW o \in H PROVE o <= hd \/ hd + 1 + b.size <= o
    <3>1. o \in Int /\ mem[o].size \in Nat \ {0} /\ Off(o, mem[o].size, b.ptr - 1, b.size + 1)
      BY <1>2, <1>6, NodeFacts DEF World, SpanInv
    <3> QED
      BY <3>1, <2>1, <1>7 DEF Off
  <2>3. H = Nodes(mem, head)
    BY <1>2, ListsAre
  <2> QED
    BY <2>1, <2>2, <2>3, <1>7, <1>11 DEF Rejoined
<1> QED
  BY <1>16, <1>17

\* What AllocSpec sees of a step: one of its own, or nothing.
LEMMA AllocNext ==
  ASSUME ~RemoteFree, Careful, HugeRejoins, SizesBounded, DataInv, [Next]_vars
  PROVE  Alloc!Next \/ Unseen
<1>1. PICK H, P : Now(H, P)
  BY DEF DataInv
<1>2. SlotLeft /\ HeaderFits
  BY DEF Careful
<1>3. CASE UNCHANGED vars
  BY <1>3, Seen DEF vars, Unseen, HeapSame, PagesSame, OwnedSame, AbsPages, PagesOf
<1>4. ASSUME NEW c \in CPU, Call(c) PROVE Unseen
  BY ONLY <1>1, <1>4, ~RemoteFree, CallView
<1>5. ASSUME NEW c \in CPU, Work(c) PROVE Alloc!Next \/ Unseen
  <2>1. CASE \/ AllockpageLock(c) \/ FirstLock(c) \/ SearchLock(c) \/ NeedPage(c) \/ NoPage(c)
             \/ HugeLock(c) \/ KfreeLock(c) \/ KfreeNotInPage(c) \/ KfreeHugeLock(c)
    BY ONLY <1>1, <2>1, c \in CPU, QuietView
  <2>2. CASE FirstPanic(c) \/ Stray(c)
    <3>1. UNCHANGED <<mem, head, pagehead, pc, loc, live>>
      BY <2>2 DEF FirstPanic, Stray, Panic
    <3> QED
      BY <3>1, Seen DEF Unseen, HeapSame, PagesSame, OwnedSame, AbsPages, PagesOf
  <2>3. CASE FastPanic(c) \/ KfreePanic(c) \/ KfreeHugePanic(c)
    BY <1>1, <2>3, NoFastPanic, NoKfreePanic, NoHugePanic
  <2>4. CASE Allockpage(c)
    BY <1>1, <2>4, AllockpageView DEF Alloc!Next, Unseen
  <2>5. CASE FirstInit(c)
    BY <1>1, <2>5, FirstInitView
  <2>6. CASE FindPage(c) \/ Zero(c) \/ Return(c) \/ KfreeScan(c)
    BY <1>1, <1>2, <2>6, InHandView
  <2>7. CASE FastPath(c) \/ ReusePage(c) \/ InsertPage(c)
    BY <1>1, <2>7, AllocView DEF Alloc!Next
  <2>8. CASE KallocHugeMemory(c)
    BY <1>1, <1>2, <2>8, KallocHugeView DEF Alloc!Next
  <2>9. CASE KfreeLink(c)
    BY <1>1, <2>9, KfreeLinkView DEF Alloc!Next
  <2>10. CASE KfreeHuge(c)
    BY <1>1, <2>10, KfreeHugeView DEF Alloc!Next
  <2> QED
    BY <1>5, <2>1, <2>2, <2>3, <2>4, <2>5, <2>6, <2>7, <2>8, <2>9, <2>10 DEF Work
<1> QED
  BY <1>3, <1>4, <1>5 DEF Next

\* At first the heap is one node.
LEMMA InitHeap ==
  ASSUME Init
  PROVE  Nodes(mem, head) = {HeapStart} /\ Nodes(mem, NULL) = {} /\ mem[HeapStart].size = HeapEnd - HeapStart
<1> DEFINE hdr == [ZeroCell EXCEPT !.size = HeapEnd - HeapStart]
<1>1. /\ HeapStart \in Granule /\ HeapStart \in Int /\ HeapEnd \in Int /\ mem \in Memory /\ HeapStart # NULL
  BY HeapAssumption, TypeInit DEF Granule, TypeOK, NULL
<1>2. mem[HeapStart].size = HeapEnd - HeapStart /\ mem[HeapStart].next = NULL
  <2>1. hdr.size = HeapEnd - HeapStart /\ hdr.next = NULL
    BY DEF ZeroCell
  <2> QED
    BY <2>1, <1>1 DEF Init
<1>3. List(mem, NULL, {})
  BY <1>1, NoList
<1>4. List(mem, head, {HeapStart})
  <2>1. HeapStart \in Granule \ {} /\ {} \cup {HeapStart} = {HeapStart} /\ head = HeapStart
    BY <1>1 DEF Init
  <2>2. List(mem, HeapStart, {} \cup {HeapStart})
    BY ONLY <2>1, <1>1, <1>2, <1>3, ListPush
  <2> QED
    BY <2>1, <2>2
<1>5. Nodes(mem, head) = {HeapStart} /\ Nodes(mem, NULL) = {}
  BY <1>3, <1>4 DEF List
<1> QED
  BY <1>2, <1>5

\* At first the whole heap is free.
LEMMA AllocInit == Init => Alloc!Init
<1> SUFFICES ASSUME Init PROVE Alloc!Init
  OBVIOUS
<1>1. Nodes(mem, head) = {HeapStart} /\ Nodes(mem, NULL) = {} /\ mem[HeapStart].size = HeapEnd - HeapStart
  BY InitHeap
<1>2. HeapStart \in Int /\ HeapEnd \in Int
  BY HeapAssumption
<1>3. HeapFree = Granule
  <2>1. HeapFree = Run(HeapStart, HeapEnd - HeapStart)
    BY <1>1 DEF HeapFree
  <2> QED
    BY <2>1, <1>2 DEF Run, Granule
<1>4. NoLocals.ptr = NULL /\ \A c \in CPU : pc[c] = "idle" /\ loc[c] = NoLocals /\ pagehead[c] = NULL
  BY DEF Init, NoLocals
<1>5. AbsPages = [c \in CPU |-> {}]
  BY <1>1, <1>4 DEF AbsPages, PagesOf
<1>6. Owned = {}
  <2>1. live = {}
    BY DEF Init
  <2> QED
    BY <2>1, <1>4 DEF Owned
<1> QED
  BY <1>3, <1>5, <1>6 DEF Alloc!Init, AbsPages

\* Spans that are apart share no granule.
LEMMA OffRuns ==
  ASSUME NEW a \in Int, NEW n \in Int, NEW b \in Int, NEW k \in Int, Off(a, n, b, k)
  PROVE  Run(a, n) \cap Run(b, k) = {}
BY DEF Off, Run

\* The invariant keeps blocks, pages and free memory apart.
LEMMA ApartSays ==
  ASSUME DataInv
  PROVE  Alloc!NoOverlap /\ Alloc!Separate
<1>1. PICK H, P : Now(H, P)
  BY DEF DataInv
<1> DEFINE BS == BlocksOf(live, loc)
           fr == FreshOf(pc, loc)
<1>2. World(mem, head, pagehead, fr, BS, H, P)
  BY <1>1 DEF Now, All
<1>3. HeapFree = FreeOf(mem, H) /\ Owned = BareOf(BS) /\ AbsPages = [c \in CPU |-> Pages(P, fr, c)]
  BY <1>1, AllShown, Seen DEF Now, Shown
<1> HIDE DEF BS, fr
<1>4. \A n \in H : n \in Int /\ mem[n].size \in Nat
  BY <1>2, NodeFacts
<1>5. \A b \in BS : b.ptr \in Int /\ b.size \in Nat
  BY <1>2, BlockFacts
<1>6. /\ PageSize \in Nat /\ \A c \in CPU : \A p \in Pages(P, fr, c) : p \in Int
      /\ \A c \in CPU : P[c] \subseteq Pages(P, fr, c)
  BY <1>2, PageSizePos, PageFacts DEF World, PageInv, Pages
<1>7. \A b \in BS : Bare(b).ptr = b.ptr /\ Bare(b).size = b.size
  BY DEF Bare
<1>8. ASSUME NEW b \in BS, Bare(b) \in Alloc!Huge PROVE b \in Huge(BS)
  <2>1. b.size \in SizeClass /\ b.size > MaxSmall
    BY <1>7, <1>8 DEF Alloc!Huge
  <2> QED
    BY <2>1 DEF Huge, IsHuge
<1>9. \A a \in Owned : \E b \in BS : a = Bare(b)
  BY <1>3 DEF BareOf
<1>10. Alloc!Huge \subseteq Owned
  BY DEF Alloc!Huge
\* Blocks.
<1>11. ASSUME NEW a \in Owned, NEW b \in Owned, a # b
       PROVE  Run(a.ptr, a.size) \cap Run(b.ptr, b.size) = {}
  <2>1. PICK x \in BS, y \in BS : a = Bare(x) /\ b = Bare(y) /\ x # y
    BY <1>9, <1>11
  <2>2. Off(x.ptr, x.size, y.ptr, y.size)
    BY <1>2, <2>1, BodiesOff
  <2> QED
    BY <1>5, <1>7, <2>1, <2>2, OffRuns
<1>12. ASSUME NEW b \in Owned PROVE Run(b.ptr, b.size) \cap HeapFree = {}
  <2>1. PICK x \in BS : b = Bare(x)
    BY <1>9
  <2>2. ASSUME NEW n \in H PROVE Run(n, mem[n].size) \cap Run(x.ptr, x.size) = {}
    <3>1. CASE IsHuge(x)
      <4>1. Off(n, mem[n].size, x.ptr - 1, x.size + 1)
        BY <1>2, <3>1 DEF World, SpanInv, Huge
      <4> QED
        BY <4>1, <1>4, <1>5 DEF Off, Run
    <3>2. CASE ~IsHuge(x)
      <4>1. PICK p \in P[x.cpu] : p < x.ptr /\ x.ptr + x.size <= p + PageSize /\ p \in Int
        BY <1>2, <3>2, SmallIn
      <4>2. x.cpu \in CPU
        BY <1>2 DEF World, BlockInv, Block
      <4>3. Off(n, mem[n].size, p, PageSize)
        BY <1>2, <1>6, <4>1, <4>2 DEF World, SpanInv
      <4> QED
        BY <4>1, <4>3, <1>4, <1>5, <1>6 DEF Off, Run
    <3> QED
      BY <3>1, <3>2
  <2> QED
    BY <2>1, <2>2, <1>3, <1>7 DEF FreeOf
<1>13. Alloc!NoOverlap
  BY <1>11, <1>12 DEF Alloc!NoOverlap, Alloc!Span, Run
\* Pages and huge blocks.
<1>14. ASSUME NEW c \in CPU, NEW p \in Pages(P, fr, c) PROVE Run(p, PageSize) \cap HeapFree = {}
  <2>1. \A n \in H : Off(n, mem[n].size, p, PageSize)
    BY <1>2 DEF World, SpanInv
  <2>2. \A n \in H : Run(n, mem[n].size) \cap Run(p, PageSize) = {}
    BY <2>1, <1>4, <1>6, OffRuns
  <2> QED
    BY <2>2, <1>3 DEF FreeOf
<1>15. ASSUME NEW b \in Huge(BS) PROVE Run(b.ptr - 1, b.size + 1) \cap HeapFree = {}
  <2>1. \A n \in H : Off(n, mem[n].size, b.ptr - 1, b.size + 1)
    BY <1>2 DEF World, SpanInv
  <2>2. b.ptr - 1 \in Int /\ b.size + 1 \in Int
    BY <1>5 DEF Huge
  <2>3. \A n \in H : Run(n, mem[n].size) \cap Run(b.ptr - 1, b.size + 1) = {}
    BY <2>1, <2>2, <1>4, OffRuns
  <2> QED
    BY <2>3, <1>3 DEF FreeOf
<1>16. ASSUME NEW c \in CPU, NEW d \in CPU, NEW p \in Pages(P, fr, c), NEW q \in Pages(P, fr, d), c # d \/ p # q
       PROVE  p # q /\ Run(p, PageSize) \cap Run(q, PageSize) = {}
  <2>1. Off(p, PageSize, q, PageSize) /\ PageSize > 0
    BY <1>2, <1>16, PageSizePos DEF World, SpanInv
  <2> QED
    BY <2>1, <1>6, OffRuns DEF Off
<1>17. ASSUME NEW c \in CPU, NEW p \in Pages(P, fr, c), NEW b \in Huge(BS)
       PROVE  Run(p, PageSize) \cap Run(b.ptr - 1, b.size + 1) = {}
  <2>1. Off(p, PageSize, b.ptr - 1, b.size + 1)
    BY <1>2 DEF World, SpanInv
  <2>2. b.ptr - 1 \in Int /\ b.size + 1 \in Int
    BY <1>5 DEF Huge
  <2> QED
    BY <2>1, <2>2, <1>6, OffRuns
<1>18. ASSUME NEW a \in Huge(BS), NEW b \in Huge(BS), a # b
       PROVE  Run(a.ptr - 1, a.size + 1) \cap Run(b.ptr - 1, b.size + 1) = {}
  <2>1. Off(a.ptr - 1, a.size + 1, b.ptr - 1, b.size + 1)
    BY <1>2, <1>18 DEF World, SpanInv
  <2>2. a.ptr - 1 \in Int /\ a.size + 1 \in Int /\ b.ptr - 1 \in Int /\ b.size + 1 \in Int
    BY <1>5 DEF Huge
  <2> QED
    BY <2>1, <2>2, OffRuns
<1>19. \A a \in Alloc!Huge : \E b \in Huge(BS) : a = Bare(b) /\ a.ptr = b.ptr /\ a.size = b.size
  BY <1>7, <1>8, <1>9, <1>10
<1>20. \A p \in Alloc!AllPages : \E c \in CPU : p \in Pages(P, fr, c)
  BY <1>3 DEF Alloc!AllPages, AbsPages
<1>21. \A c \in CPU : PagesOf(c) = Pages(P, fr, c)
  BY <1>3 DEF AbsPages
<1>22. /\ \A p \in Alloc!AllPages : Run(p, PageSize) \cap HeapFree = {}
       /\ \A a \in Alloc!Huge : Run(a.ptr - 1, a.size + 1) \cap HeapFree = {}
       /\ \A p, q \in Alloc!AllPages : p # q => Run(p, PageSize) \cap Run(q, PageSize) = {}
       /\ \A p \in Alloc!AllPages, a \in Alloc!Huge : Run(p, PageSize) \cap Run(a.ptr - 1, a.size + 1) = {}
       /\ \A a, b \in Alloc!Huge : a # b => Run(a.ptr - 1, a.size + 1) \cap Run(b.ptr - 1, b.size + 1) = {}
  <2>1. \A p \in Alloc!AllPages : Run(p, PageSize) \cap HeapFree = {}
    BY <1>14, <1>20
  <2>2. \A a \in Alloc!Huge : Run(a.ptr - 1, a.size + 1) \cap HeapFree = {}
    BY <1>15, <1>19
  <2>3. \A p, q \in Alloc!AllPages : p # q => Run(p, PageSize) \cap Run(q, PageSize) = {}
    BY <1>16, <1>20
  <2>4. \A p \in Alloc!AllPages, a \in Alloc!Huge : Run(p, PageSize) \cap Run(a.ptr - 1, a.size + 1) = {}
    BY <1>17, <1>19, <1>20
  <2>5. \A a, b \in Alloc!Huge : a # b => Run(a.ptr - 1, a.size + 1) \cap Run(b.ptr - 1, b.size + 1) = {}
    BY <1>18, <1>19
  <2> QED
    BY <2>1, <2>2, <2>3, <2>4, <2>5
<1>23. \A c, d \in CPU : c # d => PagesOf(c) \cap PagesOf(d) = {}
  BY <1>16, <1>21
<1>24. Alloc!Separate
  <2>1. \A c, d \in CPU : c # d => [e \in CPU |-> PagesOf(e)][c] \cap [e \in CPU |-> PagesOf(e)][d] = {}
    BY <1>23
  <2> QED
    BY <2>1, <1>22 DEF Alloc!Separate, Alloc!HugeSpan, Alloc!Span, Run
<1> QED
  BY <1>13, <1>24

-----------------------------------------------------------------------------
(* Alignment *)

\* Heap nodes and pages start at multiples of the page size.
AlignInv ==
  /\ \A n \in Nodes(mem, head) : Whole(PageSize, n)
  /\ \A c \in CPU : \A p \in AbsPages[c] : Whole(PageSize, p)

\* heap.start does.
LEMMA AlignInit == Init => AlignInv
<1> SUFFICES ASSUME Init PROVE AlignInv
  OBVIOUS
<1>1. Alloc!Init
  BY AllocInit
<1>2. \A c \in CPU : AbsPages[c] = {}
  BY <1>1 DEF Alloc!Init, AbsPages
<1>3. Whole(PageSize, HeapStart)
  <2>1. PageSize \in Nat \ {0} /\ HeapStart \in Nat /\ HeapStart % PageSize = 0
    BY PageSizePos, HeapAssumption
  <2>2. PICK i \in Int : i = HeapStart \div PageSize
    BY <2>1
  <2>3. HeapStart = PageSize * i
    BY <2>1, <2>2
  <2>4. i \in Nat /\ HeapStart = i * PageSize
    BY <2>1, <2>2, <2>3
  <2> QED
    BY <2>4 DEF Whole
<1>4. Nodes(mem, head) \subseteq {HeapStart}
  BY InitHeap
<1> QED
  BY <1>2, <1>3, <1>4 DEF AlignInv

\* A step keeps the heap nodes where they are.
LEMMA SameNodes ==
  ASSUME NEW H, NEW P, NEW P2, Now(H, P), Now(H, P2)'
  PROVE  Nodes(mem', head') = Nodes(mem, head)
<1>1. H = Nodes(mem, head)
  BY ListsAre DEF Now, All
<1>2. All(mem', head', pagehead', pc', loc', live', H, P2)
  BY DEF Now
<1>3. H = Nodes(mem', head')
  BY <1>2, ListsAre DEF All
<1> QED
  BY <1>1, <1>3

\* The starts of nodes and pages stay, but for the node allockpage cuts.
LEMMA AlignSteps ==
  ASSUME AlignInv,
         \/ Nodes(mem', head') \subseteq Nodes(mem, head) /\ AbsPages' = AbsPages
         \/ \E n \in Nodes(mem, head) : StartsFrom(n)
  PROVE  AlignInv'
<1>1. CASE Nodes(mem', head') \subseteq Nodes(mem, head) /\ AbsPages' = AbsPages
  BY <1>1 DEF AlignInv
<1>2. ASSUME NEW n \in Nodes(mem, head), StartsFrom(n) PROVE AlignInv'
  <2>1. Whole(PageSize, n) /\ PageSize \in Nat \ {0}
    BY PageSizePos DEF AlignInv
  <2>2. Whole(PageSize, n + PageSize)
    BY <2>1, WholeArith
  <2> QED
    BY <2>1, <2>2, <1>2 DEF AlignInv, StartsFrom
<1> QED
  BY <1>1, <1>2

\* Every step preserves it.
LEMMA AlignNext ==
  ASSUME ~RemoteFree, Careful, HugeRejoins, SizesBounded, DataInv, AlignInv, [Next]_vars
  PROVE  AlignInv'
<1>1. PICK H, P : Now(H, P)
  BY DEF DataInv
<1>2. SlotLeft /\ HeaderFits
  BY DEF Careful
<1>3. ASSUME NEW P2, Now(H, P2)', AbsPages' = AbsPages PROVE AlignInv'
  <2>1. Nodes(mem', head') = Nodes(mem, head)
    BY <1>1, <1>3, SameNodes
  <2> QED
    BY <2>1, <1>3, AlignSteps
<1>4. CASE UNCHANGED vars
  BY <1>4 DEF vars, AlignInv, AbsPages, PagesOf
<1>5. Unseen => AbsPages' = AbsPages
  BY DEF Unseen, PagesSame
<1>6. ASSUME NEW c \in CPU, Call(c) PROVE AlignInv'
  <2>1. Unseen
    BY ONLY <1>1, <1>6, ~RemoteFree, CallView
  <2>2. Now(H, P)'
    BY <1>1, <1>6, KfreeStep, CallStep DEF Call
  <2> QED
    BY <2>1, <2>2, <1>3, <1>5
<1>7. ASSUME NEW c \in CPU, Work(c) PROVE AlignInv'
  <2>1. CASE \/ AllockpageLock(c) \/ FirstLock(c) \/ SearchLock(c) \/ NeedPage(c) \/ NoPage(c)
             \/ HugeLock(c) \/ KfreeLock(c) \/ KfreeNotInPage(c) \/ KfreeHugeLock(c)
    <3>1. Now(H, P)' /\ Unseen
      BY ONLY <1>1, <2>1, c \in CPU, QuietView, QuietStep
    <3> QED
      BY <3>1, <1>3, <1>5
  <2>2. CASE FirstPanic(c) \/ Stray(c)
    <3>1. UNCHANGED <<mem, head, pagehead, pc, loc, live>>
      BY <2>2 DEF FirstPanic, Stray, Panic
    <3> QED
      BY <3>1 DEF AlignInv, AbsPages, PagesOf
  <2>3. CASE FastPanic(c) \/ KfreePanic(c) \/ KfreeHugePanic(c)
    BY <1>1, <2>3, NoFastPanic, NoKfreePanic, NoHugePanic
  <2>4. CASE Allockpage(c)
    <3>1. \/ \E n \in Nodes(mem, head) : StartsFrom(n)
          \/ PagesSame /\ UNCHANGED <<mem, head>>
      BY <1>1, <2>4, AllockpageView
    <3> QED
      BY <3>1, AlignSteps DEF PagesSame
  <2>5. CASE FirstInit(c)
    <3>1. PICK P2 : Now(H, P2)'
      BY <1>1, <2>5, FirstInitStep DEF Listed
    <3>2. Unseen
      BY <1>1, <2>5, FirstInitView
    <3> QED
      BY <3>1, <3>2, <1>3, <1>5
  <2>6. CASE FindPage(c) \/ Zero(c) \/ Return(c) \/ KfreeScan(c)
    <3>1. Unseen
      BY <1>1, <1>2, <2>6, InHandView
    <3>2. Now(H, P)'
      BY <1>1, <1>2, <2>6, FindPageStep, ZeroStep, ReturnStep, KfreeScanStep
    <3> QED
      BY <3>1, <3>2, <1>3, <1>5
  <2>7. CASE FastPath(c) \/ ReusePage(c) \/ InsertPage(c)
    <3>1. Alloc!AllocSmall(c)
      BY <1>1, <2>7, AllocView
    <3>2. AbsPages' = AbsPages
      BY <3>1 DEF Alloc!AllocSmall, AbsPages
    <3>3. PICK P2 : Now(H, P2)'
      BY <1>1, <2>7, FastPathStep, ReusePageStep, InsertPageStep DEF Listed
    <3> QED
      BY <3>2, <3>3, <1>3
  <2>8. CASE KallocHugeMemory(c)
    <3>1. Alloc!AllocHuge \/ Unseen
      BY <1>1, <1>2, <2>8, KallocHugeView
    <3>2. AbsPages' = AbsPages
      BY <3>1, <1>5 DEF Alloc!AllocHuge, AbsPages
    <3>3. Now(H, P)'
      BY <1>1, <1>2, <2>8, KallocHugeStep
    <3> QED
      BY <3>2, <3>3, <1>3
  <2>9. CASE KfreeLink(c)
    <3>1. Alloc!FreeSmall
      BY <1>1, <2>9, KfreeLinkView
    <3>2. AbsPages' = AbsPages
      BY <3>1 DEF Alloc!FreeSmall, AbsPages
    <3>3. Now(H, P)'
      BY <1>1, <2>9, KfreeLinkStep
    <3> QED
      BY <3>2, <3>3, <1>3
  <2>10. CASE KfreeHuge(c)
    <3>1. Alloc!FreeHuge /\ Nodes(mem', head') \subseteq Nodes(mem, head)
      BY <1>1, <2>10, KfreeHugeView DEF Rejoined
    <3>2. AbsPages' = AbsPages
      BY <3>1 DEF Alloc!FreeHuge, AbsPages
    <3> QED
      BY <3>1, <3>2, AlignSteps
  <2> QED
    BY <1>7, <2>1, <2>2, <2>3, <2>4, <2>5, <2>6, <2>7, <2>8, <2>9, <2>10 DEF Work
<1> QED
  BY <1>4, <1>6, <1>7 DEF Next

\* A slot of an aligned page is aligned to the block size.
LEMMA SlotAligned ==
  ASSUME NEW s \in SmallSize, NEW p, Whole(PageSize, p), NEW a, Slot(p, s, a)
  PROVE  a % s = 0
<1>1. s \in Nat \ {0} /\ PageSize \in Nat \ {0} /\ Whole(s, PageSize) /\ Whole(s, a - p) /\ a \in Int
  BY SmallFacts, PageSizePos DEF Slot
<1>2. PICK i \in Nat, j \in Nat, k \in Nat : p = i * PageSize /\ PageSize = j * s /\ a - p = k * s
  BY <1>1 DEF Whole
<1>3. p \in Int /\ a = p + k * s
  <2>1. p \in Int /\ k * s \in Int
    BY <1>1, <1>2
  <2> QED
    BY <2>1, <1>1, <1>2
<1>4. i * (j * s) = (i * j) * s
  BY <1>1
<1>5. a = (i * j + k) * s /\ i * j + k \in Nat
  <2>1. (i * j + k) * s = (i * j) * s + k * s /\ i * j + k \in Nat
    BY <1>1
  <2> QED
    BY <2>1, <1>2, <1>3, <1>4
<1>6. ASSUME NEW q \in Nat PROVE (q * s) % s = 0
  BY <1>1
<1> QED
  BY <1>5, <1>6

\* What it says of small blocks.
LEMMA AlignSays ==
  ASSUME DataInv, AlignInv
  PROVE  SmallAligned
<1>1. PICK H, P : Now(H, P)
  BY DEF DataInv
<1> DEFINE BS == BlocksOf(live, loc)
           fr == FreshOf(pc, loc)
<1>2. World(mem, head, pagehead, fr, BS, H, P)
  BY <1>1 DEF Now, All
<1>3. Owned = BareOf(BS) /\ AbsPages = [c \in CPU |-> Pages(P, fr, c)]
  BY <1>1, AllShown, Seen DEF Now, Shown
<1> HIDE DEF BS, fr
<1>4. ASSUME NEW b \in SmallOwned PROVE b.ptr % b.size = 0
  <2>1. PICK x \in BS : b = Bare(x)
    BY <1>3 DEF SmallOwned, BareOf
  <2>2. b.ptr = x.ptr /\ b.size = x.size /\ ~IsHuge(x)
    BY <2>1 DEF SmallOwned, IsHuge, Bare
  <2>3. PICK p \in Pages(P, fr, x.cpu) : x.cpu \in CPU /\ x.size \in SmallSize /\ Slot(p, x.size, x.ptr)
    BY <1>2, <2>2, SmallIn
  <2>4. Whole(PageSize, p)
    BY <1>3, <2>3 DEF AlignInv
  <2> QED
    BY <2>2, <2>3, <2>4, SlotAligned
<1> QED
  BY <1>4 DEF SmallAligned

-----------------------------------------------------------------------------
(* The slots of a page *)

\* A whole number of blocks leaves no remainder.
LEMMA WholeMod ==
  ASSUME NEW s \in Nat \ {0}, NEW x, Whole(s, x)
  PROVE  x % s = 0
<1>1. PICK i \in Nat : x = i * s
  BY DEF Whole
<1>2. (i * s) % s = 0
  OBVIOUS
<1> QED
  BY <1>1, <1>2

\* The blocks that overlap the page at p are those that start in it.
LEMMA UsedIn ==
  ASSUME NEW H, NEW P, Now(H, P), NEW c \in CPU, NEW p \in P[c], NEW o \in BlocksIn(p)
  PROVE  \E b \in In(BlocksOf(live, loc), p) : o.ptr = b.ptr /\ o.size = b.size
<1> DEFINE BS == BlocksOf(live, loc)
           fr == FreshOf(pc, loc)
<1>1. World(mem, head, pagehead, fr, BS, H, P)
  BY DEF Now, All
<1>2. Owned = BareOf(BS)
  BY AllShown, Seen DEF Now, Shown
<1>3. PICK b \in BS : o = Bare(b)
  BY <1>2 DEF BlocksIn, BareOf
<1>4. o.ptr = b.ptr /\ o.size = b.size
  BY <1>3 DEF Bare
<1>5. p \in Pages(P, fr, c) /\ PageAt(p) /\ p \in Int /\ PageSize \in Int
  <2>1. p \in Pages(P, fr, c)
    BY DEF Pages
  <2> QED
    BY <1>1, <2>1, PageFacts DEF World, PageInv
<1>6. b.ptr \in Int /\ b.size \in Int
  BY <1>1, BlockFacts
<1> HIDE DEF BS, fr
<1>7. ASSUME Off(p, PageSize, b.ptr, b.size) PROVE FALSE
  <2>1. Run(p, PageSize) \cap Run(b.ptr, b.size) = {}
    BY <1>5, <1>6, <1>7, OffRuns
  <2> QED
    BY <2>1, <1>4 DEF BlocksIn
<1>8. b \in In(BS, p)
  BY <1>1, <1>5, <1>7, PageOrOff
<1> QED
  BY <1>4, <1>8 DEF BS

\* x is len > 0 whole slots, from the address at on, of the page at p of blocks of size s.
InSlots(p, s, x) ==
  /\ x.len > 0 /\ p + s <= x.at /\ x.at + x.len <= p + PageSize
  /\ (x.at - p) % s = 0 /\ x.len % s = 0

\* The free nodes and the blocks in use of a page.
LEMMA SlotsOf ==
  ASSUME NEW m, NEW p, PageAt(p), NEW s, s = m[p].size, NEW F, NEW B, s \in SmallSize, BlocksOK(m, p, B),
         F # {} => FreeOK(m, p, F, B), NEW X,
         \A x \in X : \/ x.kind = "free" /\ x.at \in F /\ x = [kind |-> "free", at |-> x.at, len |-> m[x.at].size]
                      \/ \E b \in B : x = [kind |-> "used", at |-> b.ptr, len |-> b.size]
  PROVE  (\A x \in X : InSlots(p, s, x)) /\ \A x, y \in X : ApartFrom(x, y)
<1>1. s \in Nat \ {0} /\ p \in Int /\ PageSize \in Nat
  BY SmallFacts, PageFacts
<1>2. ASSUME NEW f \in F
      PROVE  /\ f \in Int /\ m[f].size \in Nat \ {0} /\ p + s <= f /\ f + m[f].size <= p + PageSize
             /\ (f - p) % s = 0 /\ m[f].size % s = 0
             /\ \A g \in F : f # g => Off(f, m[f].size, g, m[g].size)
             /\ \A b \in B : Off(f, m[f].size, b.ptr, b.size)
  <2>1. FreeOK(m, p, F, B)
    BY <1>2
  <2>2. \A g \in F : /\ g \in Int /\ m[g].size \in Nat \ {0} /\ p + s <= g /\ g + m[g].size <= p + PageSize
                     /\ Slot(p, s, g) /\ Whole(s, m[g].size)
    BY ONLY <2>1, PageAt(p), s = m[p].size, s \in SmallSize, FreeFacts
  <2>3. (f - p) % s = 0 /\ m[f].size % s = 0
    BY <2>2, <1>1, <1>2, WholeMod DEF Slot
  <2>4. \A g \in F : /\ \A h \in F \ {g} : h < g \/ g + m[g].size <= h
                     /\ \A b \in B : b.ptr < g \/ g + m[g].size <= b.ptr
    BY <2>1 DEF FreeOK, Clear, Ptrs
  <2>5. ASSUME NEW g \in F, f # g PROVE Off(f, m[f].size, g, m[g].size)
    <3>1. (g < f \/ f + m[f].size <= g) /\ (f < g \/ g + m[g].size <= f)
      BY <2>4, <2>5, <1>2
    <3> QED
      BY <3>1, <2>2, <2>5, <1>2 DEF Off
  <2>6. ASSUME NEW b \in B PROVE Off(f, m[f].size, b.ptr, b.size)
    <3>1. f < b.ptr \/ b.ptr + b.size <= f
      BY ONLY <1>2, <2>1, <2>6, PageAt(p), s = m[p].size, s \in SmallSize, BlocksOK(m, p, B), NodeApart
    <3>2. b.ptr < f \/ f + m[f].size <= b.ptr
      BY <2>4, <2>6, <1>2
    <3>3. b.ptr \in Int /\ b.size \in Int
      BY <2>6, <1>1 DEF BlocksOK, Slot
    <3> QED
      BY <3>1, <3>2, <3>3, <2>2, <1>2 DEF Off
  <2> QED
    BY <2>2, <2>3, <2>5, <2>6, <1>2
<1>3. ASSUME NEW b \in B
      PROVE  /\ b.ptr \in Int /\ b.size = s /\ p + s <= b.ptr /\ b.ptr + s <= p + PageSize
             /\ (b.ptr - p) % s = 0 /\ s % s = 0
             /\ \A a \in B : a # b => Off(b.ptr, b.size, a.ptr, a.size)
  <2>1. b.size = s /\ Slot(p, s, b.ptr) /\ \A a \in B : a.size = s /\ Slot(p, s, a.ptr) /\ (a.ptr = b.ptr => a = b)
    BY <1>3 DEF BlocksOK
  <2>2. b.ptr \in Int /\ p + s <= b.ptr /\ b.ptr + s <= p + PageSize
    <3>1. p + s <= b.ptr /\ b.ptr + s <= p + PageSize
      BY ONLY <2>1, PageAt(p), s \in SmallSize, SlotFacts
    <3> QED
      BY <3>1, <2>1 DEF Slot
  <2>3. (b.ptr - p) % s = 0 /\ s % s = 0
    BY <2>1, <1>1, WholeMod DEF Slot
  <2>4. ASSUME NEW a \in B, a # b PROVE Off(b.ptr, b.size, a.ptr, a.size)
    <3>1. a.ptr # b.ptr /\ a.size = s /\ Slot(p, s, a.ptr) /\ a.ptr \in Int
      BY <2>1, <2>4 DEF Slot
    <3>2. (a.ptr < b.ptr => a.ptr + s <= b.ptr) /\ (b.ptr < a.ptr => b.ptr + s <= a.ptr)
      BY ONLY <2>1, <3>1, PageAt(p), s \in SmallSize, SlotFacts
    <3> QED
      BY <3>1, <3>2, <2>1, <2>2, <1>1 DEF Off
  <2> QED
    BY <2>1, <2>2, <2>3, <2>4
<1>4. ASSUME NEW x \in X PROVE InSlots(p, s, x) /\ x.at \in Int /\ x.len \in Int
  <2>1. CASE x.at \in F /\ x = [kind |-> "free", at |-> x.at, len |-> m[x.at].size]
    <3>1. x.len = m[x.at].size
      BY <2>1
    <3> QED
      BY <2>1, <3>1, <1>2 DEF InSlots
  <2>2. CASE \E b \in B : x = [kind |-> "used", at |-> b.ptr, len |-> b.size]
    <3>1. PICK b \in B : x.at = b.ptr /\ x.len = b.size
      BY <2>2
    <3> QED
      BY <3>1, <1>1, <1>3 DEF InSlots
  <2> QED
    BY <1>4, <2>1, <2>2
<1>5. ASSUME NEW x \in X, NEW y \in X, x # y PROVE Off(x.at, x.len, y.at, y.len)
  <2>1. CASE \E b \in B : x = [kind |-> "used", at |-> b.ptr, len |-> b.size]
    <3>1. PICK b \in B : x = [kind |-> "used", at |-> b.ptr, len |-> b.size]
      BY <2>1
    <3>2. CASE \E a \in B : y = [kind |-> "used", at |-> a.ptr, len |-> a.size]
      <4>1. PICK a \in B : y = [kind |-> "used", at |-> a.ptr, len |-> a.size]
        BY <3>2
      <4>2. a # b
        BY <3>1, <4>1, <1>5
      <4> QED
        BY <3>1, <4>1, <4>2, <1>3
    <3>3. CASE y.at \in F /\ y = [kind |-> "free", at |-> y.at, len |-> m[y.at].size]
      <4>1. y.len = m[y.at].size
        BY <3>3
      <4>2. Off(y.at, y.len, b.ptr, b.size)
        BY <3>3, <4>1, <1>2
      <4> QED
        BY <3>1, <4>2 DEF Off
    <3> QED
      BY <1>5, <3>2, <3>3
  <2>2. CASE x.at \in F /\ x = [kind |-> "free", at |-> x.at, len |-> m[x.at].size]
    <3>1. x.len = m[x.at].size
      BY <2>2
    <3>2. CASE \E a \in B : y = [kind |-> "used", at |-> a.ptr, len |-> a.size]
      <4>1. PICK a \in B : y.at = a.ptr /\ y.len = a.size
        BY <3>2
      <4> QED
        BY <2>2, <3>1, <4>1, <1>2
    <3>3. CASE y.at \in F /\ y = [kind |-> "free", at |-> y.at, len |-> m[y.at].size]
      <4>1. y.len = m[y.at].size /\ x.at # y.at
        BY <2>2, <3>3, <1>5
      <4> QED
        BY <2>2, <3>1, <3>3, <4>1, <1>2
    <3> QED
      BY <1>5, <3>2, <3>3
  <2> QED
    BY <1>5, <2>1, <2>2
<1>6. ASSUME NEW x \in X, NEW y \in X PROVE ApartFrom(x, y)
  <2>1. CASE x # y
    <3>1. Off(x.at, x.len, y.at, y.len) /\ x.at \in Int /\ x.len \in Int /\ y.at \in Int /\ y.len \in Int
      BY <2>1, <1>4, <1>5
    <3> QED
      BY <3>1, OffRuns DEF ApartFrom
  <2> QED
    BY <2>1 DEF ApartFrom
<1> QED
  BY <1>4, <1>6

\* What the invariant says of the slots of the pages.
LEMMA SlotsSays ==
  ASSUME DataInv
  PROVE  SlotsApart
<1>1. PICK H, P : Now(H, P)
  BY DEF DataInv
<1> DEFINE BS == BlocksOf(live, loc)
           fr == FreshOf(pc, loc)
<1>2. World(mem, head, pagehead, fr, BS, H, P) /\ mem \in Memory
  BY <1>1 DEF Now, All, World
<1>3. SUFFICES
        ASSUME NEW p \in AllPages, NEW s, s = mem[p].size,
               NEW nodes, nodes = IF mem[p].magic = 0 THEN {} ELSE Nodes(mem, FreeHead(mem, p)),
               NEW free, free = {[kind |-> "free", at |-> n, len |-> mem[n].size] : n \in nodes},
               NEW used, used = {[kind |-> "used", at |-> b.ptr, len |-> b.size] : b \in BlocksIn(p)}
        PROVE  IF s = 0 THEN used = {} /\ mem[p].magic = 1
               ELSE (\A x \in free \cup used : InSlots(p, s, x)) /\ \A x, y \in free \cup used : ApartFrom(x, y)
  BY ZenonT(60) DEF SlotsApart, InSlots
<1>4. PICK c \in CPU : p \in P[c]
  <2>1. \A e \in CPU : P[e] = Nodes(mem, pagehead[e])
    BY <1>2, ListsAre
  <2> QED
    BY <2>1 DEF AllPages
<1>5. PageOK(mem, p, In(BS, p)) /\ PageAt(p)
  BY <1>2, <1>4 DEF World, FillInv, PageInv, Pages
<1>6. \A o \in BlocksIn(p) : \E b \in In(BS, p) : o.ptr = b.ptr /\ o.size = b.size
  BY <1>1, <1>4, UsedIn
<1> HIDE DEF BS, fr
<1>7. CASE s = 0
  <2>1. mem[p].magic = 1 /\ In(BS, p) = {}
    BY <1>3, <1>5, <1>7, SmallFacts DEF PageOK
  <2> QED
    BY <2>1, <1>3, <1>6, <1>7
<1>8. CASE s # 0
  <2>1. s \in SmallSize /\ BlocksOK(mem, p, In(BS, p))
    BY <1>3, <1>5, <1>8 DEF PageOK
  <2>2. nodes # {} => FreeOK(mem, p, nodes, In(BS, p))
    <3>1. CASE mem[p].magic # 0
      <4>1. PICK F : FreeOK(mem, p, F, In(BS, p))
        BY <1>2, <1>3, <1>5, <1>8, <3>1, HasFree
      <4>2. F = nodes
        BY <4>1, <3>1, <1>3 DEF FreeOK, List
      <4> QED
        BY <4>1, <4>2
    <3> QED
      BY <3>1, <1>3
  <2>3. ASSUME NEW x \in free \cup used
        PROVE  \/ x.kind = "free" /\ x.at \in nodes /\ x = [kind |-> "free", at |-> x.at, len |-> mem[x.at].size]
               \/ \E b \in In(BS, p) : x = [kind |-> "used", at |-> b.ptr, len |-> b.size]
    <3>1. CASE x \in free
      BY <3>1, <1>3
    <3>2. CASE x \in used
      BY <3>2, <1>3, <1>6
    <3> QED
      BY <2>3, <3>1, <3>2
  <2>4. ASSUME NEW X, X = free \cup used
        PROVE  (\A x \in X : InSlots(p, s, x)) /\ \A x, y \in X : ApartFrom(x, y)
    <3>1. \A x \in X : \/ x.kind = "free" /\ x.at \in nodes /\ x = [kind |-> "free", at |-> x.at, len |-> mem[x.at].size]
                       \/ \E b \in In(BS, p) : x = [kind |-> "used", at |-> b.ptr, len |-> b.size]
      BY <2>3, <2>4
    <3>2. s = mem[p].size /\ PageAt(p)
      BY <1>3, <1>5
    <3> QED
      BY ONLY <2>1, <2>2, <3>1, <3>2, SlotsOf
  <2> QED
    BY <2>4, <1>8
<1> QED
  BY <1>7, <1>8

-----------------------------------------------------------------------------
(* The whole heap *)

\* What pages A and blocks B take from the heap.
TakenBy(A, B) ==
  (UNION {Run(p, PageSize) : p \in UNION {A[c] : c \in CPU}})
    \cup (UNION {Run(b.ptr - 1, b.size + 1) : b \in {x \in B : IsHuge(x)}})

\* Free memory, pages and huge blocks with their headers make up the heap.
Covered == Granule \ Taken \subseteq HeapFree

\* No free memory ends where a heap node starts: nodes that meet are merged.
Merged == \A n \in Nodes(mem, head) : n - 1 \notin HeapFree

\* What is taken, before and after a step.
LEMMA TakenIs == Taken = TakenBy(AbsPages, Owned) /\ Taken' = TakenBy(AbsPages', Owned')
<1>1. \A A : A = AbsPages => {A[c] : c \in CPU} = {PagesOf(c) : c \in CPU}
  BY DEF AbsPages
<1>2. \A A : A = AbsPages' => {A[c] : c \in CPU} = {PagesOf(c)' : c \in CPU}
  BY DEF AbsPages
<1>3. Taken = TakenBy(AbsPages, Owned)
  BY <1>1 DEF Taken, TakenBy, HugeOwned
<1>4. Taken' = TakenBy(AbsPages', Owned')
  BY <1>2 DEF Taken, TakenBy, HugeOwned
<1> QED
  BY <1>3, <1>4

\* What is taken, granule by granule.
LEMMA InTaken ==
  ASSUME NEW A, NEW B, NEW g
  PROVE  g \in TakenBy(A, B) <=>
           \/ \E c \in CPU : \E p \in A[c] : g \in Run(p, PageSize)
           \/ \E b \in B : IsHuge(b) /\ g \in Run(b.ptr - 1, b.size + 1)
BY DEF TakenBy

\* At first the heap is one free node.
LEMMA WholeInit == Init => Covered /\ Merged
<1> SUFFICES ASSUME Init PROVE Covered /\ Merged
  OBVIOUS
<1>1. HeapFree = Granule
  BY AllocInit DEF Alloc!Init
<1>2. Nodes(mem, head) = {HeapStart}
  BY InitHeap
<1>3. HeapStart - 1 \notin Granule
  BY HeapAssumption DEF Granule
<1> QED
  BY <1>1, <1>2, <1>3 DEF Covered, Merged

\* Free memory lies in the heap.
LEMMA FreeInHeap ==
  ASSUME DataInv
  PROVE  HeapFree \subseteq Granule /\ \A g \in HeapFree : g \in Int
<1>1. PICK H, P : Now(H, P)
  BY DEF DataInv
<1>2. World(mem, head, pagehead, FreshOf(pc, loc), BlocksOf(live, loc), H, P) /\ HeapFree = FreeOf(mem, H)
  BY <1>1, AllShown, Seen DEF Now, All, Shown
<1>3. \A n \in H : n \in Granule /\ n \in Int /\ mem[n].size \in Nat \ {0} /\ n + mem[n].size <= HeapEnd
  BY <1>2, NodeFacts
<1>4. \A n \in H : Run(n, mem[n].size) \subseteq Granule
  BY <1>3, HeapAssumption DEF Run, Granule
<1>5. HeapFree \subseteq Granule
  BY <1>2, <1>4 DEF FreeOf
<1> QED
  BY <1>5, GranuleInt

\* A step of AllocSpec loses nothing of the heap.
LEMMA CoveredNext ==
  ASSUME DataInv, Covered, Alloc!Next \/ Unseen
  PROVE  Covered'
<1> DEFINE A == AbsPages
           A2 == AbsPages'
<1>1. Granule \ TakenBy(A, Owned) \subseteq HeapFree
  BY TakenIs DEF Covered
<1>2. ASSUME Granule \ TakenBy(A2, Owned') \subseteq HeapFree' PROVE Covered'
  BY <1>2, TakenIs DEF Covered
<1>3. CASE Unseen
  BY <1>1, <1>2, <1>3 DEF Unseen, HeapSame, PagesSame, OwnedSame
<1>4. ASSUME NEW c \in CPU, Alloc!TakePage(c) PROVE Covered'
  <2>1. PICK p : /\ HeapFree' = HeapFree \ Run(p, PageSize) /\ A2 = [A EXCEPT ![c] = @ \cup {p}]
                 /\ Owned' = Owned
    BY <1>4 DEF Alloc!TakePage, Alloc!Span, Run, AbsPages
  <2>2. A2[c] = A[c] \cup {p} /\ \A d \in CPU : A[d] \subseteq A2[d]
    BY <2>1 DEF AbsPages
  <2> HIDE DEF A, A2
  <2>3. TakenBy(A, Owned) \cup Run(p, PageSize) \subseteq TakenBy(A2, Owned')
    BY <2>1, <2>2, InTaken
  <2> QED
    BY <2>1, <2>3, <1>1, <1>2
<1>5. ASSUME NEW c \in CPU, Alloc!AllocSmall(c) PROVE Covered'
  <2>1. A2 = A /\ HeapFree' = HeapFree /\ Owned \subseteq Owned'
    BY <1>5 DEF Alloc!AllocSmall, AbsPages
  <2>2. TakenBy(A, Owned) \subseteq TakenBy(A2, Owned')
    BY <2>1, InTaken
  <2> QED
    BY <2>1, <2>2, <1>1, <1>2
<1>6. CASE Alloc!AllocHuge
  <2>1. PICK hd \in HeapFree, s \in {z \in SizeClass : MaxSmall < z /\ z <= MaxHuge} :
           /\ HeapFree' = HeapFree \ Run(hd, s + 1) /\ A2 = A
           /\ Owned' = Owned \cup {[ptr |-> hd + 1, size |-> s]}
    BY <1>6 DEF Alloc!AllocHuge, Alloc!Span, Run, AbsPages
  <2>2. PICK b : b = [ptr |-> hd + 1, size |-> s]
    OBVIOUS
  <2>3. b \in Owned' /\ IsHuge(b) /\ b.ptr = hd + 1 /\ b.size = s
    BY <2>1, <2>2 DEF IsHuge
  <2>4. hd \in Int
    BY <2>1, FreeInHeap
  <2>5. Run(b.ptr - 1, b.size + 1) = Run(hd, s + 1)
    BY <2>3, <2>4 DEF Run
  <2> HIDE DEF A, A2
  <2>6. TakenBy(A, Owned) \cup Run(hd, s + 1) \subseteq TakenBy(A2, Owned')
    BY <2>1, <2>3, <2>5, InTaken
  <2> QED
    BY <2>1, <2>6, <1>1, <1>2
<1>7. CASE Alloc!FreeSmall
  <2>1. PICK b \in Alloc!Small : Owned' = Owned \ {b} /\ A2 = A /\ HeapFree' = HeapFree
    BY <1>7 DEF Alloc!FreeSmall, AbsPages
  <2>2. ~IsHuge(b)
    <3>1. b.size \in SizeClass /\ b.size <= MaxSmall
      BY <2>1 DEF Alloc!Small
    <3> QED
      BY <3>1, ClassFacts DEF IsHuge
  <2>3. TakenBy(A, Owned) \subseteq TakenBy(A2, Owned')
    BY <2>1, <2>2, InTaken
  <2> QED
    BY <2>1, <2>3, <1>1, <1>2
<1>8. CASE Alloc!FreeHuge
  <2>1. PICK b \in Owned : /\ Owned' = Owned \ {b} /\ A2 = A
                           /\ HeapFree' = HeapFree \cup Run(b.ptr - 1, b.size + 1)
    BY <1>8 DEF Alloc!FreeHuge, Alloc!Huge, Alloc!HugeSpan, Alloc!Span, Run, AbsPages
  <2>2. TakenBy(A, Owned) \subseteq TakenBy(A2, Owned') \cup Run(b.ptr - 1, b.size + 1)
    BY <2>1, InTaken
  <2> QED
    BY <2>1, <2>2, <1>1, <1>2
<1> QED
  BY <1>3, <1>4, <1>5, <1>6, <1>7, <1>8 DEF Alloc!Next
\* Heap nodes that stay where they are stay apart when free memory does not grow.
LEMMA MergedKept ==
  ASSUME Merged, Nodes(mem', head') \subseteq Nodes(mem, head), HeapFree' \subseteq HeapFree
  PROVE  Merged'
BY DEF Merged

\* A page or a huge block that is cut leaves no free memory below a new node, and kfree
\* of a huge block joins the node after it.
LEMMA MergedNext ==
  ASSUME ~RemoteFree, Careful, HugeRejoins, SizesBounded, DataInv, Merged, [Next]_vars
  PROVE  Merged'
<1>1. PICK H, P : Now(H, P)
  BY DEF DataInv
<1>2. SlotLeft /\ HeaderFits
  BY DEF Careful
<1>3. ASSUME NEW P2, Now(H, P2)', HeapFree' \subseteq HeapFree PROVE Merged'
  <2>1. Nodes(mem', head') = Nodes(mem, head)
    BY <1>1, <1>3, SameNodes
  <2> QED
    BY <2>1, <1>3, MergedKept
<1>4. CASE UNCHANGED <<mem, head>>
  BY <1>4, Seen, MergedKept
<1>5. Unseen => HeapFree' = HeapFree
  BY DEF Unseen, HeapSame
<1>6. \A n \in Nodes(mem, head) : n \in Int
  <2>1. World(mem, head, pagehead, FreshOf(pc, loc), BlocksOf(live, loc), H, P)
    BY <1>1 DEF Now, All
  <2> QED
    BY <2>1, ListsAre, NodeFacts
<1>7. ASSUME NEW c \in CPU, Call(c) PROVE Merged'
  <2>1. Unseen
    BY ONLY <1>1, <1>7, ~RemoteFree, CallView
  <2>2. Now(H, P)'
    BY <1>1, <1>7, KfreeStep, CallStep DEF Call
  <2> QED
    BY <2>1, <2>2, <1>3, <1>5
<1>8. ASSUME NEW c \in CPU, Work(c) PROVE Merged'
  <2>1. CASE \/ AllockpageLock(c) \/ FirstLock(c) \/ SearchLock(c) \/ NeedPage(c) \/ NoPage(c)
             \/ HugeLock(c) \/ KfreeLock(c) \/ KfreeNotInPage(c) \/ KfreeHugeLock(c)
    <3>1. Now(H, P)' /\ Unseen
      BY ONLY <1>1, <2>1, c \in CPU, QuietView, QuietStep
    <3> QED
      BY <3>1, <1>3, <1>5
  <2>2. CASE FirstPanic(c) \/ Stray(c)
    BY <2>2, <1>4 DEF FirstPanic, Stray, Panic
  <2>3. CASE FastPanic(c) \/ KfreePanic(c) \/ KfreeHugePanic(c)
    BY <1>1, <2>3, NoFastPanic, NoKfreePanic, NoHugePanic
  <2>4. CASE Allockpage(c)
    <3>1. ASSUME NEW n \in Nodes(mem, head), StartsFrom(n) PROVE Merged'
      <4>1. n \in Int /\ PageSize \in Nat \ {0}
        BY <1>6, PageSizePos
      <4>2. n + PageSize - 1 \in Run(n, PageSize)
        BY <4>1 DEF Run
      <4>3. \A k \in Nodes(mem', head') : k \in Nodes(mem, head) \/ k = n + PageSize
        BY <3>1 DEF StartsFrom
      <4>4. HeapFree' = HeapFree \ Run(n, PageSize)
        BY <3>1 DEF StartsFrom
      <4>5. ASSUME NEW k \in Nodes(mem', head') PROVE k - 1 \notin HeapFree'
        <5>1. CASE k \in Nodes(mem, head)
          BY <5>1, <4>4 DEF Merged
        <5>2. CASE k = n + PageSize
          BY <5>2, <4>1, <4>2, <4>4
        <5> QED
          BY <4>3, <5>1, <5>2
      <4> QED
        BY <4>5 DEF Merged
    <3>2. \/ \E n \in Nodes(mem, head) : StartsFrom(n)
          \/ PagesSame /\ UNCHANGED <<mem, head>>
      BY <1>1, <2>4, AllockpageView
    <3> QED
      BY <3>1, <3>2, <1>4
  <2>5. CASE FirstInit(c)
    <3>1. PICK P2 : Now(H, P2)'
      BY <1>1, <2>5, FirstInitStep DEF Listed
    <3>2. Unseen
      BY <1>1, <2>5, FirstInitView
    <3> QED
      BY <3>1, <3>2, <1>3, <1>5
  <2>6. CASE FindPage(c) \/ Zero(c) \/ Return(c) \/ KfreeScan(c)
    <3>1. Unseen
      BY <1>1, <1>2, <2>6, InHandView
    <3>2. Now(H, P)'
      BY <1>1, <1>2, <2>6, FindPageStep, ZeroStep, ReturnStep, KfreeScanStep
    <3> QED
      BY <3>1, <3>2, <1>3, <1>5
  <2>7. CASE FastPath(c) \/ ReusePage(c) \/ InsertPage(c)
    <3>1. Alloc!AllocSmall(c)
      BY <1>1, <2>7, AllocView
    <3>2. HeapFree' = HeapFree
      BY <3>1 DEF Alloc!AllocSmall
    <3>3. PICK P2 : Now(H, P2)'
      BY <1>1, <2>7, FastPathStep, ReusePageStep, InsertPageStep DEF Listed
    <3> QED
      BY <3>2, <3>3, <1>3
  <2>8. CASE KallocHugeMemory(c)
    <3>1. Alloc!AllocHuge \/ Unseen
      BY <1>1, <1>2, <2>8, KallocHugeView
    <3>2. HeapFree' \subseteq HeapFree
      BY <3>1, <1>5 DEF Alloc!AllocHuge
    <3>3. Now(H, P)'
      BY <1>1, <1>2, <2>8, KallocHugeStep
    <3> QED
      BY <3>2, <3>3, <1>3
  <2>9. CASE KfreeLink(c)
    <3>1. Alloc!FreeSmall
      BY <1>1, <2>9, KfreeLinkView
    <3>2. HeapFree' = HeapFree
      BY <3>1 DEF Alloc!FreeSmall
    <3>3. Now(H, P)'
      BY <1>1, <2>9, KfreeLinkStep
    <3> QED
      BY <3>2, <3>3, <1>3
  <2>10. CASE KfreeHuge(c)
    <3>1. PICK hd, s \in Int : Rejoined(hd, s)
      BY <1>1, <2>10, KfreeHugeView
    <3>2. ASSUME NEW n \in Nodes(mem', head') PROVE n - 1 \notin HeapFree'
      <4>1. n \in Nodes(mem, head) /\ n # hd + 1 + s /\ n \in Int
        BY <1>6, <3>1 DEF Rejoined
      <4>2. n <= hd \/ hd + 1 + s < n
        BY <3>1, <4>1 DEF Rejoined
      <4>3. n - 1 \notin Run(hd, s + 1)
        BY <4>1, <4>2 DEF Run
      <4> QED
        BY <4>1, <4>3, <3>1 DEF Rejoined, Merged
    <3> QED
      BY <3>2 DEF Merged
  <2> QED
    BY <1>8, <2>1, <2>2, <2>3, <2>4, <2>5, <2>6, <2>7, <2>8, <2>9, <2>10 DEF Work
<1>9. CASE UNCHANGED vars
  BY <1>4, <1>9 DEF vars
<1> QED
  BY <1>7, <1>8, <1>9 DEF Next

\* Room for k granules in a row is room in one node.
LEMMA RoomInNode ==
  ASSUME DataInv, Covered, Merged, NEW k \in Nat \ {0}, Room(k)
  PROVE  \E n \in Nodes(mem, head) : mem[n].size >= k
<1>1. PICK H, P : Now(H, P)
  BY DEF DataInv
<1>2. World(mem, head, pagehead, FreshOf(pc, loc), BlocksOf(live, loc), H, P) /\ HeapFree = FreeOf(mem, H)
  BY <1>1, AllShown, Seen DEF Now, All, Shown
<1>3. \A n \in H : n \in Int /\ mem[n].size \in Nat \ {0}
  BY <1>2, NodeFacts
<1>4. H = Nodes(mem, head)
  BY <1>2, ListsAre
<1>5. PICK g \in Granule : Run(g, k) \subseteq HeapFree
  BY DEF Room, Covered
<1>6. g \in Int /\ g \in Run(g, k)
  BY GranuleInt DEF Run
<1>7. PICK n \in H : g \in Run(n, mem[n].size)
  BY <1>2, <1>5, <1>6 DEF FreeOf
<1> DEFINE e == n + mem[n].size
<1>8. n <= g /\ g < e /\ e \in Int /\ n \in Int
  BY <1>3, <1>6, <1>7 DEF Run
<1>9. ASSUME e < g + k PROVE FALSE
  <2>1. e \in Run(g, k) /\ e - 1 \in Run(g, k)
    BY <1>6, <1>8, <1>9 DEF Run
  <2>2. e \in HeapFree /\ e - 1 \in HeapFree
    BY <2>1, <1>5
  <2> HIDE DEF e
  <2>3. PICK o \in H : e \in Run(o, mem[o].size)
    BY <2>2, <1>2 DEF FreeOf
  <2>4. o \in Int /\ mem[o].size \in Nat \ {0} /\ o <= e /\ e < o + mem[o].size
    BY <2>3, <1>3, <1>8 DEF Run
  <2>5. o # n
    BY <2>4 DEF e
  <2>6. Off(n, mem[n].size, o, mem[o].size)
    BY <2>5, <1>2 DEF World, SpanInv
  <2>7. o = e
    BY <2>4, <2>6, <1>3, <1>8 DEF Off, e
  <2> QED
    BY <2>2, <2>7, <1>4 DEF Merged
<1>10. mem[n].size >= k
  BY <1>3, <1>6, <1>8, <1>9
<1> QED
  BY <1>4, <1>10
\* Only allockpage and kallocHugeMemory leave their labels.
LEMMA LabelLeft ==
  ASSUME DataInv, [Next]_vars, NEW c \in CPU, pc'[c] # pc[c]
  PROVE  /\ pc[c] \in {"first_page", "new_page"} => Allockpage(c)
         /\ pc[c] = "huge" => KallocHugeMemory(c)
<1> DEFINE Labels == {"first_page", "new_page", "huge"}
<1> SUFFICES ASSUME pc[c] \in Labels
             PROVE  \/ Allockpage(c) /\ pc[c] # "huge"
                    \/ KallocHugeMemory(c) /\ pc[c] = "huge"
  OBVIOUS
<1>0. PICK H, P : Now(H, P)
  BY DEF DataInv
<1>1. pc \in [CPU -> PC]
  BY <1>0 DEF Now, All
<1>2. PICK d \in CPU : Call(d) \/ Work(d)
  BY DEF Next, vars
<1>3. ASSUME NEW label, Goto(d, label) PROVE d = c
  BY <1>1, <1>3 DEF Goto
<1>4. ASSUME NEW label, pc[d] = label, label \notin Labels, \E to : Goto(d, to) PROVE FALSE
  BY <1>3, <1>4
<1>5. CASE Call(d)
  <2>1. pc[d] = "idle" /\ \E to : Goto(d, to)
    BY <1>5 DEF Call, KallocSmall, KallocHuge, KallocTooBig, Kfree, At
  <2> QED
    BY <2>1, <1>4
<1>6. CASE AllockpageLock(d) \/ FirstLock(d) \/ FirstInit(d) \/ SearchLock(d)
  <2>1. pc[d] \notin Labels /\ \E to : Goto(d, to)
    BY <1>6 DEF AllockpageLock, FirstLock, FirstInit, SearchLock, At
  <2> QED
    BY <2>1, <1>4
<1>7. CASE FirstPanic(d) \/ FastPanic(d) \/ KfreePanic(d) \/ KfreeHugePanic(d) \/ Stray(d)
  <2>1. FirstPanic(d) \/ Stray(d)
    BY <1>7, <1>0, NoFastPanic, NoKfreePanic, NoHugePanic
  <2> QED
    BY <2>1 DEF FirstPanic, Stray, Panic
<1>8. CASE FindPage(d) \/ FastPath(d) \/ Zero(d)
  <2>1. pc[d] \notin Labels /\ \E to : Goto(d, to)
    BY <1>8 DEF FindPage, FastPath, Zero, At
  <2> QED
    BY <2>1, <1>4
<1>9. CASE ReusePage(d) \/ NeedPage(d) \/ InsertPage(d) \/ NoPage(d)
  <2>1. pc[d] \notin Labels /\ \E to : Goto(d, to)
    BY <1>9 DEF ReusePage, NeedPage, InsertPage, NoPage, At
  <2> QED
    BY <2>1, <1>4
<1>10. CASE HugeLock(d) \/ Return(d) \/ KfreeLock(d)
  <2>1. pc[d] \notin Labels /\ \E to : Goto(d, to)
    BY <1>10 DEF HugeLock, Return, KfreeLock, At
  <2> QED
    BY <2>1, <1>4
<1>11. CASE KfreeScan(d) \/ KfreeLink(d) \/ KfreeNotInPage(d) \/ KfreeHugeLock(d) \/ KfreeHuge(d)
  <2>1. pc[d] \notin Labels /\ \E to : Goto(d, to)
    BY <1>11 DEF KfreeScan, KfreeLink, KfreeNotInPage, KfreeHugeLock, KfreeHuge, At
  <2> QED
    BY <2>1, <1>4
<1>12. CASE Allockpage(d)
  <2>1. pc[d] = "first_page" \/ pc[d] = "new_page"
    BY <1>12 DEF Allockpage, At
  <2>2. \E to : Goto(d, to)
    BY <1>12, Zenon DEF Allockpage
  <2>3. d = c
    BY <2>2, <1>3
  <2>4. pc[c] # "huge"
    BY <2>1, <2>3
  <2>5. Allockpage(c)
    BY <2>3, <1>12
  <2> QED
    BY <2>4, <2>5
<1>13. CASE KallocHugeMemory(d)
  <2>1. pc[d] = "huge" /\ \E to : Goto(d, to)
    BY <1>13 DEF KallocHugeMemory, At
  <2> QED
    BY <2>1, <1>3, <1>13
<1> QED
  BY <1>2, <1>5, <1>6, <1>7, <1>8, <1>9, <1>10, <1>11, <1>12, <1>13 DEF Work

\* allockpage has no page to give only when none fits.
LEMMA NoPageFits ==
  ASSUME DataInv, Covered, Merged, NEW c \in CPU, Allockpage(c), loc'[c].ph = NULL
  PROVE  ~Room(PageSize)
<1>1. PICK H, P : Now(H, P)
  BY DEF DataInv
<1>2. loc \in [CPU -> Locals]
  BY <1>1 DEF Now, All
<1>3. ASSUME NEW n \in PageFits(mem), loc' = [loc EXCEPT ![c] = [loc[c] EXCEPT !.ph = n]] PROVE FALSE
  <2>1. loc'[c].ph = n
    BY <1>2, <1>3 DEF Locals
  <2> QED
    BY <1>3, <2>1, GranuleInt DEF PageFits
<1>4. Nodes(mem, head) \cap PageFits(mem) = {}
  BY <1>3 DEF Allockpage, SetLocals
<1>5. \A n \in Nodes(mem, head) : n \in Granule
  <2>1. World(mem, head, pagehead, FreshOf(pc, loc), BlocksOf(live, loc), H, P)
    BY <1>1 DEF Now, All
  <2> QED
    BY <2>1, ListsAre, NodeFacts
<1>6. \A n \in Nodes(mem, head) : ~(mem[n].size >= PageSize)
  BY <1>4, <1>5 DEF PageFits
<1> QED
  BY <1>6, RoomInNode, PageSizePos

\* kallocHugeMemory has no block to give only when none fits with its header.
LEMMA NoHugeFits ==
  ASSUME DataInv, Covered, Merged, NEW c \in CPU, KallocHugeMemory(c), HeaderFits, loc'[c].ptr = NULL
  PROVE  ~Room(loc[c].size + 1)
<1> DEFINE s == loc[c].size
           fitting == Nodes(mem, head) \cap HugeFits(mem, s)
<1>1. PICK H, P : Now(H, P)
  BY DEF DataInv
<1>2. World(mem, head, pagehead, FreshOf(pc, loc), BlocksOf(live, loc), H, P) /\ loc \in [CPU -> Locals]
  BY <1>1 DEF Now, All
<1>3. \A n \in Nodes(mem, head) : n \in Granule /\ n \in Int /\ mem[n].size \in Nat \ {0}
  BY <1>2, ListsAre, NodeFacts
<1>4. pc[c] = "huge"
  BY DEF KallocHugeMemory, At
<1>5. s \in Nat \ {0}
  BY <1>1, <1>4, ProcFacts, ClassFacts DEF Shape
<1>6. ASSUME NEW n \in fitting, Highest(n, fitting),
             loc' = [loc EXCEPT ![c] = [loc[c] EXCEPT !.ptr = HugeBlock(mem, n, s)]]
      PROVE  FALSE
  <2>1. mem[n].size > s + 1
    BY <1>4, <1>6 DEF HeaderFits
  <2>2. n \in Int /\ mem[n].size \in Int /\ n >= HeapStart
    <3>1. n \in Granule /\ n \in Int /\ mem[n].size \in Int
      BY <1>3
    <3> QED
      BY <3>1, HeapAssumption DEF Granule
  <2>3. loc'[c].ptr = n + mem[n].size - s
    BY <1>2, <1>6 DEF Locals, HugeBlock
  <2> HIDE DEF s, fitting
  <2> QED
    BY <2>1, <2>2, <2>3, <1>5, HeapAssumption DEF NULL
<1>7. fitting = {}
  BY <1>6 DEF KallocHugeMemory, SetLocals
<1>8. \A n \in Nodes(mem, head) : ~(mem[n].size >= s + 1)
  <2> HIDE DEF s
  <2> QED
    BY <1>3, <1>5, <1>7 DEF HugeFits
<1>9. s + 1 \in Nat \ {0}
  BY <1>5
<1> QED
  BY <1>8, <1>9, RoomInNode

\* What kalloc finds when it returns NULL.
LEMMA NullNext ==
  ASSUME DataInv, Covered, Merged, Careful, [Next]_vars
  PROVE  \A c \in CPU :
           /\ pc[c] \in {"first_page", "new_page"} /\ pc'[c] # pc[c] /\ loc'[c].ph = NULL
                => ~Room(PageSize)
           /\ pc[c] = "huge" /\ pc'[c] = "ret" /\ loc'[c].ptr = NULL
                => ~Room(loc[c].size + 1)
  BY LabelLeft, NoPageFits, NoHugeFits DEF Careful

\* Free memory, pages and huge blocks are apart.
LEMMA CoveredExactly ==
  ASSUME DataInv, Covered
  PROVE  HeapFree = Granule \ Taken
<1>1. Alloc!Separate
  BY ApartSays
<1>2. \A p \in Alloc!AllPages : Run(p, PageSize) \cap HeapFree = {}
  BY <1>1 DEF Alloc!Separate, Alloc!Span, Run
<1>3. \A b \in HugeOwned : Run(b.ptr - 1, b.size + 1) \cap HeapFree = {}
  <2>1. PICK H, P : Now(H, P)
    BY DEF DataInv
  <2>2. /\ World(mem, head, pagehead, FreshOf(pc, loc), BlocksOf(live, loc), H, P)
        /\ HeapFree = FreeOf(mem, H) /\ Owned = BareOf(BlocksOf(live, loc))
    BY <2>1, AllShown, Seen DEF Now, All, Shown
  <2>3. ASSUME NEW b \in HugeOwned PROVE Run(b.ptr - 1, b.size + 1) \cap HeapFree = {}
    <3>1. PICK x \in BlocksOf(live, loc) : b = Bare(x)
      BY <2>2 DEF HugeOwned, BareOf
    <3>2. b.ptr = x.ptr /\ b.size = x.size /\ x \in Huge(BlocksOf(live, loc))
      BY <3>1 DEF HugeOwned, Huge, IsHuge, Bare
    <3>3. \A n \in H : Off(n, mem[n].size, x.ptr - 1, x.size + 1)
      BY <2>2, <3>2 DEF World, SpanInv
    <3>4. x.ptr - 1 \in Int /\ x.size + 1 \in Int
      BY <2>2, BlockFacts
    <3>5. \A n \in H : Run(n, mem[n].size) \cap Run(x.ptr - 1, x.size + 1) = {}
      BY <2>2, <3>3, <3>4, NodeFacts, OffRuns
    <3> QED
      BY <3>2, <3>5, <2>2 DEF FreeOf
  <2> QED
    BY <2>3
<1>4. HeapFree \cap Taken = {}
  BY <1>2, <1>3 DEF Taken, Alloc!AllPages
<1> QED
  BY <1>4, FreeInHeap DEF Covered

-----------------------------------------------------------------------------
(* The theorems *)

\* The bytes of every block a client holds are those it wrote, whatever the processors do
\* at the same time: kalloc, kfree and the heap never write to them (pmm.c kalloc, kfree).
THEOREM DataCorrect ==
  ASSUME ~RemoteFree
  PROVE  Spec /\ []Careful => []LiveDataIntact
<1>1. Init => DataInv
  BY DataInit
<1>2. DataInv /\ Careful /\ [Next]_vars => DataInv'
  BY DataNext
<1>3. DataInv => LiveDataIntact
  BY DataSays
<1> QED
  BY <1>1, <1>2, <1>3, PTL DEF Spec

\* kalloc returns a small block all of whose bytes are zero, the memset of the fast and of
\* the slow path included, also when the block has been used before.
THEOREM ZeroedCorrect ==
  ASSUME ~RemoteFree
  PROVE  Spec /\ []Careful => []SmallZeroed
<1>1. Init => DataInv
  BY DataInit
<1>2. DataInv /\ Careful /\ [Next]_vars => DataInv'
  BY DataNext
<1>3. DataInv => SmallZeroed
  BY DataSays
<1> QED
  BY <1>1, <1>2, <1>3, PTL DEF Spec

\* Every loop over the heap list, a page list or the free list of a page ends: the links
\* that kalloc and kfree set never form a cycle.
THEOREM ListsCorrect ==
  ASSUME ~RemoteFree
  PROVE  Spec /\ []Careful => []ListsEnd
<1>1. Init => DataInv
  BY DataInit
<1>2. DataInv /\ Careful /\ [Next]_vars => DataInv'
  BY DataNext
<1>3. DataInv => ListsEnd
  BY DataSays
<1> QED
  BY <1>1, <1>2, <1>3, PTL DEF Spec

(* StaysInHeap: every loop of kalloc and kfree over a list meets what it looks for or a null
   link, and every load and store is in the heap: the links, indices and sizes that a call
   leaves behind are those the next one needs, on whatever processors they run. *)
THEOREM HeapStays ==
  ASSUME ~RemoteFree
  PROVE  Spec /\ []Careful => []StaysInHeap
<1>1. Init => DataInv
  BY DataInit
<1>2. DataInv /\ Careful /\ [Next]_vars => DataInv'
  BY DataNext
<1>3. DataInv /\ Careful => StaysInHeap
  BY StaysSays
<1> QED
  BY <1>1, <1>2, <1>3, PTL DEF Spec

(* SlotsApart: in every page the free nodes and the blocks in use are whole slots behind the
   header, pairwise apart, after any sequence of merges with one neighbour or with both; a
   page that kfree declares empty has no block in use. *)
THEOREM SlotsCorrect ==
  ASSUME ~RemoteFree
  PROVE  Spec /\ []Careful => []SlotsApart
<1>1. Init => DataInv
  BY DataInit
<1>2. DataInv /\ Careful /\ [Next]_vars => DataInv'
  BY DataNext
<1>3. DataInv => SlotsApart
  BY SlotsSays
<1> QED
  BY <1>1, <1>2, <1>3, PTL DEF Spec

\* The assertions of the fast path, of the link step of kfree and of the huge free never
\* fail; a processor halts only where kalloc asserts that it got its first page, and the
\* heap had none to give.
THEOREM PanicCorrect ==
  ASSUME ~RemoteFree
  PROVE  Spec /\ []Careful => [][MemoryPanicOnly]_vars
<1>1. Init => DataInv
  BY DataInit
<1>2. DataInv /\ Careful /\ [Next]_vars => DataInv'
  BY DataNext
<1>3. DataInv /\ Careful /\ [Next]_vars => [MemoryPanicOnly]_vars
  BY PanicNext
<1> QED
  BY <1>1, <1>2, <1>3, PTL DEF Spec

(* No two blocks that kalloc has handed out and kfree not yet taken back share a byte, none
   lies in free memory, and free memory, the pages of the processors and the huge blocks
   with their headers are pairwise apart: so it is also when the header of a huge block is
   lost. *)
THEOREM BlocksApart ==
  ASSUME ~RemoteFree
  PROVE  Spec /\ []Careful => [](Alloc!NoOverlap /\ Alloc!Separate)
<1>1. Init => DataInv
  BY DataInit
<1>2. DataInv /\ Careful /\ [Next]_vars => DataInv'
  BY DataNext
<1>3. DataInv => Alloc!NoOverlap /\ Alloc!Separate
  BY ApartSays
<1> QED
  BY <1>1, <1>2, <1>3, PTL DEF Spec

(* ImplementsAlloc: the lists of kalloc and kfree implement free memory, pages and blocks
   as sets of granules.  Careful and HugeRejoins are needed: a block freed in a full page,
   a huge block cut from a node without room for its header, or one put back next to no
   free memory, leaves granules that are in two places, or in none. *)
THEOREM AllocCorrect ==
  ASSUME ~RemoteFree
  PROVE  Spec /\ []Careful /\ []HugeRejoins => ImplementsAlloc
<1>1. Init => DataInv /\ SizesBounded /\ Alloc!Init
  BY DataInit, SizesInit, AllocInit
<1>2. DataInv /\ SizesBounded /\ Careful /\ [Next]_vars => DataInv' /\ SizesBounded'
  BY DataNext, SizesNext
<1>3. DataInv /\ SizesBounded /\ Careful /\ HugeRejoins /\ [Next]_vars => [Alloc!Next]_Alloc!vars
  <2> SUFFICES ASSUME DataInv, SizesBounded, Careful, HugeRejoins, [Next]_vars
               PROVE  [Alloc!Next]_Alloc!vars
    OBVIOUS
  <2>1. Alloc!Next \/ Unseen
    BY AllocNext
  <2>2. Unseen => UNCHANGED Alloc!vars
    BY DEF Unseen, HeapSame, PagesSame, OwnedSame, AbsPages, Alloc!vars
  <2> QED
    BY <2>1, <2>2
<1> QED
  BY <1>1, <1>2, <1>3, PTL DEF Spec, ImplementsAlloc, Alloc!Spec

(* SmallAligned: every block carved from a page is aligned to its size, since heap nodes
   keep starting at multiples of the page size.  HugeRejoins is needed: a huge block put
   back on its own starts a node at its header, and the pages cut from that are not
   aligned. *)
THEOREM AlignCorrect ==
  ASSUME ~RemoteFree
  PROVE  Spec /\ []Careful /\ []HugeRejoins => []SmallAligned
<1>1. Init => DataInv /\ SizesBounded /\ AlignInv
  BY DataInit, SizesInit, AlignInit
<1>2. DataInv /\ SizesBounded /\ AlignInv /\ Careful /\ HugeRejoins /\ [Next]_vars
        => DataInv' /\ SizesBounded' /\ AlignInv'
  BY DataNext, SizesNext, AlignNext
<1>3. DataInv /\ AlignInv => SmallAligned
  BY AlignSays
<1> QED
  BY <1>1, <1>2, <1>3, PTL DEF Spec

(* Nothing is lost: memory that is neither in a page nor in a huge block with its header is
   on the heap list, whatever kalloc and kfree have taken and given back.  HugeRejoins is
   needed, since a huge block that is put back on its own loses its header (pmm.c:483). *)
THEOREM HeapCovered ==
  ASSUME ~RemoteFree
  PROVE  Spec /\ []Careful /\ []HugeRejoins => [](HeapFree = Granule \ Taken)
<1>1. Init => DataInv /\ SizesBounded /\ Covered
  BY DataInit, SizesInit, WholeInit
<1>2. DataInv /\ SizesBounded /\ Covered /\ Careful /\ HugeRejoins /\ [Next]_vars
        => DataInv' /\ SizesBounded' /\ Covered'
  BY DataNext, SizesNext, AllocNext, CoveredNext
<1>3. DataInv /\ Covered => HeapFree = Granule \ Taken
  BY CoveredExactly
<1> QED
  BY <1>1, <1>2, <1>3, PTL DEF Spec

(* NullMeansFull: allockpage finds no page, and kallocHugeMemory no block, only when there is
   no room for one with its header anywhere in the heap.  Nothing is lost (Covered) and heap
   nodes that meet are merged (Merged), so room in the heap is room in one node. *)
THEOREM NullCorrect ==
  ASSUME ~RemoteFree
  PROVE  Spec /\ []Careful /\ []HugeRejoins => NullMeansFull
<1> DEFINE I == DataInv /\ SizesBounded /\ Covered /\ Merged
<1>1. Init => I
  BY DataInit, SizesInit, WholeInit
<1>2. I /\ Careful /\ HugeRejoins /\ [Next]_vars => I'
  BY DataNext, SizesNext, AllocNext, CoveredNext, MergedNext
<1>3. I /\ Careful /\ [Next]_vars
        => [\A c \in CPU :
              /\ pc[c] \in {"first_page", "new_page"} /\ pc'[c] # pc[c] /\ loc'[c].ph = NULL
                   => ~Room(PageSize)
              /\ pc[c] = "huge" /\ pc'[c] = "ret" /\ loc'[c].ptr = NULL
                   => ~Room(loc[c].size + 1)]_vars
  BY NullNext
<1> QED
  BY <1>1, <1>2, <1>3, PTL DEF Spec, NullMeansFull
=============================================================================
