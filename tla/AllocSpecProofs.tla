-------------------------- MODULE AllocSpecProofs --------------------------
(***************************************************************************)
(* The abstract allocator is safe, for every heap, page size, set of block *)
(* sizes and number of processors.                                         *)
(***************************************************************************)
EXTENDS AllocSpec, TLAPS

TypeOK ==
  /\ free \subseteq Heap
  /\ pages \in [CPU -> SUBSET Heap]
  /\ blocks \subseteq [ptr : Int, size : SmallClass \cup HugeClass]

SmallApart ==
  \A a, b \in Small : a # b => Span(a.ptr, a.size) \cap Span(b.ptr, b.size) = {}

Inv == TypeOK /\ Accounted /\ Separate /\ SmallInPages /\ SmallApart

-----------------------------------------------------------------------------
(* Slot i of a page of blocks of size s ends within the page. *)
LEMMA SlotFits ==
  ASSUME NEW s \in SmallClass, NEW i \in 1 .. (PageSize \div s - 1), NEW p \in Int
  PROVE  p + i * s \in Int /\ Span(p + i * s, s) \subseteq Span(p, PageSize)
  <1> DEFINE q == PageSize \div s
  <1>1. s \in Nat /\ s > 0 /\ PageSize \in Nat /\ i \in Nat
    BY AllocAssumption
  <1>2. q \in Int /\ q * s <= PageSize /\ i + 1 <= q
    BY <1>1
  <1>3. (i + 1) * s <= q * s
    <2> HIDE DEF q
    <2> QED
      BY <1>1, <1>2
  <1>4. i * s \in Nat /\ i * s + s <= PageSize
    <2> HIDE DEF q
    <2>1. (i + 1) * s = i * s + s /\ i * s \in Nat /\ q * s \in Int
      BY <1>1, <1>2
    <2> QED
      BY <1>1, <1>2, <1>3, <2>1
  <1> DEFINE d == i * s
  <1> HIDE DEF d
  <1>5. d \in Nat /\ d + s <= PageSize
    BY <1>4 DEF d
  <1>6. p + d \in Int /\ Span(p + d, s) \subseteq Span(p, PageSize)
    BY <1>1, <1>5 DEF Span
  <1> QED
    BY <1>6 DEF d

(* A block of a huge size and a block of a small size are told apart. *)
LEMMA BlockKinds ==
  ASSUME TypeOK, NEW b \in blocks
  PROVE  /\ b.ptr \in Int /\ b.size \in Nat /\ b.size > 0
         /\ b \in Small \/ b \in Huge
  <1>1. b.ptr \in Int /\ b.size \in SmallClass \cup HugeClass
    BY DEF TypeOK
  <1>2. b \in Small \/ b \in Huge
    BY <1>1 DEF Small, Huge
  <1>3. b.size \in Nat /\ b.size > 0
    <2>1. \A n \in SmallClass \cup HugeClass : n \in Nat /\ n > 0
      BY AllocAssumption
    <2> QED
      BY <1>1, <2>1
  <1> QED
    BY <1>1, <1>2, <1>3

(* The header and the block of a huge block. *)
LEMMA HugeCovers ==
  ASSUME TypeOK, NEW b \in Huge
  PROVE  Span(b.ptr, b.size) \subseteq HugeSpan(b)
  <1>1. b \in blocks
    BY DEF Huge
  <1>2. b.ptr \in Int /\ b.size \in Nat
    BY <1>1, BlockKinds
  <1> QED
    BY <1>2 DEF HugeSpan, Span

(* Which granules the pages P and the huge blocks H take up. *)
LEMMA PageGranules ==
  ASSUME NEW P
  PROVE  \A g : g \in UNION {Span(p, PageSize) : p \in P} <=> \E p \in P : g \in Span(p, PageSize)
  OBVIOUS

\* The granules of the huge blocks.
LEMMA HugeGranules ==
  ASSUME NEW H
  PROVE  \A g : g \in UNION {HugeSpan(b) : b \in H} <=> \E b \in H : g \in HugeSpan(b)
  OBVIOUS

(* Accounted, granule by granule, for the parts of this state or the next. *)
Covers(f, P, H) ==
  \A g : g \in Heap <=>
    \/ g \in f
    \/ \E p \in P : g \in Span(p, PageSize)
    \/ \E b \in H : g \in HugeSpan(b)

\* Covering the heap granule by granule is partitioning it.
LEMMA CoversHeap ==
  ASSUME NEW f, NEW P, NEW H
  PROVE  Covers(f, P, H) <=>
           Heap = f \cup (UNION {Span(p, PageSize) : p \in P}) \cup (UNION {HugeSpan(b) : b \in H})
  <1> DEFINE Ps == UNION {Span(p, PageSize) : p \in P}
             Hs == UNION {HugeSpan(b) : b \in H}
  <1>1. \A g : g \in Ps <=> \E p \in P : g \in Span(p, PageSize)
    BY PageGranules
  <1>2. \A g : g \in Hs <=> \E b \in H : g \in HugeSpan(b)
    BY HugeGranules
  <1> HIDE DEF Ps, Hs
  <1>3. Covers(f, P, H) <=> \A g : g \in Heap <=> g \in f \/ g \in Ps \/ g \in Hs
    BY <1>1, <1>2 DEF Covers
  <1>4. Heap = f \cup Ps \cup Hs <=> \A g : g \in Heap <=> g \in f \/ g \in Ps \/ g \in Hs
    OBVIOUS
  <1>5. Covers(f, P, H) <=> Heap = f \cup Ps \cup Hs
    BY <1>3, <1>4
  <1> QED
    BY <1>5 DEF Ps, Hs

\* The inductive invariant holds initially.
LEMMA InvInit == Init => Inv
  <1> SUFFICES ASSUME Init PROVE Inv
    OBVIOUS
  <1>1. AllPages = {} /\ Huge = {} /\ Small = {}
    BY DEF Init, AllPages, Huge, Small
  <1>2. TypeOK
    BY DEF Init, TypeOK
  <1>3. Accounted
    BY <1>1 DEF Init, Accounted, PageMemory, HugeMemory
  <1>4. Separate
    BY <1>1 DEF Init, Separate
  <1> QED
    BY <1>1, <1>2, <1>3, <1>4 DEF Inv, SmallInPages, SmallApart

(* allockpage *)
LEMMA InvTakePage ==
  ASSUME Inv, NEW c \in CPU, TakePage(c)
  PROVE  Inv'
  <1>1. PICK p \in free : /\ Span(p, PageSize) \subseteq free
                          /\ free' = free \ Span(p, PageSize)
                          /\ pages' = [pages EXCEPT ![c] = @ \cup {p}]
                          /\ blocks' = blocks
    BY DEF TakePage
  <1> USE DEF Inv
  <1>2. p \in Int /\ p \in Span(p, PageSize) /\ p \in Heap
    <2>1. p \in Int /\ p \in Heap
      BY AllocAssumption DEF TypeOK
    <2> QED
      BY <2>1, AllocAssumption DEF Span
  <1>3. /\ pages'[c] = pages[c] \cup {p}
        /\ \A d \in CPU \ {c} : pages'[d] = pages[d]
    BY <1>1 DEF TypeOK
  <1>4. AllPages' = AllPages \cup {p}
    BY <1>3 DEF AllPages
  <1>5. Small' = Small /\ Huge' = Huge
    BY <1>1 DEF Small, Huge
  <1>6. p \notin AllPages
    BY <1>1, <1>2 DEF Separate
  <1>7. TypeOK'
    BY <1>1, <1>2 DEF TypeOK
  <1>8. Accounted'
    <2>1. Covers(free, AllPages, Huge)
      BY CoversHeap DEF Accounted, PageMemory, HugeMemory
    <2>2. Covers(free', AllPages', Huge')
      BY <1>1, <1>4, <1>5, <2>1 DEF Covers
    <2> QED
      BY <2>2, CoversHeap DEF Accounted, PageMemory, HugeMemory, HugeSpan, Span
  <1>9. Separate'
    <2>1. \A q \in AllPages' : Span(q, PageSize) \cap free' = {}
      BY <1>1, <1>4 DEF Separate
    <2>2. \A b \in Huge' : HugeSpan(b) \cap free' = {}
      BY <1>1, <1>5 DEF Separate
    <2>3. \A q, r \in AllPages' : q # r => Span(q, PageSize) \cap Span(r, PageSize) = {}
      BY <1>1, <1>4 DEF Separate
    <2>4. \A q \in AllPages', b \in Huge' : Span(q, PageSize) \cap HugeSpan(b) = {}
      BY <1>1, <1>4, <1>5 DEF Separate
    <2>5. \A a, b \in Huge' : a # b => HugeSpan(a) \cap HugeSpan(b) = {}
      BY <1>5 DEF Separate
    <2>6. \A d, e \in CPU : d # e => pages'[d] \cap pages'[e] = {}
      BY <1>3, <1>6 DEF Separate, AllPages
    <2> QED
      BY <2>1, <2>2, <2>3, <2>4, <2>5, <2>6 DEF Separate, HugeSpan, Span
  <1>10. SmallInPages' /\ SmallApart'
    BY <1>4, <1>5 DEF SmallInPages, SmallApart, Span
  <1> QED
    BY <1>7, <1>8, <1>9, <1>10

(* kalloc of a block in a page *)
LEMMA InvAllocSmall ==
  ASSUME Inv, NEW c \in CPU, AllocSmall(c)
  PROVE  Inv'
  <1> USE DEF Inv
  <1>1. PICK p \in pages[c], s \in SmallClass :
          \E i \in 1 .. (PageSize \div s - 1) :
            /\ \A b \in Small : Span(p + i * s, s) \cap Span(b.ptr, b.size) = {}
            /\ blocks' = blocks \cup {[ptr |-> p + i * s, size |-> s]}
            /\ UNCHANGED <<free, pages>>
    BY DEF AllocSmall
  <1>2. PICK i \in 1 .. (PageSize \div s - 1) :
            /\ \A b \in Small : Span(p + i * s, s) \cap Span(b.ptr, b.size) = {}
            /\ blocks' = blocks \cup {[ptr |-> p + i * s, size |-> s]}
            /\ UNCHANGED <<free, pages>>
    BY <1>1
  <1> DEFINE a == p + i * s
             new == [ptr |-> a, size |-> s]
  <1>3. p \in Int /\ p \in AllPages
    BY AllocAssumption DEF TypeOK, AllPages
  <1>4. a \in Int /\ Span(a, s) \subseteq Span(p, PageSize)
    BY <1>3, SlotFits
  <1>5. AllPages' = AllPages
    BY <1>2 DEF AllPages
  <1> HIDE DEF a
  <1>6. new.ptr = a /\ new.size = s
    OBVIOUS
  <1>7. blocks' = blocks \cup {new}
    BY <1>2 DEF a
  <1> HIDE DEF new
  <1>8. Small' = Small \cup {new} /\ Huge' = Huge
    BY <1>6, <1>7, AllocAssumption DEF Small, Huge
  <1>9. TypeOK'
    <2>1. new \in [ptr : Int, size : SmallClass \cup HugeClass]
      BY <1>4 DEF new
    <2> QED
      BY <1>2, <1>7, <2>1 DEF TypeOK
  <1>10. Accounted' /\ Separate'
    BY <1>2, <1>5, <1>8 DEF Accounted, PageMemory, HugeMemory, Separate, HugeSpan, Span
  <1>11. SmallInPages'
    <2>1. \A b \in Small' : \E q \in AllPages' : Span(b.ptr, b.size) \subseteq Span(q, PageSize)
      BY <1>3, <1>4, <1>5, <1>6, <1>8 DEF SmallInPages
    <2> QED
      BY <2>1 DEF SmallInPages, Span
  <1>12. SmallApart'
    <2>1. \A b \in Small : Span(a, s) \cap Span(b.ptr, b.size) = {}
      BY <1>2 DEF a
    <2>2. \A b, d \in Small' : b # d => Span(b.ptr, b.size) \cap Span(d.ptr, d.size) = {}
      BY <1>6, <1>8, <2>1 DEF SmallApart
    <2> QED
      BY <2>2 DEF SmallApart, Span
  <1> QED
    BY <1>9, <1>10, <1>11, <1>12

(* kallocHugeMemory *)
LEMMA InvAllocHuge ==
  ASSUME Inv, AllocHuge
  PROVE  Inv'
  <1> USE DEF Inv
  <1>1. PICK hd \in free, s \in HugeClass :
          /\ Span(hd, s + 1) \subseteq free
          /\ free' = free \ Span(hd, s + 1)
          /\ blocks' = blocks \cup {[ptr |-> hd + 1, size |-> s]}
          /\ pages' = pages
    BY DEF AllocHuge
  <1> DEFINE new == [ptr |-> hd + 1, size |-> s]
  <1>2. hd \in Int /\ s \in Nat
    BY AllocAssumption DEF TypeOK
  <1>3. new.ptr = hd + 1 /\ new.size = s
    OBVIOUS
  <1>4. HugeSpan(new) = Span(hd, s + 1)
    BY <1>2, <1>3 DEF HugeSpan
  <1>5. blocks' = blocks \cup {new}
    BY <1>1
  <1>6. AllPages' = AllPages
    BY <1>1 DEF AllPages
  <1>7. new \in [ptr : Int, size : SmallClass \cup HugeClass]
    BY <1>2
  <1> HIDE DEF new
  <1>8. Huge' = Huge \cup {new} /\ Small' = Small
    BY <1>3, <1>5, AllocAssumption DEF Small, Huge
  <1>9. TypeOK'
    BY <1>1, <1>5, <1>7 DEF TypeOK
  <1>10. Accounted'
    <2>1. Covers(free, AllPages, Huge)
      BY CoversHeap DEF Accounted, PageMemory, HugeMemory
    <2>2. Covers(free', AllPages', Huge')
      BY <1>1, <1>4, <1>6, <1>8, <2>1 DEF Covers
    <2> QED
      BY <2>2, CoversHeap DEF Accounted, PageMemory, HugeMemory, HugeSpan, Span
  <1>11. Separate'
    <2>1. \A q \in AllPages' : Span(q, PageSize) \cap free' = {}
      BY <1>1, <1>6 DEF Separate
    <2>2. \A b \in Huge' : HugeSpan(b) \cap free' = {}
      BY <1>1, <1>4, <1>8 DEF Separate
    <2>3. \A q, r \in AllPages' : q # r => Span(q, PageSize) \cap Span(r, PageSize) = {}
      BY <1>6 DEF Separate
    <2>4. \A q \in AllPages', b \in Huge' : Span(q, PageSize) \cap HugeSpan(b) = {}
      BY <1>1, <1>4, <1>6, <1>8 DEF Separate
    <2>5. \A a, b \in Huge' : a # b => HugeSpan(a) \cap HugeSpan(b) = {}
      BY <1>1, <1>4, <1>8 DEF Separate
    <2>6. \A d, e \in CPU : d # e => pages'[d] \cap pages'[e] = {}
      BY <1>1 DEF Separate
    <2> QED
      BY <2>1, <2>2, <2>3, <2>4, <2>5, <2>6 DEF Separate, HugeSpan, Span
  <1>12. SmallInPages' /\ SmallApart'
    BY <1>6, <1>8 DEF SmallInPages, SmallApart, Span
  <1> QED
    BY <1>9, <1>10, <1>11, <1>12

(* kfree of a block in a page *)
LEMMA InvFreeSmall ==
  ASSUME Inv, FreeSmall
  PROVE  Inv'
  <1> USE DEF Inv
  <1>1. PICK b \in Small : blocks' = blocks \ {b} /\ UNCHANGED <<free, pages>>
    BY DEF FreeSmall
  <1>2. AllPages' = AllPages
    BY <1>1 DEF AllPages
  <1>3. Small' \subseteq Small /\ Huge' = Huge
    BY <1>1, AllocAssumption DEF Small, Huge
  <1>4. TypeOK'
    BY <1>1 DEF TypeOK
  <1>5. Accounted' /\ Separate'
    BY <1>1, <1>2, <1>3 DEF Accounted, PageMemory, HugeMemory, Separate, HugeSpan, Span
  <1>6. SmallInPages' /\ SmallApart'
    BY <1>2, <1>3 DEF SmallInPages, SmallApart, Span
  <1> QED
    BY <1>4, <1>5, <1>6

(* kfree of a huge block *)
LEMMA InvFreeHuge ==
  ASSUME Inv, FreeHuge
  PROVE  Inv'
  <1> USE DEF Inv
  <1>1. PICK b \in Huge : /\ blocks' = blocks \ {b}
                          /\ free' = free \cup HugeSpan(b)
                          /\ pages' = pages
    BY DEF FreeHuge
  <1>2. AllPages' = AllPages
    BY <1>1 DEF AllPages
  <1>3. Small' = Small /\ Huge' = Huge \ {b}
    BY <1>1, AllocAssumption DEF Small, Huge
  <1>c. Covers(free, AllPages, Huge)
    BY CoversHeap DEF Accounted, PageMemory, HugeMemory
  <1>4. HugeSpan(b) \subseteq Heap
    BY <1>c DEF Covers
  <1>5. TypeOK'
    BY <1>1, <1>4 DEF TypeOK
  <1>6. Accounted'
    <2>1. Covers(free', AllPages', Huge')
      BY <1>1, <1>2, <1>3, <1>c DEF Covers
    <2> QED
      BY <2>1, CoversHeap DEF Accounted, PageMemory, HugeMemory, HugeSpan, Span
  <1>7. Separate'
    <2>1. \A q \in AllPages' : Span(q, PageSize) \cap free' = {}
      BY <1>1, <1>2 DEF Separate
    <2>2. \A a \in Huge' : HugeSpan(a) \cap free' = {}
      BY <1>1, <1>3 DEF Separate
    <2>3. \A q, r \in AllPages' : q # r => Span(q, PageSize) \cap Span(r, PageSize) = {}
      BY <1>2 DEF Separate
    <2>4. \A q \in AllPages', a \in Huge' : Span(q, PageSize) \cap HugeSpan(a) = {}
      BY <1>2, <1>3 DEF Separate
    <2>5. \A a, d \in Huge' : a # d => HugeSpan(a) \cap HugeSpan(d) = {}
      BY <1>3 DEF Separate
    <2>6. \A d, e \in CPU : d # e => pages'[d] \cap pages'[e] = {}
      BY <1>1 DEF Separate
    <2> QED
      BY <2>1, <2>2, <2>3, <2>4, <2>5, <2>6 DEF Separate, HugeSpan, Span
  <1>8. SmallInPages' /\ SmallApart'
    BY <1>2, <1>3 DEF SmallInPages, SmallApart, Span
  <1> QED
    BY <1>5, <1>6, <1>7, <1>8

\* Every step preserves the inductive invariant.
LEMMA InvNext == Inv /\ [Next]_vars => Inv'
  <1> SUFFICES ASSUME Inv, [Next]_vars PROVE Inv'
    OBVIOUS
  <1>1. CASE UNCHANGED vars
    <2>1. free' = free /\ pages' = pages /\ blocks' = blocks
      BY <1>1 DEF vars
    <2>2. AllPages' = AllPages /\ Small' = Small /\ Huge' = Huge
      BY <2>1 DEF AllPages, Small, Huge
    <2>3. TypeOK' /\ SmallInPages' /\ SmallApart'
      BY <2>1, <2>2 DEF Inv, TypeOK, SmallInPages, SmallApart, Span
    <2>4. Accounted' /\ Separate'
      BY <2>1, <2>2 DEF Inv, Accounted, PageMemory, HugeMemory, Separate, HugeSpan, Span
    <2> QED
      BY <2>3, <2>4 DEF Inv
  <1>2. CASE Next
    BY <1>2, InvTakePage, InvAllocSmall, InvAllocHuge, InvFreeSmall, InvFreeHuge DEF Next
  <1> QED
    BY <1>1, <1>2

\* The inductive invariant always holds.
LEMMA InvAlways == Spec => []Inv
  BY InvInit, InvNext, PTL DEF Spec

-----------------------------------------------------------------------------
(* The parts of the heap add up to the heap. *)
THEOREM HeapAccounted == Spec => []Accounted
  <1>1. Inv => Accounted
    BY DEF Inv
  <1> QED
    BY <1>1, InvAlways, PTL

(* The parts of the heap are disjoint and each page has one owner. *)
THEOREM HeapSeparate == Spec => []Separate
  <1>1. Inv => Separate
    BY DEF Inv
  <1> QED
    BY <1>1, InvAlways, PTL

(* Blocks never overlap: two small ones by the slots they are cut from, two huge
   ones and one of each kind because the parts of the heap are disjoint. *)
THEOREM BlocksDisjoint == Spec => []NoOverlap
  <1>1. Inv => NoOverlap
    <2> SUFFICES ASSUME Inv PROVE NoOverlap
      OBVIOUS
    <2> USE DEF Inv
    <2>1. \A b \in blocks : b \in Small \/ b \in Huge
      BY BlockKinds
    <2>2. \A b \in Huge : Span(b.ptr, b.size) \subseteq HugeSpan(b)
      BY HugeCovers
    <2>3. \A a, b \in Huge : a # b => Span(a.ptr, a.size) \cap Span(b.ptr, b.size) = {}
      BY <2>2 DEF Separate
    <2>4. \A a \in Small, b \in Huge : Span(a.ptr, a.size) \cap Span(b.ptr, b.size) = {}
      BY <2>2 DEF Separate, SmallInPages
    <2>5. \A b \in blocks : Span(b.ptr, b.size) \cap free = {}
      BY <2>1, <2>2 DEF Separate, SmallInPages
    <2>6. \A a, b \in blocks : a # b => Span(a.ptr, a.size) \cap Span(b.ptr, b.size) = {}
      BY <2>1, <2>3, <2>4 DEF SmallApart
    <2> QED
      BY <2>5, <2>6 DEF NoOverlap
  <1> QED
    BY <1>1, InvAlways, PTL
=============================================================================
