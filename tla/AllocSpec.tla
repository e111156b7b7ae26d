----------------------------- MODULE AllocSpec -----------------------------
(***************************************************************************)
(* What the allocator of kernel/src/pmm.c promises, without lists, nodes   *)
(* or locks: the heap is a set of free granules, processors own pages cut  *)
(* from it, and blocks are cut from a page of the caller or, with a header *)
(* granule below them, directly from the heap.                             *)
(***************************************************************************)
EXTENDS Integers

CONSTANTS CPU, Heap, PageSize, SmallClass, HugeClass

ASSUME AllocAssumption ==
  /\ Heap \subseteq Int
  /\ PageSize \in Nat \ {0} /\ SmallClass \subseteq Nat \ {0} /\ HugeClass \subseteq Nat \ {0}
  /\ SmallClass \cap HugeClass = {}

VARIABLES
  free,    \* granules of the heap that nobody owns
  pages,   \* pages[c]: the addresses of the pages processor c owns
  blocks   \* the blocks that are handed out: [ptr, size]

vars == <<free, pages, blocks>>

Span(a, n) == a .. (a + n - 1)

\* The granules a block takes from the heap, its header included.
HugeSpan(b) == Span(b.ptr - 1, b.size + 1)

Small == {b \in blocks : b.size \in SmallClass}
Huge == {b \in blocks : b.size \in HugeClass}

Init ==
  /\ free = Heap
  /\ pages = [c \in CPU |-> {}]
  /\ blocks = {}

\* A plausible bug: the page stays free.
TakePage_StillFree(c) ==
  \E p \in free :
    /\ Span(p, PageSize) \subseteq free
    /\ pages' = [pages EXCEPT ![c] = @ \cup {p}]
    /\ UNCHANGED <<free, blocks>>

\* allockpage
TakePage(c) ==
  \E p \in free :
    /\ Span(p, PageSize) \subseteq free
    /\ free' = free \ Span(p, PageSize)
    /\ pages' = [pages EXCEPT ![c] = @ \cup {p}]
    /\ UNCHANGED blocks

\* A plausible bug: one block more than fits behind the header slot.
AllocSmall_OnePast(c) ==
  \E p \in pages[c], s \in SmallClass : \E i \in 1 .. (PageSize \div s) :
    /\ \A b \in Small : Span(p + i * s, s) \cap Span(b.ptr, b.size) = {}
    /\ blocks' = blocks \cup {[ptr |-> p + i * s, size |-> s]}
    /\ UNCHANGED <<free, pages>>

\* kalloc of a small block: above the header, inside a page of c, aligned in
\* the page, over no other block.
AllocSmall(c) ==
  \E p \in pages[c], s \in SmallClass : \E i \in 1 .. (PageSize \div s - 1) :
    /\ \A b \in Small : Span(p + i * s, s) \cap Span(b.ptr, b.size) = {}
    /\ blocks' = blocks \cup {[ptr |-> p + i * s, size |-> s]}
    /\ UNCHANGED <<free, pages>>

\* kallocHugeMemory
AllocHuge ==
  \E hd \in free, s \in HugeClass :
    /\ Span(hd, s + 1) \subseteq free
    /\ free' = free \ Span(hd, s + 1)
    /\ blocks' = blocks \cup {[ptr |-> hd + 1, size |-> s]}
    /\ UNCHANGED pages

\* kfree
FreeSmall ==
  \E b \in Small : blocks' = blocks \ {b} /\ UNCHANGED <<free, pages>>

\* A plausible bug: the header is not given back.
FreeHuge_KeepHeader ==
  \E b \in Huge :
    /\ blocks' = blocks \ {b}
    /\ free' = free \cup Span(b.ptr, b.size)
    /\ UNCHANGED pages

FreeHuge ==
  \E b \in Huge :
    /\ blocks' = blocks \ {b}
    /\ free' = free \cup HugeSpan(b)
    /\ UNCHANGED pages

Next == (\E c \in CPU : TakePage(c) \/ AllocSmall(c)) \/ AllocHuge \/ FreeSmall \/ FreeHuge

Spec == Init /\ [][Next]_vars

-----------------------------------------------------------------------------
AllPages == UNION {pages[c] : c \in CPU}

PageMemory == UNION {Span(p, PageSize) : p \in AllPages}
HugeMemory == UNION {HugeSpan(b) : b \in Huge}

(* No two blocks that are handed out share a granule, be they carved from pages
   of any processors or from the heap, and no block lies in free memory. *)
NoOverlap ==
  /\ \A a, b \in blocks : a # b => Span(a.ptr, a.size) \cap Span(b.ptr, b.size) = {}
  /\ \A b \in blocks : Span(b.ptr, b.size) \cap free = {}

(* Free memory, pages and huge blocks with their headers make up the heap:
   nothing is lost, whatever is allocated and freed. *)
Accounted == Heap = free \cup PageMemory \cup HugeMemory

(* Free memory, the pages and the huge blocks with their headers are disjoint,
   and no page has two owners. *)
Separate ==
  /\ \A p \in AllPages : Span(p, PageSize) \cap free = {}
  /\ \A b \in Huge : HugeSpan(b) \cap free = {}
  /\ \A p, q \in AllPages : p # q => Span(p, PageSize) \cap Span(q, PageSize) = {}
  /\ \A p \in AllPages, b \in Huge : Span(p, PageSize) \cap HugeSpan(b) = {}
  /\ \A a, b \in Huge : a # b => HugeSpan(a) \cap HugeSpan(b) = {}
  /\ \A c, d \in CPU : c # d => pages[c] \cap pages[d] = {}

(* Every small block lies within some page: it reaches neither past the page's
   end nor into another page. *)
SmallInPages ==
  \A b \in Small : \E p \in AllPages : Span(b.ptr, b.size) \subseteq Span(p, PageSize)
=============================================================================
