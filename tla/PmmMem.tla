------------------------------- MODULE PmmMem -------------------------------
(***************************************************************************)
(* The heap of kernel/src/pmm.c and the edits the allocator makes in it.   *)
(*                                                                         *)
(* The four node types of kernel/include/common.h (pageheader_t,           *)
(* pagefreenode_t, header_t, freenode_t) are 16 bytes each with the same   *)
(* layout: a pointer, an int and an int.  Every address the allocator      *)
(* computes is a multiple of 16, so memory is a function from 16-byte      *)
(* granules to cells, and one cell is any of the four nodes.  All sizes    *)
(* and addresses below are counted in granules.                            *)
(***************************************************************************)
EXTENDS Integers

CONSTANTS
  PageSize,    \* 64 KiB: what allockpage takes from the heap at a time
  MinSize,     \* 32 bytes: the smallest block kalloc hands out
  MaxSmall,    \* 16 KiB: the largest block that is carved from a page
  SizeClass,   \* the values powval takes: MinSize, 2 * MinSize, ...
  HeapStart,   \* heap.start
  HeapEnd      \* heap.end

(***************************************************************************)
(* heap.start is not NULL and is page aligned (trm.c rounds it up to       *)
(* 1 MiB); the size classes are MinSize and its doublings; a page of       *)
(* MaxSmall blocks has a header slot and at least three block slots, and   *)
(* a page is a whole number of blocks of each small size (powers of two).  *)
(***************************************************************************)
ASSUME SizeAssumption ==
  /\ PageSize \in Nat /\ MinSize \in Nat \ {0} /\ MaxSmall \in SizeClass
  /\ SizeClass \subseteq Nat \ {0}
  /\ MinSize \in SizeClass
  /\ \A s \in SizeClass : s = MinSize \/ \E t \in SizeClass : s = 2 * t
  /\ 4 * MaxSmall <= PageSize
  /\ \A s \in SizeClass : s <= MaxSmall => PageSize % s = 0

ASSUME HeapAssumption ==
  /\ HeapStart \in Nat \ {0} /\ HeapEnd \in Nat /\ HeapStart < HeapEnd
  /\ HeapStart % PageSize = 0

NULL == 0

\* The two literals pmm.c stamps on nodes.
PAGE_MAGIC == 1234567
HUGE_MAGIC == 7654321

Granule == HeapStart .. (HeapEnd - 1)

\* A node; the third field is magic, or pagefreehead_index in a page header.
Cell == [next : Int, size : Int, magic : Int]

ZeroCell == [next |-> NULL, size |-> 0, magic |-> 0]

Memory == [Granule -> Cell]

Run(a, n) == a .. (a + n - 1)

memset0(m, a, n) == [g \in Granule |-> IF g \in Run(a, n) THEN ZeroCell ELSE m[g]]

(***************************************************************************)
(* Lists.  Nodes(m, h) is what "while (h) ... h = h->next" visits from h;  *)
(* the walk comes to an end only if it meets a null next (Ends): it may    *)
(* also leave the heap or come back to a node, and what Pmm lets happen    *)
(* then is Strays.  First says that n is where a walk that stops at the    *)
(* first good node stops.                                                  *)
(***************************************************************************)
Nodes(m, h) ==
  LET walk[w \in Int \X SUBSET Granule] ==  \* w: the address reached, the nodes seen
        IF w[1] \in Granule \ w[2] THEN walk[<<m[w[1]].next, w[2] \cup {w[1]}>>] ELSE w[2]
  IN  walk[<<h, {}>>]

Ends(m, h) == h = NULL \/ \E n \in Nodes(m, h) : m[n].next = NULL

First(m, h, n, Good) ==
  /\ n \in Nodes(m, h) \cap Good
  /\ (Nodes(m, h) \ Nodes(m, n)) \cap Good = {}

\* x is the greatest (least) member of S, or NULL when S is empty.
Highest(x, S) == IF S = {} THEN x = NULL ELSE x \in S /\ \A y \in S : y <= x
Lowest(x, S) == IF S = {} THEN x = NULL ELSE x \in S /\ \A y \in S : x <= y

\* The walk "if (h->next == n) break" from h finds a node ...
HasPrev(m, h, n) == \E g \in Nodes(m, h) : m[g].next = n

\* ... whose next becomes n->next.
Unlink(m, h, n) ==
  [g \in Granule |->
     IF g \in Nodes(m, h) /\ m[g].next = n
       THEN [m[g] EXCEPT !.next = m[n].next] ELSE m[g]]

(***************************************************************************)
(* allockpage: the heap node n loses its first page.  A node of exactly    *)
(* one page leaves the list; a longer one is replaced by its tail.         *)
(***************************************************************************)
\* A plausible bug: a node of exactly one page is passed over.
PageFits_Strict(m) == {g \in Granule : m[g].size > PageSize}

PageFits(m) == {g \in Granule : m[g].size >= PageSize}

\* A plausible bug: the tail keeps the size of the whole node.
TakePage_KeepSize(m, h, n) ==
  LET tail == n + PageSize
      split == [m EXCEPT ![tail] = [@ EXCEPT !.next = m[n].next, !.size = m[n].size]]
      linked == [g \in Granule |->
                   IF g \in Nodes(m, h) /\ m[g].next = n
                     THEN [split[g] EXCEPT !.next = tail] ELSE split[g]]
  IN  memset0(IF m[n].size = PageSize THEN Unlink(m, h, n) ELSE linked, n, 1)

TakePage(m, h, n) ==
  LET tail == n + PageSize
      split == [m EXCEPT ![tail] =
                  [@ EXCEPT !.next = m[n].next, !.size = m[n].size - PageSize]]
      linked == [g \in Granule |->
                   IF g \in Nodes(m, h) /\ m[g].next = n
                     THEN [split[g] EXCEPT !.next = tail] ELSE split[g]]
  IN  memset0(IF m[n].size = PageSize THEN Unlink(m, h, n) ELSE linked, n, 1)

HeadAfterTakePage(m, h, n) ==
  IF h # n THEN h
  ELSE IF m[n].size = PageSize THEN m[n].next ELSE n + PageSize

(***************************************************************************)
(* kallocHugeMemory: the block is the high end of node n, with its header  *)
(* in the granule below it.  h->size is an int compared with a size_t, so  *)
(* a negative size counts as large.                                        *)
(***************************************************************************)
HugeFits(m, s) == {g \in Granule : m[g].size >= s \/ m[g].size < 0}

HugeBlock(m, n, s) == n + m[n].size - s

\* A plausible bug: the node forgets that the header is taken from it too.
TakeHuge_NoHeader(m, n, s) ==
  LET header == HugeBlock(m, n, s) - 1
      shrunk == [m EXCEPT ![n].size = header + 1 - n]
  IN  [shrunk EXCEPT ![header] = [@ EXCEPT !.size = s, !.magic = HUGE_MAGIC]]

TakeHuge(m, n, s) ==
  LET header == HugeBlock(m, n, s) - 1
      shrunk == [m EXCEPT ![n].size = header - n]
  IN  [shrunk EXCEPT ![header] = [@ EXCEPT !.size = s, !.magic = HUGE_MAGIC]]

(***************************************************************************)
(* A page p of blocks of size s.  Its free list starts at slot             *)
(* pagefreehead_index, and index 0 means that the page is full.            *)
(***************************************************************************)
FreeHead(m, p) == p + m[p].magic * m[p].size

SetIndex(m, p, i) == [m EXCEPT ![p].magic = i]

\* The slot at distance d in a page of blocks of size s.  kfree divides by
\* ph->size; the division by zero stops the machine before the result is used.
SlotAt(d, s) == IF s > 0 THEN d \div s ELSE 0

FreeNode(next, size) == [next |-> next, size |-> size, magic |-> PAGE_MAGIC]

\* kalloc's first allocation: header and one free node for all the slots.
FormatPage(m, p, s) ==
  [m EXCEPT ![p] = [next |-> NULL, size |-> s, magic |-> 1],
            ![p + s] = FreeNode(NULL, PageSize - s)]

\* The fast path takes the first block of the free node at fd.
TakeSlot(m, p, fd, s) ==
  LET left == m[fd].size - s
      taken == [m EXCEPT ![fd].size = left]
  IN  IF left = 0
        THEN IF m[fd].next = NULL THEN SetIndex(taken, p, 0)
             ELSE SetIndex(taken, p, SlotAt(m[fd].next - p, s))
        ELSE SetIndex([taken EXCEPT ![fd + s] = FreeNode(m[fd].next, left)],
                      p, m[p].magic + 1)

\* What the fast path asserts about the node it takes and the index it sets.
TakeSlotAsserts(m, p, fd, s) ==
  LET left == m[fd].size - s  after == TakeSlot(m, p, fd, s)[p].magic
  IN  /\ left = 0 => m[fd].magic = PAGE_MAGIC
      /\ left = 0 /\ m[fd].next # NULL => p + after * s = m[fd].next
      /\ left # 0 => p + after * s = fd + s /\ after < PageSize \div s

\* A plausible bug: the first block starts right after the page header.
SlowBlock_AfterHeader(m, p, s) == p + 1 + (m[p].magic - 1) * s

\* The slow path hands out the block at the index and frees all after it.
SlowBlock(m, p, s) == p + m[p].magic * s

CarvePage(m, p, s) ==
  LET next == m[p].magic + 1
      noded == [m EXCEPT ![SlowBlock(m, p, s) + s] =
                  FreeNode(NULL, PageSize - next * s)]
  IN  memset0(SetIndex(noded, p, next), SlowBlock(m, p, s), s)

(***************************************************************************)
(* kfree in a page.  The three outcomes of the scan: the block joins the   *)
(* node before it (and the one after it), it swallows the node after it,   *)
(* or it becomes a node of its own at the front of the list.  Every read   *)
(* of ph->size is of the memory as the stores before it left it: when the  *)
(* page was full, before is the page header itself.                        *)
(***************************************************************************)
\* A plausible bug: a page counts as empty with one block still in use.
Emptied_Early(m, p, n) ==
  IF m[n].size >= PageSize - 2 * m[p].size THEN [m EXCEPT ![p].size = 0] ELSE m

Emptied(m, p, n) ==
  IF m[n].size = PageSize - m[p].size THEN [m EXCEPT ![p].size = 0] ELSE m

\* A plausible bug: merging on both sides leaves the after node in the list.
MergeBefore_KeepAfter(m, p, ptr, before, after) ==
  LET grown == [m EXCEPT ![before].size = @ + m[p].size]
      joined == IF ptr + grown[p].size # after THEN grown
                ELSE [grown EXCEPT ![before].size = @ + grown[after].size]
  IN  Emptied(joined, p, before)

MergeBefore(m, p, ptr, before, after) ==
  LET grown == [m EXCEPT ![before].size = @ + m[p].size]
      both == [grown EXCEPT ![before].size = @ + grown[after].size]
      h == FreeHead(both, p)
      joined == IF ptr + grown[p].size # after THEN grown
                ELSE IF HasPrev(both, h, after) THEN Unlink(both, h, after)
                ELSE SetIndex(both, p, SlotAt(before - p, both[p].size))
  IN  Emptied(joined, p, before)

\* The loop for the node before after leaves the list and meets no null next.
MergeBeforeStrays(m, p, ptr, before, after) ==
  LET grown == [m EXCEPT ![before].size = @ + m[p].size]
      both == [grown EXCEPT ![before].size = @ + grown[after].size]
      h == FreeHead(both, p)
  IN  ptr + grown[p].size = after /\ ~HasPrev(both, h, after) /\ ~Ends(both, h)

MergeAfter(m, p, ptr, after) ==
  LET noded == [m EXCEPT ![ptr] = FreeNode(FreeHead(m, p), m[p].size + m[after].size)]
      front == SetIndex(noded, p, SlotAt(ptr - p, noded[p].size))
  IN  Emptied(Unlink(front, FreeHead(front, p), after), p, ptr)

\* The same loop finds no node, and h->next is stored through the NULL it ends with.
MergeAfterStrays(m, p, ptr, after) ==
  LET noded == [m EXCEPT ![ptr] = FreeNode(FreeHead(m, p), m[p].size + m[after].size)]
      front == SetIndex(noded, p, SlotAt(ptr - p, noded[p].size))
  IN  ~HasPrev(front, FreeHead(front, p), after)

\* A plausible bug: the index is moved before the old head is read.
PushFree_SelfLink(m, p, ptr) ==
  LET front == SetIndex(m, p, SlotAt(ptr - p, m[p].size))
  IN  [front EXCEPT ![ptr] = FreeNode(FreeHead(front, p), m[p].size)]

PushFree(m, p, ptr) ==
  LET noded == [m EXCEPT ![ptr] = FreeNode(FreeHead(m, p), m[p].size)]
  IN  SetIndex(noded, p, SlotAt(ptr - p, noded[p].size))

(***************************************************************************)
(* kfree of a huge block of size s whose header is at hd, in memory where  *)
(* header and block have been zeroed and before / after are its heap       *)
(* neighbours.  The result is the memory; HeadAfterHuge the list head.     *)
(***************************************************************************)
JoinsBefore(m, before, hd) == before # NULL /\ before + m[before].size = hd

FreeHuge(m, h, hd, s, before, after) ==
  LET grown == [m EXCEPT ![before].size = @ + s + 1]
      both == [grown EXCEPT ![before].size = @ + grown[after].size]
      pushed == [m EXCEPT ![hd] = [@ EXCEPT !.next = h, !.size = s]]
      swallowed == [pushed EXCEPT ![hd].size = s + m[after].size]
  IN  IF JoinsBefore(m, before, hd)
        THEN IF hd + 1 + s = after THEN Unlink(both, h, after) ELSE grown
      ELSE IF hd + 1 + s = after THEN Unlink(swallowed, hd, after)
      ELSE pushed

\* A listed node that no other precedes is the head: head = head->next.
HeadAfterFreeHuge(m, h, hd, s, before, after) ==
  IF ~JoinsBefore(m, before, hd) THEN hd
  ELSE IF hd + 1 + s = after /\ ~HasPrev(m, h, after) THEN m[after].next
  ELSE h
=============================================================================
