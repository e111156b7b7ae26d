----------------------------- MODULE PmmProofs -----------------------------
(***************************************************************************)
(* Theorems about Pmm, for any heap, page size, size classes and number of *)
(* processors, and for any client: full pages and frees from another       *)
(* processor included.                                                     *)
(***************************************************************************)
EXTENDS Pmm, TLAPS

-----------------------------------------------------------------------------
(* The edits of PmmMem map memories to memories. *)

(* NULL and the addresses of granules are integers. *)
LEMMA GranuleInt == Granule \subseteq Int /\ NULL \in Int /\ NULL \notin Granule
  BY HeapAssumption DEF Granule, NULL

(* A cell is a record of three integers. *)
LEMMA CellFields ==
  ASSUME NEW m \in Memory, NEW g \in Granule
  PROVE  m[g] \in Cell /\ m[g].next \in Int /\ m[g].size \in Int /\ m[g].magic \in Int
  BY DEF Memory, Cell

(* memset of any run of granules. *)
LEMMA MemsetType ==
  ASSUME NEW m \in Memory, NEW a \in Int, NEW n \in Int
  PROVE  memset0(m, a, n) \in Memory
  BY DEF memset0, Memory, Cell, ZeroCell, NULL

(* Taking a node out of a list. *)
LEMMA UnlinkType ==
  ASSUME NEW m \in Memory, NEW h, NEW n \in Granule
  PROVE  Unlink(m, h, n) \in Memory
  <1>1. m[n].next \in Int
    BY CellFields
  <1>2. \A g \in Granule : [m[g] EXCEPT !.next = m[n].next] \in Cell
    BY <1>1 DEF Memory, Cell
  <1> QED
    BY <1>2 DEF Unlink, Memory

(* Storing a whole cell, or one field of a cell, at any address. *)
LEMMA StoreCell ==
  ASSUME NEW m \in Memory, NEW a, NEW x \in Cell
  PROVE  [m EXCEPT ![a] = x] \in Memory
  BY DEF Memory

\* A word stored in a field keeps the memory well-formed.
LEMMA StoreField ==
  ASSUME NEW m \in Memory, NEW a, NEW v \in Int
  PROVE  /\ [m EXCEPT ![a].size = v] \in Memory
         /\ [m EXCEPT ![a].magic = v] \in Memory
  <1>1. CASE a \in Granule
    BY <1>1 DEF Memory, Cell
  <1>2. CASE a \notin Granule
    BY <1>2 DEF Memory
  <1> QED
    BY <1>1, <1>2

(* A cell with some of its fields changed. *)
LEMMA CellEdits ==
  ASSUME NEW x \in Cell, NEW v \in Int, NEW w \in Int
  PROVE  /\ [x EXCEPT !.next = v] \in Cell
         /\ [x EXCEPT !.size = v] \in Cell
         /\ [x EXCEPT !.next = v, !.size = w] \in Cell
         /\ [x EXCEPT !.size = v, !.magic = w] \in Cell
  BY DEF Cell

(* The nodes the code builds. *)
LEMMA NewCells ==
  ASSUME NEW v \in Int, NEW w \in Int
  PROVE  /\ FreeNode(v, w) \in Cell
         /\ [next |-> v, size |-> w, magic |-> 1] \in Cell
         /\ UserCell(v) \in Cell
         /\ ZeroCell \in Cell
  BY DEF FreeNode, UserCell, ZeroCell, Cell, PAGE_MAGIC, NULL

(* allockpage's edit of the heap list. *)
LEMMA TakePageType ==
  ASSUME NEW m \in Memory, NEW h \in Int, NEW n \in Granule
  PROVE  TakePage(m, h, n) \in Memory /\ HeadAfterTakePage(m, h, n) \in Int
  <1> DEFINE tail == n + PageSize
             split == [m EXCEPT ![tail] =
                         [@ EXCEPT !.next = m[n].next, !.size = m[n].size - PageSize]]
             linked == [g \in Granule |->
                          IF g \in Nodes(m, h) /\ m[g].next = n
                            THEN [split[g] EXCEPT !.next = tail] ELSE split[g]]
  <1>1. n \in Int /\ tail \in Int /\ PageSize \in Int
    BY GranuleInt, SizeAssumption
  <1>2. m[n].next \in Int /\ m[n].size \in Int /\ m[n].size - PageSize \in Int
    BY <1>1, CellFields
  <1>3. split \in Memory
    <2>1. CASE tail \in Granule
      <3>1. [m[tail] EXCEPT !.next = m[n].next, !.size = m[n].size - PageSize] \in Cell
        BY <2>1, <1>2, CellFields, CellEdits
      <3> QED
        BY <3>1, StoreCell
    <2>2. CASE tail \notin Granule
      BY <2>2 DEF Memory
    <2> QED
      BY <2>1, <2>2
  <1>4. linked \in Memory
    <2>1. \A g \in Granule : split[g] \in Cell /\ [split[g] EXCEPT !.next = tail] \in Cell
      BY <1>3, <1>1, CellFields, CellEdits
    <2> HIDE DEF split, tail
    <2> QED
      BY <2>1 DEF Memory
  <1>5. TakePage(m, h, n) \in Memory
    <2>1. Unlink(m, h, n) \in Memory
      BY UnlinkType
    <2>2. TakePage(m, h, n) = memset0(IF m[n].size = PageSize THEN Unlink(m, h, n) ELSE linked, n, 1)
      BY DEF TakePage
    <2> HIDE DEF linked
    <2> QED
      BY <2>1, <2>2, <1>1, <1>4, MemsetType
  <1> QED
    BY <1>1, <1>2, <1>5 DEF HeadAfterTakePage

(* kallocHugeMemory's edit of the node it takes the block from. *)
LEMMA TakeHugeType ==
  ASSUME NEW m \in Memory, NEW n \in Granule, NEW s \in Int
  PROVE  TakeHuge(m, n, s) \in Memory /\ HugeBlock(m, n, s) \in Int
  <1> DEFINE header == HugeBlock(m, n, s) - 1
             shrunk == [m EXCEPT ![n].size = header - n]
  <1>1. n \in Int /\ m[n].size \in Int
    BY GranuleInt, CellFields
  <1>2. HugeBlock(m, n, s) \in Int /\ header \in Int
    BY <1>1 DEF HugeBlock
  <1>3. shrunk \in Memory
    <2>1. header - n \in Int
      BY <1>1, <1>2
    <2> HIDE DEF header
    <2> QED
      BY <2>1, StoreField
  <1>4. HUGE_MAGIC \in Int
    BY DEF HUGE_MAGIC
  <1>5. [shrunk EXCEPT ![header] = [@ EXCEPT !.size = s, !.magic = HUGE_MAGIC]] \in Memory
    <2> HIDE DEF shrunk, header
    <2>1. CASE header \in Granule
      <3>1. [shrunk[header] EXCEPT !.size = s, !.magic = HUGE_MAGIC] \in Cell
        BY <2>1, <1>3, <1>4, CellFields, CellEdits
      <3> QED
        BY <3>1, <1>3, StoreCell
    <2>2. CASE header \notin Granule
      BY <2>2, <1>3 DEF Memory
    <2> QED
      BY <2>1, <2>2
  <1> QED
    BY <1>2, <1>5 DEF TakeHuge

(* Where a page's free list starts. *)
LEMMA FreeHeadInt ==
  ASSUME NEW m \in Memory, NEW p \in Granule
  PROVE  FreeHead(m, p) \in Int
  <1>1. p \in Int /\ m[p].magic \in Int /\ m[p].size \in Int
    BY GranuleInt, CellFields
  <1> QED
    BY <1>1 DEF FreeHead

\* The slot of an address is a number.
LEMMA SlotAtInt ==
  ASSUME NEW d \in Int, NEW s \in Int
  PROVE  SlotAt(d, s) \in Int
  BY DEF SlotAt

(* kalloc's edits of a page. *)
LEMMA FormatPageType ==
  ASSUME NEW m \in Memory, NEW p, NEW s \in Int
  PROVE  FormatPage(m, p, s) \in Memory
  <1> DEFINE header == [next |-> NULL, size |-> s, magic |-> 1]
             node == FreeNode(NULL, PageSize - s)
             headed == [m EXCEPT ![p] = header]
  <1>1. PageSize - s \in Int /\ NULL \in Int
    BY SizeAssumption, GranuleInt
  <1>2. node \in Cell /\ header \in Cell
    BY <1>1, NewCells
  <1>3. headed \in Memory
    <2> HIDE DEF header
    <2> QED
      BY <1>2, StoreCell
  <1>4. [headed EXCEPT ![p + s] = node] \in Memory
    <2> HIDE DEF headed, node
    <2> QED
      BY <1>2, <1>3, StoreCell
  <1> QED
    BY <1>4 DEF FormatPage

\* The index of the free list is a word of the page header.
LEMMA SetIndexType ==
  ASSUME NEW m \in Memory, NEW p, NEW i \in Int
  PROVE  SetIndex(m, p, i) \in Memory
  BY StoreField DEF SetIndex

\* Taking the first free block keeps the memory well-formed.
LEMMA TakeSlotType ==
  ASSUME NEW m \in Memory, NEW p \in Granule, NEW fd \in Granule, NEW s \in Int
  PROVE  TakeSlot(m, p, fd, s) \in Memory
  <1> DEFINE left == m[fd].size - s
             taken == [m EXCEPT ![fd].size = left]
             node == FreeNode(m[fd].next, left)
             noded == [taken EXCEPT ![fd + s] = node]
  <1>1. /\ m[fd].size \in Int /\ m[fd].next \in Int /\ m[p].magic \in Int
        /\ p \in Int /\ left \in Int
    BY CellFields, GranuleInt
  <1>2. taken \in Memory
    <2> HIDE DEF left
    <2> QED
      BY <1>1, StoreField
  <1>3. noded \in Memory
    <2>1. node \in Cell
      BY <1>1, NewCells
    <2> HIDE DEF taken, node
    <2> QED
      BY <2>1, <1>2, StoreCell
  <1>4. SlotAt(m[fd].next - p, s) \in Int
    <2>1. m[fd].next - p \in Int
      BY <1>1
    <2> QED
      BY <2>1, SlotAtInt
  <1>5. /\ SetIndex(taken, p, 0) \in Memory
        /\ SetIndex(taken, p, SlotAt(m[fd].next - p, s)) \in Memory
        /\ SetIndex(noded, p, m[p].magic + 1) \in Memory
    <2>1. m[p].magic + 1 \in Int
      BY <1>1
    <2> HIDE DEF taken, noded
    <2> QED
      BY <2>1, <1>2, <1>3, <1>4, SetIndexType
  <1>6. TakeSlot(m, p, fd, s) =
          IF left = 0
            THEN IF m[fd].next = NULL THEN SetIndex(taken, p, 0)
                 ELSE SetIndex(taken, p, SlotAt(m[fd].next - p, s))
            ELSE SetIndex(noded, p, m[p].magic + 1)
    BY DEF TakeSlot
  <1> HIDE DEF left, taken, node, noded
  <1> QED
    BY <1>5, <1>6

\* So does carving a block off the rest of a page.
LEMMA CarvePageType ==
  ASSUME NEW m \in Memory, NEW p \in Granule, NEW s \in Int
  PROVE  CarvePage(m, p, s) \in Memory /\ SlowBlock(m, p, s) \in Int
  <1> DEFINE next == m[p].magic + 1
             node == FreeNode(NULL, PageSize - next * s)
             noded == [m EXCEPT ![SlowBlock(m, p, s) + s] = node]
             indexed == SetIndex(noded, p, next)
  <1>1. p \in Int /\ m[p].magic \in Int /\ PageSize \in Int /\ NULL \in Int
    BY CellFields, GranuleInt, SizeAssumption
  <1>2. SlowBlock(m, p, s) \in Int
    BY <1>1 DEF SlowBlock
  <1>3. next \in Int /\ PageSize - next * s \in Int
    BY <1>1
  <1>4. node \in Cell
    <2> HIDE DEF next
    <2> QED
      BY <1>1, <1>3, NewCells
  <1>5. noded \in Memory
    <2> HIDE DEF node
    <2> QED
      BY <1>4, StoreCell
  <1>6. indexed \in Memory
    <2> HIDE DEF noded, next
    <2> QED
      BY <1>3, <1>5, SetIndexType
  <1>7. memset0(indexed, SlowBlock(m, p, s), s) \in Memory
    <2> HIDE DEF indexed
    <2> QED
      BY <1>2, <1>6, MemsetType
  <1> QED
    BY <1>2, <1>7 DEF CarvePage

(* kfree's edits of a page. *)
LEMMA EmptiedType ==
  ASSUME NEW m \in Memory, NEW p, NEW n
  PROVE  Emptied(m, p, n) \in Memory
  <1> DEFINE emptied == [m EXCEPT ![p].size = 0]
  <1>1. emptied \in Memory
    <2>1. 0 \in Int
      OBVIOUS
    <2> QED
      BY <2>1, StoreField
  <1>2. Emptied(m, p, n) = IF m[n].size = PageSize - m[p].size THEN emptied ELSE m
    BY DEF Emptied
  <1> HIDE DEF emptied
  <1> QED
    BY <1>1, <1>2

(* Adding to the size of a node. *)
LEMMA GrowType ==
  ASSUME NEW m \in Memory, NEW b \in Granule, NEW v \in Int
  PROVE  [m EXCEPT ![b].size = @ + v] \in Memory
  <1>1. m[b].size + v \in Int
    BY CellFields
  <1>2. [m EXCEPT ![b].size = m[b].size + v] \in Memory
    BY <1>1, StoreField
  <1> QED
    BY <1>2

(* The size of a page header after a node of the page has grown. *)
LEMMA GrownSize ==
  ASSUME NEW m \in Memory, NEW b \in Granule, NEW p \in Granule, NEW v \in Int
  PROVE  [m EXCEPT ![b].size = @ + v][p].size =
           IF p = b THEN m[b].size + v ELSE m[p].size
  <1>1. CASE p = b
    <2>1. [m EXCEPT ![b].size = @ + v][p] = [m[b] EXCEPT !.size = m[b].size + v]
      BY <1>1 DEF Memory
    <2>2. [m[b] EXCEPT !.size = m[b].size + v].size = m[b].size + v
      <3>1. m[b] \in Cell
        BY CellFields
      <3> QED
        BY <3>1 DEF Cell
    <2> QED
      BY <2>1, <2>2, <1>1
  <1>2. CASE p # b
    BY <1>2 DEF Memory
  <1> QED
    BY <1>1, <1>2

\* Joining the freed block to the one before keeps it well-formed.
LEMMA MergeBeforeType ==
  ASSUME NEW m \in Memory, NEW p \in Granule, NEW ptr \in Int, NEW before \in Granule,
         NEW after \in Granule \cup {NULL}, m[p].size >= 0, ptr > 0
  PROVE  MergeBefore(m, p, ptr, before, after) \in Memory
  <1> DEFINE grown == [m EXCEPT ![before].size = @ + m[p].size]
             both == [grown EXCEPT ![before].size = @ + grown[after].size]
             h == FreeHead(both, p)
             joined == IF ptr + grown[p].size # after THEN grown
                       ELSE IF HasPrev(both, h, after) THEN Unlink(both, h, after)
                       ELSE SetIndex(both, p, SlotAt(before - p, both[p].size))
  <1>1. m[p].size \in Int /\ m[before].size \in Int /\ before \in Int /\ p \in Int
    BY CellFields, GranuleInt
  <1>2. grown \in Memory
    BY <1>1, GrowType
  <1>3. grown[p].size \in Int /\ grown[p].size >= 0
    <2>1. grown[p].size = IF p = before THEN m[before].size + m[p].size ELSE m[p].size
      BY <1>1, GrownSize
    <2> HIDE DEF grown
    <2> QED
      BY <2>1, <1>1
  <1>4. CASE ptr + grown[p].size # after
    <2>1. joined \in Memory
      BY <1>2, <1>4
    <2> HIDE DEF joined
    <2> QED
      BY <2>1, EmptiedType DEF MergeBefore, joined
  <1>5. CASE ptr + grown[p].size = after
    <2>1. after \in Granule
      <3> HIDE DEF grown
      <3> QED
        BY <1>3, <1>5 DEF NULL
    <2>2. both \in Memory
      <3>1. grown[after].size \in Int
        BY <1>2, <2>1, CellFields
      <3> HIDE DEF grown
      <3> QED
        BY <1>2, <3>1, GrowType
    <2>3. Unlink(both, h, after) \in Memory
      <3> HIDE DEF both, h
      <3> QED
        BY <2>1, <2>2, UnlinkType
    <2>4. SetIndex(both, p, SlotAt(before - p, both[p].size)) \in Memory
      <3> HIDE DEF both
      <3>1. before - p \in Int /\ both[p].size \in Int
        BY <1>1, <2>2, CellFields
      <3>2. SlotAt(before - p, both[p].size) \in Int
        BY <3>1, SlotAtInt
      <3> QED
        BY <3>2, <2>2, SetIndexType
    <2>5. joined \in Memory
      <3> HIDE DEF both, h, grown
      <3> QED
        BY <2>3, <2>4, <1>2
    <2> HIDE DEF joined
    <2> QED
      BY <2>5, EmptiedType DEF MergeBefore, joined
  <1> QED
    BY <1>4, <1>5

(* A block made a node in front of the free list, as both remaining cases of
   kfree begin. *)
LEMMA FrontType ==
  ASSUME NEW m \in Memory, NEW p \in Granule, NEW ptr \in Int, NEW v \in Int
  PROVE  LET noded == [m EXCEPT ![ptr] = FreeNode(FreeHead(m, p), v)]
         IN  SetIndex(noded, p, SlotAt(ptr - p, noded[p].size)) \in Memory
  <1> DEFINE node == FreeNode(FreeHead(m, p), v)
             noded == [m EXCEPT ![ptr] = node]
  <1>1. node \in Cell
    BY FreeHeadInt, NewCells
  <1>2. noded \in Memory
    <2> HIDE DEF node
    <2> QED
      BY <1>1, StoreCell
  <1>3. SetIndex(noded, p, SlotAt(ptr - p, noded[p].size)) \in Memory
    <2> HIDE DEF noded
    <2>1. ptr - p \in Int /\ noded[p].size \in Int
      BY <1>2, CellFields, GranuleInt
    <2>2. SlotAt(ptr - p, noded[p].size) \in Int
      BY <2>1, SlotAtInt
    <2> QED
      BY <2>2, <1>2, SetIndexType
  <1> QED
    BY <1>3

\* Joining the freed block with the one after does too.
LEMMA MergeAfterType ==
  ASSUME NEW m \in Memory, NEW p \in Granule, NEW ptr \in Int, NEW after \in Granule
  PROVE  MergeAfter(m, p, ptr, after) \in Memory
  <1> DEFINE noded == [m EXCEPT ![ptr] = FreeNode(FreeHead(m, p), m[p].size + m[after].size)]
             front == SetIndex(noded, p, SlotAt(ptr - p, noded[p].size))
  <1>1. m[p].size + m[after].size \in Int
    BY CellFields
  <1>2. front \in Memory
    BY <1>1, FrontType
  <1>3. Emptied(Unlink(front, FreeHead(front, p), after), p, ptr) \in Memory
    <2> HIDE DEF front
    <2> QED
      BY <1>2, UnlinkType, EmptiedType
  <1> QED
    BY <1>3 DEF MergeAfter

\* So does putting it at the front of the list.
LEMMA PushFreeType ==
  ASSUME NEW m \in Memory, NEW p \in Granule, NEW ptr \in Int
  PROVE  PushFree(m, p, ptr) \in Memory
  <1>1. m[p].size \in Int
    BY CellFields
  <1> QED
    BY <1>1, FrontType DEF PushFree
(* kfree's edit of the heap list. *)
LEMMA FreeHugeType ==
  ASSUME NEW m \in Memory, NEW h \in Int, NEW hd \in Granule, NEW s \in Int, s >= 0,
         NEW before \in Granule \cup {NULL}, NEW after \in Granule \cup {NULL}
  PROVE  FreeHuge(m, h, hd, s, before, after) \in Memory
  <1> DEFINE grown == [m EXCEPT ![before].size = @ + s + 1]
             both == [grown EXCEPT ![before].size = @ + grown[after].size]
             cell == [m[hd] EXCEPT !.next = h, !.size = s]
             pushed == [m EXCEPT ![hd] = cell]
             swallowed == [pushed EXCEPT ![hd].size = s + m[after].size]
  <1>1. hd \in Int /\ hd > 0
    BY HeapAssumption DEF Granule
  <1>2. hd + 1 + s = after => after \in Granule
    BY <1>1 DEF NULL
  <1>3. CASE JoinsBefore(m, before, hd)
    <2>1. before \in Granule
      BY <1>3 DEF JoinsBefore
    <2>2. grown \in Memory
      <3>1. m[before].size \in Int
        BY <2>1, CellFields
      <3>2. m[before].size + s + 1 \in Int
        BY <3>1
      <3>3. [m EXCEPT ![before].size = m[before].size + s + 1] \in Memory
        BY <3>2, StoreField
      <3> QED
        BY <3>3
    <2>3. CASE hd + 1 + s = after
      <3>1. both \in Memory
        <4>1. grown[after].size \in Int
          <5> HIDE DEF grown
          <5> QED
            BY <2>2, <2>3, <1>2, CellFields
        <4> HIDE DEF grown
        <4> QED
          BY <4>1, <2>1, <2>2, GrowType
      <3>2. Unlink(both, h, after) \in Memory
        <4> HIDE DEF both
        <4> QED
          BY <3>1, <2>3, <1>2, UnlinkType
      <3>3. FreeHuge(m, h, hd, s, before, after) = Unlink(both, h, after)
        BY <1>3, <2>3 DEF FreeHuge
      <3> QED
        BY <3>2, <3>3
    <2>4. CASE hd + 1 + s # after
      <3>1. FreeHuge(m, h, hd, s, before, after) = grown
        BY <1>3, <2>4 DEF FreeHuge
      <3> QED
        BY <3>1, <2>2
    <2> QED
      BY <2>3, <2>4
  <1>4. CASE ~JoinsBefore(m, before, hd)
    <2>1. pushed \in Memory
      <3>1. cell \in Cell
        BY CellFields, CellEdits
      <3> HIDE DEF cell
      <3> QED
        BY <3>1, StoreCell
    <2>2. pushed = [m EXCEPT ![hd] = [@ EXCEPT !.next = h, !.size = s]]
      OBVIOUS
    <2>3. CASE hd + 1 + s = after
      <3>1. swallowed \in Memory
        <4>1. s + m[after].size \in Int
          BY <1>2, <2>3, CellFields
        <4> HIDE DEF pushed
        <4> QED
          BY <4>1, <2>1, StoreField
      <3>2. Unlink(swallowed, hd, after) \in Memory
        <4> HIDE DEF swallowed
        <4> QED
          BY <3>1, <2>3, <1>2, UnlinkType
      <3>3. FreeHuge(m, h, hd, s, before, after) = Unlink(swallowed, hd, after)
        BY <1>4, <2>3, <2>2 DEF FreeHuge
      <3> QED
        BY <3>2, <3>3
    <2>4. CASE hd + 1 + s # after
      <3>1. FreeHuge(m, h, hd, s, before, after) = pushed
        BY <1>4, <2>4, <2>2 DEF FreeHuge
      <3> QED
        BY <3>1, <2>1
    <2> QED
      BY <2>3, <2>4
  <1> QED
    BY <1>3, <1>4

(* What a client writes over its block. *)
LEMMA FillType ==
  ASSUME NEW m \in Memory, NEW p \in Int, NEW s \in Int
  PROVE  Fill(m, p, s) \in Memory
  <1>1. UserCell(p) \in Cell
    BY NewCells
  <1> QED
    BY <1>1 DEF Fill, Memory
\* The head of the heap list stays a number.
LEMMA HeadAfterFreeHugeInt ==
  ASSUME NEW m \in Memory, NEW h \in Int, NEW hd \in Granule, NEW s \in Int, s >= 0,
         NEW before, NEW after \in Granule \cup {NULL}
  PROVE  HeadAfterFreeHuge(m, h, hd, s, before, after) \in Int
  <1>1. hd \in Int /\ hd > 0
    BY HeapAssumption DEF Granule
  <1>2. CASE hd + 1 + s = after
    <2>1. after \in Granule
      BY <1>1, <1>2 DEF NULL
    <2>2. m[after].next \in Int
      BY <2>1, CellFields
    <2> QED
      BY <1>1, <2>2 DEF HeadAfterFreeHuge
  <1>3. CASE hd + 1 + s # after
    BY <1>1, <1>3 DEF HeadAfterFreeHuge
  <1> QED
    BY <1>2, <1>3

-----------------------------------------------------------------------------
(* The locals of a call. *)

\* The fields of the locals of a call.
LEMMA LocalsFields ==
  ASSUME NEW l \in Locals
  PROVE  /\ l.size \in Int /\ l.ptr \in Int /\ l.ph \in Int
         /\ l.before \in Int /\ l.after \in Int
  BY DEF Locals

(* What the steps store in them. *)
LEMMA LocalsEdits ==
  ASSUME NEW l \in Locals, NEW a \in Int, NEW b \in Int
  PROVE  /\ NoLocals \in Locals
         /\ [l EXCEPT !.size = a] \in Locals
         /\ [l EXCEPT !.ptr = a] \in Locals
         /\ [l EXCEPT !.ptr = a, !.size = b] \in Locals
         /\ [l EXCEPT !.ptr = a, !.ph = b] \in Locals
         /\ [l EXCEPT !.ph = a] \in Locals
         /\ [l EXCEPT !.ph = a].ph = a
  <1>1. NoLocals \in Locals
    BY DEF Locals, NoLocals, NULL
  <1>2. [l EXCEPT !.size = a] \in Locals /\ [l EXCEPT !.ptr = a] \in Locals
    BY DEF Locals
  <1>3. [l EXCEPT !.ptr = a, !.size = b] \in Locals /\ [l EXCEPT !.ptr = a, !.ph = b] \in Locals
    BY DEF Locals
  <1>4. [l EXCEPT !.ph = a] \in Locals /\ [l EXCEPT !.ph = a].ph = a
    BY DEF Locals
  <1> QED
    BY <1>1, <1>2, <1>3, <1>4

(***************************************************************************)
(* What a processor at label may assume of the addresses in its locals l.  *)
(* With TypeOK this is inductive.  It is not a claim about pmm.c when the  *)
(* lists in memory are wrong: a step that would leave the heap then stops  *)
(* its processor (Stray) and hands on nothing.                             *)
(***************************************************************************)
ValidAt(label, l) ==
  /\ label = "fast" => l.ph \in Granule
  /\ label \in {"first_init", "new_init"} => l.ph \in Granule \cup {NULL}
  /\ label = "free_link" =>
       /\ l.ph \in Granule /\ l.ph < l.ptr /\ l.ptr < l.ph + PageSize
       /\ l.before # NULL => l.before \in Granule /\ l.before < l.ptr
       /\ l.after # NULL => l.after \in Granule /\ l.ptr < l.after

LocalsValid == \A c \in CPU : ValidAt(pc[c], loc[c])

(* A step of processor c leaves the locals of the others as they are. *)
LEMMA OtherLocals ==
  ASSUME LocalsValid, NEW c \in CPU, NEW label \in PC, NEW l \in Locals,
         pc \in [CPU -> PC], loc \in [CPU -> Locals],
         pc' = [pc EXCEPT ![c] = label], loc' = [loc EXCEPT ![c] = l],
         ValidAt(label, l)
  PROVE  pc' \in [CPU -> PC] /\ loc' \in [CPU -> Locals] /\ LocalsValid'
  <1>1. \A d \in CPU \ {c} : pc'[d] = pc[d] /\ loc'[d] = loc[d]
    OBVIOUS
  <1>2. pc'[c] = label /\ loc'[c] = l
    OBVIOUS
  <1>3. \A d \in CPU : ValidAt(pc'[d], loc'[d])
    BY <1>1, <1>2 DEF LocalsValid
  <1> QED
    BY <1>3 DEF LocalsValid

(* Labels at which nothing is assumed. *)
LEMMA FreeLabels ==
  ASSUME NEW label, NEW l, label \notin {"fast", "first_init", "new_init", "free_link"}
  PROVE  ValidAt(label, l)
  BY DEF ValidAt
(* A step that moves c to such a label and leaves all locals alone. *)
LEMMA OnlyMoves ==
  ASSUME LocalsValid, NEW c \in CPU, NEW label \in PC,
         label \notin {"fast", "first_init", "new_init", "free_link"},
         pc \in [CPU -> PC], loc \in [CPU -> Locals],
         pc' = [pc EXCEPT ![c] = label], loc' = loc
  PROVE  pc' \in [CPU -> PC] /\ LocalsValid'
  <1>1. loc[c] \in Locals /\ loc' = [loc EXCEPT ![c] = loc[c]]
    OBVIOUS
  <1>2. ValidAt(label, loc[c])
    BY FreeLabels
  <1> QED
    BY <1>1, <1>2, OtherLocals

-----------------------------------------------------------------------------
(* TypeOK and LocalsValid together are inductive. *)

\* The types hold when pmm_init returns.
LEMMA TypeInit == Init => TypeOK /\ LocalsValid
  <1> SUFFICES ASSUME Init PROVE TypeOK /\ LocalsValid
    OBVIOUS
  <1>1. mem \in Memory
    <2> DEFINE first == [ZeroCell EXCEPT !.size = HeapEnd - HeapStart]
    <2>1. HeapEnd - HeapStart \in Int
      BY HeapAssumption
    <2>2. ZeroCell \in Cell
      BY DEF ZeroCell, Cell, NULL
    <2>3. first \in Cell
      BY <2>1, <2>2 DEF Cell
    <2>4. mem = [g \in Granule |-> IF g = HeapStart THEN first ELSE ZeroCell]
      BY DEF Init
    <2> HIDE DEF first
    <2> QED
      BY <2>2, <2>3, <2>4 DEF Memory
  <1>2. NoLocals \in Locals
    BY DEF NoLocals, Locals, NULL
  <1>3. TypeOK
    BY <1>1, <1>2, HeapAssumption DEF Init, TypeOK, PC, NULL
  <1>4. LocalsValid
    <2>1. \A c \in CPU : pc[c] = "idle"
      BY DEF Init
    <2> QED
      BY <2>1 DEF LocalsValid, ValidAt
  <1> QED
    BY <1>3, <1>4

(* The calls of the clients. *)
LEMMA TypeCall ==
  ASSUME TypeOK, LocalsValid, NEW c \in CPU, Call(c)
  PROVE  TypeOK' /\ LocalsValid'
  <1> USE DEF TypeOK, Goto, SetLocals
  <1>1. NoLocals \in Locals
    BY DEF NoLocals, Locals, NULL
  <1>2. CASE KallocSmall(c)
    <2>1. PICK s \in SizeClass : loc' = [loc EXCEPT ![c] = [NoLocals EXCEPT !.size = s]]
      BY <1>2 DEF KallocSmall
    <2>2. [NoLocals EXCEPT !.size = s] \in Locals
      <3>1. s \in Int
        BY SizeAssumption
      <3> QED
        BY <1>1, <3>1, LocalsEdits
    <2>3. PICK label \in {"first_lock", "search_lock"} : pc' = [pc EXCEPT ![c] = label]
      BY <1>2 DEF KallocSmall
    <2>4. label \in PC /\ ValidAt(label, [NoLocals EXCEPT !.size = s])
      BY FreeLabels DEF PC
    <2>5. pc' \in [CPU -> PC] /\ loc' \in [CPU -> Locals] /\ LocalsValid'
      BY <2>1, <2>2, <2>3, <2>4, OtherLocals
    <2> QED
      BY <1>2, <2>5 DEF KallocSmall
  <1>3. CASE KallocHuge(c)
    <2>1. PICK s \in SizeClass : loc' = [loc EXCEPT ![c] = [NoLocals EXCEPT !.size = s]]
      BY <1>3 DEF KallocHuge
    <2>2. [NoLocals EXCEPT !.size = s] \in Locals
      <3>1. s \in Int
        BY SizeAssumption
      <3> QED
        BY <1>1, <3>1, LocalsEdits
    <2>3. "huge_lock" \in PC /\ ValidAt("huge_lock", [NoLocals EXCEPT !.size = s])
      BY FreeLabels DEF PC
    <2>4. pc' = [pc EXCEPT ![c] = "huge_lock"]
      BY <1>3 DEF KallocHuge
    <2>5. pc' \in [CPU -> PC] /\ loc' \in [CPU -> Locals] /\ LocalsValid'
      BY <2>1, <2>2, <2>3, <2>4, OtherLocals
    <2> QED
      BY <1>3, <2>5 DEF KallocHuge
  <1>4. CASE KallocTooBig(c)
    <2>1. "ret" \in PC /\ ValidAt("ret", NoLocals)
      BY FreeLabels DEF PC
    <2>2. pc' \in [CPU -> PC] /\ loc' \in [CPU -> Locals] /\ LocalsValid'
      BY <1>1, <1>4, <2>1, OtherLocals DEF KallocTooBig
    <2> QED
      BY <1>4, <2>2 DEF KallocTooBig
  <1>5. CASE Kfree(c)
    <2>1. PICK b \in live : /\ live' = live \ {b}
                            /\ loc' = [loc EXCEPT ![c] =
                                         [NoLocals EXCEPT !.ptr = b.ptr, !.size = b.size]]
      BY <1>5 DEF Kfree
    <2>2. b.ptr \in Int /\ b.size \in Int
      BY DEF Block
    <2>3. [NoLocals EXCEPT !.ptr = b.ptr, !.size = b.size] \in Locals
      BY <1>1, <2>2, LocalsEdits
    <2>4. "free_lock" \in PC
          /\ ValidAt("free_lock", [NoLocals EXCEPT !.ptr = b.ptr, !.size = b.size])
      BY FreeLabels DEF PC
    <2>5. pc' = [pc EXCEPT ![c] = "free_lock"]
      BY <1>5 DEF Kfree
    <2>6. pc' \in [CPU -> PC] /\ loc' \in [CPU -> Locals] /\ LocalsValid'
      BY <2>1, <2>3, <2>4, <2>5, OtherLocals
    <2>7. frees' \in Nat
      BY <1>5 DEF Kfree
    <2> QED
      BY <1>5, <2>1, <2>6, <2>7 DEF Kfree
  <1> QED
    BY <1>2, <1>3, <1>4, <1>5 DEF Call
(* The steps of kalloc. *)
LEMMA TypeKalloc ==
  ASSUME TypeOK, LocalsValid, NEW c \in CPU
  PROVE  /\ AllockpageLock(c) \/ FirstLock(c) \/ SearchLock(c) \/ NeedPage(c) \/ NoPage(c)
              \/ HugeLock(c) \/ FirstPanic(c) => TypeOK' /\ LocalsValid'
         /\ Allockpage(c) => TypeOK' /\ LocalsValid'
         /\ FirstInit(c) => TypeOK' /\ LocalsValid'
         /\ FindPage(c) => TypeOK' /\ LocalsValid'
         /\ FastPath(c) => TypeOK' /\ LocalsValid'
         /\ FastPanic(c) => TypeOK' /\ LocalsValid'
         /\ Zero(c) => TypeOK' /\ LocalsValid'
         /\ ReusePage(c) => TypeOK' /\ LocalsValid'
         /\ InsertPage(c) => TypeOK' /\ LocalsValid'
         /\ KallocHugeMemory(c) => TypeOK' /\ LocalsValid'
         /\ Return(c) => TypeOK' /\ LocalsValid'
  <1> USE DEF TypeOK, At, Goto, SetLocals, UnlockCpu, UnlockHeap, LockCpu, LockHeap
  <1> DEFINE l == loc[c]
  <1>0. /\ l \in Locals
        /\ l.size \in Int /\ l.ptr \in Int /\ l.ph \in Int
    BY LocalsFields
  <1>1. ASSUME AllockpageLock(c) \/ FirstLock(c) \/ SearchLock(c) \/ NeedPage(c) \/ NoPage(c)
                 \/ HugeLock(c) \/ FirstPanic(c)
        PROVE  TypeOK' /\ LocalsValid'
    <2>1. CASE FirstPanic(c)
      BY <2>1 DEF FirstPanic, Panic, LocalsValid
    <2>2. CASE ~FirstPanic(c)
      <3>1. PICK label \in {"first_page", "new_page", "first_heap", "find", "new_heap", "ret", "huge"} :
              pc' = [pc EXCEPT ![c] = label]
        BY <1>1, <2>2 DEF AllockpageLock, FirstLock, SearchLock, NeedPage, NoPage, HugeLock
      <3>2. loc' = loc /\ mem' = mem /\ head' = head /\ pagehead' = pagehead /\ live' = live
            /\ frees' = frees /\ halted' = halted
        BY <1>1, <2>2 DEF AllockpageLock, FirstLock, SearchLock, NeedPage, NoPage, HugeLock
      <3>3. heap_lock' \in {0, 1} /\ cpu_lock' \in [CPU -> {0, 1}]
        BY <1>1, <2>2 DEF AllockpageLock, FirstLock, SearchLock, NeedPage, NoPage, HugeLock
      <3>4. label \in PC
        BY DEF PC
      <3>5. pc' \in [CPU -> PC] /\ LocalsValid'
        BY <3>1, <3>2, <3>4, OnlyMoves
      <3> QED
        BY <3>2, <3>3, <3>5
    <2> QED
      BY <2>1, <2>2
  <1>2. ASSUME Allockpage(c) PROVE TypeOK' /\ LocalsValid'
    <2>1. PICK label \in {"first_init", "new_init"} : pc' = [pc EXCEPT ![c] = label]
      BY <1>2 DEF Allockpage
    <2>2. PICK n \in Granule \cup {NULL} :
            loc' = [loc EXCEPT ![c] = [l EXCEPT !.ph = n]]
      BY <1>2 DEF Allockpage, PageFits
    <2>3. mem' \in Memory /\ head' \in Int
      <3>1. CASE mem' = mem /\ head' = head
        BY <3>1
      <3>2. CASE \E k \in Granule : mem' = TakePage(mem, head, k)
                                    /\ head' = HeadAfterTakePage(mem, head, k)
        BY <3>2, TakePageType
      <3> QED
        BY <1>2, <3>1, <3>2 DEF Allockpage, PageFits
    <2>4. n \in Int
      BY GranuleInt
    <2>5. [l EXCEPT !.ph = n] \in Locals /\ [l EXCEPT !.ph = n].ph = n
      BY <1>0, <2>4, LocalsEdits
    <2>6. label \in PC /\ ValidAt(label, [l EXCEPT !.ph = n])
      BY <2>5 DEF PC, ValidAt
    <2>7. pc' \in [CPU -> PC] /\ loc' \in [CPU -> Locals] /\ LocalsValid'
      BY <2>1, <2>2, <2>5, <2>6, OtherLocals
    <2> QED
      BY <1>2, <2>3, <2>7 DEF Allockpage
  <1>3. ASSUME FirstInit(c) PROVE TypeOK' /\ LocalsValid'
    <2>1. mem' \in Memory /\ pagehead' \in [CPU -> Int]
      BY <1>0, <1>3, FormatPageType DEF FirstInit
    <2>2. [l EXCEPT !.ph = NULL] \in Locals
      BY <1>0, GranuleInt, LocalsEdits
    <2>3. "search_lock" \in PC /\ ValidAt("search_lock", [l EXCEPT !.ph = NULL])
      BY FreeLabels DEF PC
    <2>4. pc' = [pc EXCEPT ![c] = "search_lock"] /\ loc' = [loc EXCEPT ![c] = [l EXCEPT !.ph = NULL]]
      BY <1>3 DEF FirstInit
    <2>5. pc' \in [CPU -> PC] /\ loc' \in [CPU -> Locals] /\ LocalsValid'
      BY <2>2, <2>3, <2>4, OtherLocals
    <2> QED
      BY <1>3, <2>1, <2>5 DEF FirstInit
  <1>4. ASSUME FindPage(c) PROVE TypeOK' /\ LocalsValid'
    <2>1. PICK p \in Granule : loc' = [loc EXCEPT ![c] = [l EXCEPT !.ph = p]]
      BY <1>4 DEF FindPage, Matching
    <2>2. [l EXCEPT !.ph = p] \in Locals /\ [l EXCEPT !.ph = p].ph = p
      <3>1. p \in Int
        BY GranuleInt
      <3> QED
        BY <1>0, <3>1, LocalsEdits
    <2>3. "fast" \in PC /\ ValidAt("fast", [l EXCEPT !.ph = p])
      BY <2>2 DEF PC, ValidAt
    <2>4. pc' = [pc EXCEPT ![c] = "fast"]
      BY <1>4 DEF FindPage
    <2>5. pc' \in [CPU -> PC] /\ loc' \in [CPU -> Locals] /\ LocalsValid'
      BY <2>1, <2>2, <2>3, <2>4, OtherLocals
    <2> QED
      BY <1>4, <2>5 DEF FindPage
  <1>5. ASSUME FastPath(c) PROVE TypeOK' /\ LocalsValid'
    <2>1. l.ph \in Granule
      BY <1>5 DEF FastPath, LocalsValid, ValidAt
    <2>2. PICK fd \in Granule :
            /\ mem' = TakeSlot(mem, l.ph, fd, l.size)
            /\ loc' = [loc EXCEPT ![c] = [l EXCEPT !.ptr = fd, !.ph = NULL]]
      BY <1>5 DEF FastPath
    <2>3. mem' \in Memory
      BY <1>0, <2>1, <2>2, TakeSlotType
    <2>4. [l EXCEPT !.ptr = fd, !.ph = NULL] \in Locals
      <3>1. fd \in Int /\ NULL \in Int
        BY GranuleInt
      <3> QED
        BY <1>0, <3>1, LocalsEdits
    <2>5. "zero" \in PC /\ ValidAt("zero", [l EXCEPT !.ptr = fd, !.ph = NULL])
      BY FreeLabels DEF PC
    <2>6. pc' = [pc EXCEPT ![c] = "zero"]
      BY <1>5 DEF FastPath
    <2>7. pc' \in [CPU -> PC] /\ loc' \in [CPU -> Locals] /\ LocalsValid'
      BY <2>2, <2>4, <2>5, <2>6, OtherLocals
    <2> QED
      BY <1>5, <2>3, <2>7 DEF FastPath
  <1>6. ASSUME FastPanic(c) PROVE TypeOK' /\ LocalsValid'
    <2>1. l.ph \in Granule
      BY <1>6 DEF FastPanic, LocalsValid, ValidAt
    <2>2. \/ mem' = mem
          \/ \E fd \in Granule : \/ mem' = [mem EXCEPT ![fd].size = 0]
                                 \/ mem' = TakeSlot(mem, l.ph, fd, l.size)
      BY <1>6 DEF FastPanic
    <2>3. mem' \in Memory
      <3>1. \A fd \in Granule : [mem EXCEPT ![fd].size = 0] \in Memory
        <4>1. 0 \in Int
          OBVIOUS
        <4> QED
          BY <4>1, StoreField
      <3>2. \A fd \in Granule : TakeSlot(mem, l.ph, fd, l.size) \in Memory
        BY <1>0, <2>1, TakeSlotType
      <3> QED
        BY <2>2, <3>1, <3>2
    <2>4. cpu_lock' \in [CPU -> {0, 1}]
      BY <1>6 DEF FastPanic
    <2>5. pc' \in [CPU -> PC] /\ LocalsValid'
      <3>1. CASE pc' = pc
        BY <1>6, <3>1 DEF FastPanic, LocalsValid
      <3>2. CASE pc' = [pc EXCEPT ![c] = "zero"]
        <4>1. "zero" \in PC /\ loc' = loc
          BY <1>6 DEF PC, FastPanic
        <4> QED
          BY <3>2, <4>1, OnlyMoves
      <3> QED
        BY <1>6, <3>1, <3>2 DEF FastPanic
    <2> QED
      BY <1>6, <2>3, <2>4, <2>5 DEF FastPanic
  <1>7. ASSUME Zero(c) PROVE TypeOK' /\ LocalsValid'
    <2>1. mem' \in Memory
      BY <1>0, <1>7, MemsetType DEF Zero
    <2>2. "ret" \in PC
      BY DEF PC
    <2>3. pc' \in [CPU -> PC] /\ LocalsValid'
      BY <1>7, <2>2, OnlyMoves DEF Zero
    <2> QED
      BY <1>7, <2>1, <2>3 DEF Zero
  <1>8. ASSUME ReusePage(c) PROVE TypeOK' /\ LocalsValid'
    <2> DEFINE sized(p) == [mem EXCEPT ![p].size = l.size]
    <2>1. PICK p \in Granule :
            /\ mem' = CarvePage(sized(p), p, l.size)
            /\ loc' = [loc EXCEPT ![c] = [l EXCEPT !.ptr = SlowBlock(sized(p), p, l.size)]]
      BY <1>8 DEF ReusePage, Empty
    <2>2. sized(p) \in Memory
      BY <1>0, StoreField
    <2> HIDE DEF sized
    <2>3. mem' \in Memory /\ SlowBlock(sized(p), p, l.size) \in Int
      BY <1>0, <2>1, <2>2, CarvePageType
    <2>4. [l EXCEPT !.ptr = SlowBlock(sized(p), p, l.size)] \in Locals
      BY <1>0, <2>3, LocalsEdits
    <2>5. "ret" \in PC /\ ValidAt("ret", [l EXCEPT !.ptr = SlowBlock(sized(p), p, l.size)])
      BY FreeLabels DEF PC
    <2>6. pc' = [pc EXCEPT ![c] = "ret"]
      BY <1>8 DEF ReusePage
    <2>7. pc' \in [CPU -> PC] /\ loc' \in [CPU -> Locals] /\ LocalsValid'
      BY <2>1, <2>4, <2>5, <2>6, OtherLocals
    <2> QED
      BY <1>8, <2>3, <2>7 DEF ReusePage
  <1>9. ASSUME InsertPage(c) PROVE TypeOK' /\ LocalsValid'
    <2> DEFINE header == [next |-> pagehead[c], size |-> l.size, magic |-> 1]
               headed == [mem EXCEPT ![l.ph] = header]
               block == SlowBlock(headed, l.ph, l.size)
    <2>1. l.ph \in Granule
      BY <1>9 DEF InsertPage, LocalsValid, ValidAt
    <2>2. headed \in Memory
      <3>1. header \in Cell
        BY <1>0, NewCells
      <3> HIDE DEF header
      <3> QED
        BY <3>1, StoreCell
    <2>3. /\ mem' = CarvePage(headed, l.ph, l.size)
          /\ loc' = [loc EXCEPT ![c] = [l EXCEPT !.ptr = block, !.ph = NULL]]
          /\ pagehead' = [pagehead EXCEPT ![c] = l.ph]
          /\ pc' = [pc EXCEPT ![c] = "ret"]
      BY <1>9 DEF InsertPage
    <2>4. mem' \in Memory /\ block \in Int
      <3> HIDE DEF headed
      <3> QED
        BY <1>0, <2>1, <2>2, <2>3, CarvePageType
    <2> HIDE DEF block
    <2>5. [l EXCEPT !.ptr = block, !.ph = NULL] \in Locals
      BY <1>0, <2>4, GranuleInt, LocalsEdits
    <2>6. "ret" \in PC /\ ValidAt("ret", [l EXCEPT !.ptr = block, !.ph = NULL])
      BY FreeLabels DEF PC
    <2>7. pc' \in [CPU -> PC] /\ loc' \in [CPU -> Locals] /\ LocalsValid'
      BY <2>3, <2>5, <2>6, OtherLocals
    <2>8. pagehead' \in [CPU -> Int]
      BY <1>0, <2>3
    <2> QED
      BY <1>9, <2>4, <2>7, <2>8 DEF InsertPage
  <1>10. ASSUME KallocHugeMemory(c) PROVE TypeOK' /\ LocalsValid'
    <2>1. pc' = [pc EXCEPT ![c] = "ret"] /\ "ret" \in PC
      BY <1>10 DEF KallocHugeMemory, PC
    <2>2. CASE \E n \in Granule : /\ mem' = TakeHuge(mem, n, l.size)
                                  /\ loc' = [loc EXCEPT ![c] = [l EXCEPT !.ptr = HugeBlock(mem, n, l.size)]]
      <3>1. PICK n \in Granule : /\ mem' = TakeHuge(mem, n, l.size)
                                 /\ loc' = [loc EXCEPT ![c] = [l EXCEPT !.ptr = HugeBlock(mem, n, l.size)]]
        BY <2>2
      <3>2. mem' \in Memory /\ HugeBlock(mem, n, l.size) \in Int
        BY <1>0, <3>1, TakeHugeType
      <3>3. [l EXCEPT !.ptr = HugeBlock(mem, n, l.size)] \in Locals
        BY <1>0, <3>2, LocalsEdits
      <3>4. ValidAt("ret", [l EXCEPT !.ptr = HugeBlock(mem, n, l.size)])
        BY FreeLabels
      <3>5. pc' \in [CPU -> PC] /\ loc' \in [CPU -> Locals] /\ LocalsValid'
        BY <2>1, <3>1, <3>3, <3>4, OtherLocals
      <3> QED
        BY <1>10, <3>2, <3>5 DEF KallocHugeMemory
    <2>3. CASE mem' = mem /\ loc' = loc
      <3>1. pc' \in [CPU -> PC] /\ LocalsValid'
        BY <2>1, <2>3, OnlyMoves
      <3> QED
        BY <1>10, <2>3, <3>1 DEF KallocHugeMemory
    <2> QED
      BY <1>10, <2>2, <2>3 DEF KallocHugeMemory, HugeFits
  <1>11. ASSUME Return(c) PROVE TypeOK' /\ LocalsValid'
    <2>1. NoLocals \in Locals /\ "idle" \in PC /\ ValidAt("idle", NoLocals)
      BY FreeLabels DEF NoLocals, Locals, NULL, PC
    <2>2. pc' \in [CPU -> PC] /\ loc' \in [CPU -> Locals] /\ LocalsValid'
      BY <1>11, <2>1, OtherLocals DEF Return
    <2>3. mem' \in Memory
      BY <1>0, <1>11, FillType DEF Return
    <2>4. [ptr |-> l.ptr, size |-> l.size, cpu |-> c] \in Block
      BY <1>0 DEF Block
    <2>5. live' \subseteq Block
      BY <1>11, <2>4 DEF Return
    <2> QED
      BY <1>11, <2>2, <2>3, <2>5 DEF Return
  <1> HIDE DEF TypeOK
  <1> QED
    BY <1>1, <1>2, <1>3, <1>4, <1>5, <1>6, <1>7, <1>8, <1>9, <1>10, <1>11
(* The steps of kfree. *)
LEMMA TypeKfree ==
  ASSUME TypeOK, LocalsValid, NEW c \in CPU
  PROVE  /\ KfreeLock(c) \/ KfreeNotInPage(c) \/ KfreeHugeLock(c) \/ KfreeHugePanic(c)
              => TypeOK' /\ LocalsValid'
         /\ KfreeScan(c) => TypeOK' /\ LocalsValid'
         /\ KfreeLink(c) => TypeOK' /\ LocalsValid'
         /\ KfreePanic(c) => TypeOK' /\ LocalsValid'
         /\ KfreeHuge(c) => TypeOK' /\ LocalsValid'
  <1> USE DEF TypeOK, At, Goto, SetLocals, UnlockCpu, UnlockHeap, LockCpu, LockHeap
  <1> DEFINE l == loc[c]
  <1>0. /\ l \in Locals
        /\ l.size \in Int /\ l.ptr \in Int /\ l.ph \in Int
        /\ l.before \in Int /\ l.after \in Int
    BY LocalsFields
  <1>00. NoLocals \in Locals /\ "idle" \in PC /\ ValidAt("idle", NoLocals)
    BY FreeLabels DEF NoLocals, Locals, NULL, PC
  <1>1. ASSUME KfreeLock(c) \/ KfreeNotInPage(c) \/ KfreeHugeLock(c) \/ KfreeHugePanic(c)
        PROVE  TypeOK' /\ LocalsValid'
    <2>1. CASE KfreeHugePanic(c)
      BY <2>1 DEF KfreeHugePanic, Panic, LocalsValid
    <2>2. CASE ~KfreeHugePanic(c)
      <3>1. PICK label \in {"free_scan", "free_huge_lock", "free_huge"} :
              pc' = [pc EXCEPT ![c] = label]
        BY <1>1, <2>2 DEF KfreeLock, KfreeNotInPage, KfreeHugeLock
      <3>2. loc' = loc /\ mem' = mem /\ head' = head /\ pagehead' = pagehead /\ live' = live
            /\ frees' = frees /\ halted' = halted
        BY <1>1, <2>2 DEF KfreeLock, KfreeNotInPage, KfreeHugeLock
      <3>3. heap_lock' \in {0, 1} /\ cpu_lock' \in [CPU -> {0, 1}]
        BY <1>1, <2>2 DEF KfreeLock, KfreeNotInPage, KfreeHugeLock
      <3>4. label \in PC
        BY DEF PC
      <3>5. pc' \in [CPU -> PC] /\ LocalsValid'
        BY <3>1, <3>2, <3>4, OnlyMoves
      <3> QED
        BY <3>2, <3>3, <3>5
    <2> QED
      BY <2>1, <2>2
  <1>2. ASSUME KfreeScan(c) PROVE TypeOK' /\ LocalsValid'
    <2> DEFINE k(p, b, a) == [l EXCEPT !.ph = p, !.before = b, !.after = a]
    <2>1. PICK p \in PagesHolding(l.ptr) \cap Granule :
            \E nodes \in SUBSET Granule : \E before, after \in nodes \cup {NULL} :
              /\ Highest(before, {h \in nodes : h < l.ptr})
              /\ Lowest(after, {h \in nodes : h > l.ptr})
              /\ mem' = memset0(mem, l.ptr, mem[p].size)
              /\ loc' = [loc EXCEPT ![c] = k(p, before, after)]
      BY <1>2 DEF KfreeScan
    <2>2. PICK nodes \in SUBSET Granule, before \in Granule \cup {NULL},
               after \in Granule \cup {NULL} :
              /\ Highest(before, {h \in nodes : h < l.ptr})
              /\ Lowest(after, {h \in nodes : h > l.ptr})
              /\ mem' = memset0(mem, l.ptr, mem[p].size)
              /\ loc' = [loc EXCEPT ![c] = k(p, before, after)]
      BY <2>1
    <2>3. p \in Granule /\ p < l.ptr /\ l.ptr < p + PageSize
      BY DEF PagesHolding
    <2>4. before # NULL => before \in Granule /\ before < l.ptr
      BY <2>2 DEF Highest
    <2>5. after # NULL => after \in Granule /\ l.ptr < after
      <3>1. after # NULL => after \in {h \in nodes : h > l.ptr}
        BY <2>2 DEF Lowest
      <3>2. \A h \in nodes : h > l.ptr => l.ptr < h
        BY <1>0, GranuleInt
      <3> QED
        BY <3>1, <3>2
    <2>6. p \in Int /\ before \in Int /\ after \in Int /\ mem[p].size \in Int
      BY <2>3, GranuleInt, CellFields
    <2>7. mem' \in Memory
      BY <1>0, <2>2, <2>6, MemsetType
    <2>8. /\ k(p, before, after) \in Locals
          /\ k(p, before, after).ph = p /\ k(p, before, after).before = before
          /\ k(p, before, after).after = after /\ k(p, before, after).ptr = l.ptr
      <3> HIDE DEF l
      <3>1. k(p, before, after) \in Locals
        BY <1>0, <2>6 DEF Locals
      <3>2. k(p, before, after).ph = p /\ k(p, before, after).before = before
        BY <1>0, <2>6 DEF Locals
      <3>3. k(p, before, after).after = after /\ k(p, before, after).ptr = l.ptr
        BY <1>0, <2>6 DEF Locals
      <3> QED
        BY <3>1, <3>2, <3>3
    <2>9. "free_link" \in PC /\ pc' = [pc EXCEPT ![c] = "free_link"]
      BY <1>2 DEF PC, KfreeScan
    <2> HIDE DEF k
    <2>10. ValidAt("free_link", k(p, before, after))
      BY <2>3, <2>4, <2>5, <2>8 DEF ValidAt
    <2>11. pc' \in [CPU -> PC] /\ loc' \in [CPU -> Locals] /\ LocalsValid'
      BY <2>2, <2>8, <2>9, <2>10, OtherLocals
    <2> QED
      BY <1>2, <2>7, <2>11 DEF KfreeScan
  <1>3. ASSUME KfreeLink(c) PROVE TypeOK' /\ LocalsValid'
    <2>1. /\ l.ph \in Granule /\ l.ph < l.ptr
          /\ l.before # NULL => l.before \in Granule
          /\ l.after # NULL => l.after \in Granule
      BY <1>3 DEF KfreeLink, LocalsValid, ValidAt
    <2>2. l.ptr > 0 /\ mem[l.ph].size \in Int
      <3>1. l.ph \in Int /\ l.ph > 0
        BY <2>1, HeapAssumption DEF Granule
      <3> QED
        BY <1>0, <2>1, <3>1, CellFields
    <2>3. mem' \in Memory
      <3>1. CASE /\ mem[l.ph].size >= 0 /\ JoinsBefore(mem, l.before, l.ptr)
                 /\ mem' = MergeBefore(mem, l.ph, l.ptr, l.before, l.after)
        <4>1. l.before \in Granule
          BY <2>1, <3>1 DEF JoinsBefore
        <4> QED
          BY <1>0, <2>1, <2>2, <3>1, <4>1, MergeBeforeType
      <3>2. CASE /\ SlotAt(l.ptr - l.ph, mem[l.ph].size) > 0 /\ l.ptr + mem[l.ph].size = l.after
                 /\ mem' = MergeAfter(mem, l.ph, l.ptr, l.after)
        <4>1. l.after \in Granule
          BY <1>0, <2>1, <2>2, <3>2 DEF NULL, SlotAt
        <4> QED
          BY <1>0, <2>1, <3>2, <4>1, MergeAfterType
      <3>3. CASE mem' = PushFree(mem, l.ph, l.ptr)
        BY <1>0, <2>1, <3>3, PushFreeType
      <3> QED
        BY <1>3, <3>1, <3>2, <3>3 DEF KfreeLink
    <2>4. pc' \in [CPU -> PC] /\ loc' \in [CPU -> Locals] /\ LocalsValid'
      BY <1>3, <1>00, OtherLocals DEF KfreeLink
    <2> QED
      BY <1>3, <2>3, <2>4 DEF KfreeLink
  <1>4. ASSUME KfreePanic(c) PROVE TypeOK' /\ LocalsValid'
    <2> DEFINE s == mem[l.ph].size
               total == IF l.ptr + s = l.after THEN s + mem[l.after].size ELSE s
               node == FreeNode(FreeHead(mem, l.ph), total)
               noded == [mem EXCEPT ![l.ptr] = node]
    <2>1. /\ l.ph \in Granule /\ l.ph < l.ptr
          /\ l.after # NULL => l.after \in Granule /\ l.ptr < l.after
      BY <1>4 DEF KfreePanic, LocalsValid, ValidAt
    <2>2. s \in Int /\ l.ph \in Int /\ l.ph > 0
      BY <2>1, CellFields, HeapAssumption DEF Granule
    <2>3. total \in Int
      <3>1. l.after \in Granule => mem[l.after].size \in Int
        BY CellFields
      <3>2. s >= 0
        BY <1>4 DEF KfreePanic
      <3>3. l.ptr + s = l.after => l.after # NULL
        <4> HIDE DEF s
        <4> QED
          BY <1>0, <2>1, <2>2, <3>2 DEF NULL
      <3> HIDE DEF s
      <3> QED
        BY <2>1, <2>2, <3>1, <3>3
    <2>4. noded \in Memory
      <3>1. node \in Cell
        <4> HIDE DEF total
        <4> QED
          BY <2>1, <2>3, FreeHeadInt, NewCells
      <3> HIDE DEF node
      <3> QED
        BY <3>1, StoreCell
    <2>5. mem' = IF s = 0 THEN noded ELSE SetIndex(noded, l.ph, 0)
      BY <1>4 DEF KfreePanic
    <2>6. mem' \in Memory
      <3>1. 0 \in Int
        OBVIOUS
      <3> HIDE DEF noded
      <3> QED
        BY <2>4, <2>5, <3>1, SetIndexType
    <2> QED
      BY <1>4, <2>6 DEF KfreePanic, LocalsValid
  <1>5. ASSUME KfreeHuge(c) PROVE TypeOK' /\ LocalsValid'
    <2>1. PICK hd \in Granule : \E before, after \in Granule \cup {NULL} :
            LET cleared == memset0(mem, hd, mem[hd].size + 1)
            IN  /\ mem[hd].size >= 0
                /\ mem' = FreeHuge(cleared, head, hd, mem[hd].size, before, after)
                /\ head' = HeadAfterFreeHuge(cleared, head, hd, mem[hd].size, before, after)
      BY ONLY <1>5 DEF KfreeHuge
    <2> DEFINE s == mem[hd].size
               cleared == memset0(mem, hd, s + 1)
    <2>2. PICK before \in Granule \cup {NULL}, after \in Granule \cup {NULL} :
            /\ s >= 0
            /\ mem' = FreeHuge(cleared, head, hd, s, before, after)
            /\ head' = HeadAfterFreeHuge(cleared, head, hd, s, before, after)
      BY <2>1
    <2>3. s \in Int /\ s + 1 \in Int /\ hd \in Int
      BY CellFields, GranuleInt
    <2>4. cleared \in Memory
      BY <2>3, MemsetType
    <2>5. mem' \in Memory /\ head' \in Int
      <3> HIDE DEF cleared, s
      <3> QED
        BY <2>2, <2>3, <2>4, FreeHugeType, HeadAfterFreeHugeInt
    <2>6. pc' \in [CPU -> PC] /\ loc' \in [CPU -> Locals] /\ LocalsValid'
      BY <1>5, <1>00, OtherLocals DEF KfreeHuge
    <2> QED
      BY <1>5, <2>5, <2>6 DEF KfreeHuge
  <1> HIDE DEF TypeOK
  <1> QED
    BY <1>1, <1>2, <1>3, <1>4, <1>5

\* Every step preserves the types.
LEMMA TypeNext == TypeOK /\ LocalsValid /\ [Next]_vars => TypeOK' /\ LocalsValid'
  <1> SUFFICES ASSUME TypeOK, LocalsValid, [Next]_vars PROVE TypeOK' /\ LocalsValid'
    OBVIOUS
  <1>1. CASE UNCHANGED vars
    BY <1>1 DEF vars, TypeOK, LocalsValid
  <1>2. ASSUME NEW c \in CPU, Call(c) PROVE TypeOK' /\ LocalsValid'
    BY <1>2, TypeCall
  <1>3. ASSUME NEW c \in CPU, Work(c) PROVE TypeOK' /\ LocalsValid'
    <2>1. CASE Stray(c)
      BY <2>1 DEF Stray, Panic, TypeOK, LocalsValid
    <2> QED
      BY <1>3, <2>1, TypeKalloc, TypeKfree DEF Work
  <1> QED
    BY <1>1, <1>2, <1>3 DEF Next

(* Every variable keeps its type: whatever the clients do, even once a list or a
   size in memory is wrong, each step of kalloc and kfree edits a memory into a
   memory. *)
THEOREM TypeCorrect == Spec => []TypeOK
  <1>1. TypeOK /\ LocalsValid /\ [Next]_vars => (TypeOK /\ LocalsValid)'
    BY TypeNext
  <1> QED
    BY <1>1, TypeInit, PTL DEF Spec

-----------------------------------------------------------------------------
(* Locks *)

(* A step that takes, keeps or gives back the locks in accordance with the label
   it goes to. *)
LEMMA LockStep ==
  ASSUME TypeOK, LockDiscipline, NEW c \in CPU, NEW label,
         pc' = [pc EXCEPT ![c] = label],
         \/ cpu_lock' = cpu_lock /\ (pc[c] \in CpuSection <=> label \in CpuSection)
         \/ cpu_lock' = [cpu_lock EXCEPT ![c] = 1] /\ label \in CpuSection
         \/ cpu_lock' = [cpu_lock EXCEPT ![c] = 0] /\ label \notin CpuSection,
         \/ heap_lock' = heap_lock /\ (pc[c] \in HeapSection <=> label \in HeapSection)
         \/ heap_lock = 0 /\ heap_lock' = 1 /\ label \in HeapSection
         \/ heap_lock' = 0 /\ pc[c] \in HeapSection /\ label \notin HeapSection
  PROVE  LockDiscipline'
  <1> DEFINE Cs == CpuSection  Hs == HeapSection
  <1>1. pc'[c] = label /\ \A d \in CPU \ {c} : pc'[d] = pc[d]
    BY DEF TypeOK
  <1>2. \A d \in CPU : (cpu_lock'[d] = 1) <=> pc'[d] \in Cs
    <2>1. \A d \in CPU \ {c} : cpu_lock'[d] = cpu_lock[d]
      BY DEF TypeOK
    <2>2. (cpu_lock'[c] = 1) <=> label \in Cs
      <3> HIDE DEF Cs
      <3> QED
        BY DEF TypeOK, LockDiscipline, Cs
    <2> HIDE DEF Cs
    <2> QED
      BY <1>1, <2>1, <2>2 DEF LockDiscipline, Cs
  <1>3. CASE heap_lock' = heap_lock /\ (pc[c] \in Hs <=> label \in Hs)
    <2> HIDE DEF Hs
    <2>1. \A d \in CPU : pc'[d] \in Hs <=> pc[d] \in Hs
      BY <1>1, <1>3
    <2> QED
      BY <1>2, <1>3, <2>1 DEF LockDiscipline, Hs
  <1>4. CASE heap_lock = 0 /\ heap_lock' = 1 /\ label \in Hs
    <2>1. \A d \in CPU : pc[d] \notin Hs
      BY <1>4 DEF LockDiscipline
    <2>2. \A d \in CPU : pc'[d] \in Hs <=> d = c
      <3> HIDE DEF Hs
      <3> QED
        BY <1>1, <1>4, <2>1
    <2> QED
      BY <1>2, <1>4, <2>2 DEF LockDiscipline
  <1>5. CASE heap_lock' = 0 /\ pc[c] \in Hs /\ label \notin Hs
    <2>1. \A d \in CPU \ {c} : pc[d] \notin Hs
      BY <1>5 DEF LockDiscipline
    <2>2. \A d \in CPU : pc'[d] \notin Hs
      <3> HIDE DEF Hs
      <3> QED
        BY <1>1, <1>5, <2>1
    <2> QED
      BY <1>2, <1>5, <2>2 DEF LockDiscipline
  <1> QED
    BY <1>3, <1>4, <1>5

(* A processor that stops where it is keeps the locks it holds. *)
LEMMA LockStay ==
  ASSUME LockDiscipline, UNCHANGED <<pc, cpu_lock, heap_lock>>
  PROVE  LockDiscipline'
  BY DEF LockDiscipline

\* Every step inside a call keeps the locks with the code that took them.
LEMMA LockWork ==
  ASSUME TypeOK, LockDiscipline, NEW c \in CPU, Work(c)
  PROVE  LockDiscipline'
  <1> USE DEF At, Goto, LockCpu, LockHeap, UnlockCpu, UnlockHeap
  <1>1. CASE AllockpageLock(c)
    <2>1. PICK label \in {"first_page", "new_page"} : pc' = [pc EXCEPT ![c] = label]
      BY <1>1 DEF AllockpageLock
    <2>2. /\ cpu_lock' = cpu_lock /\ pc[c] \in CpuSection /\ label \in CpuSection
          /\ heap_lock = 0 /\ heap_lock' = 1 /\ label \in HeapSection
      BY <1>1 DEF AllockpageLock, CpuSection, HeapSection
    <2> QED
      BY <2>1, <2>2, LockStep
  <1>2. CASE Allockpage(c)
    <2>1. PICK label \in {"first_init", "new_init"} : pc' = [pc EXCEPT ![c] = label]
      BY <1>2 DEF Allockpage
    <2>2. /\ cpu_lock' = cpu_lock /\ pc[c] \in CpuSection /\ label \in CpuSection
          /\ heap_lock' = 0 /\ pc[c] \in HeapSection /\ label \notin HeapSection
      BY <1>2 DEF Allockpage, CpuSection, HeapSection
    <2> QED
      BY <2>1, <2>2, LockStep
  <1>3. CASE FirstLock(c) \/ SearchLock(c) \/ KfreeLock(c)
    <2>1. PICK label \in {"first_heap", "find", "free_scan"} : pc' = [pc EXCEPT ![c] = label]
      BY <1>3 DEF FirstLock, SearchLock, KfreeLock
    <2>2. /\ cpu_lock' = [cpu_lock EXCEPT ![c] = 1] /\ label \in CpuSection
          /\ heap_lock' = heap_lock /\ pc[c] \notin HeapSection /\ label \notin HeapSection
      BY <1>3 DEF FirstLock, SearchLock, KfreeLock, CpuSection, HeapSection
    <2> QED
      BY <2>1, <2>2, LockStep
  <1>4. CASE FirstInit(c) \/ FastPath(c) \/ ReusePage(c) \/ InsertPage(c) \/ NoPage(c)
             \/ KfreeLink(c) \/ KfreeNotInPage(c)
    <2>1. PICK label \in {"search_lock", "zero", "ret", "idle", "free_huge_lock"} :
            pc' = [pc EXCEPT ![c] = label]
      BY <1>4 DEF FirstInit, FastPath, ReusePage, InsertPage, NoPage, KfreeLink, KfreeNotInPage
    <2>2. /\ cpu_lock' = [cpu_lock EXCEPT ![c] = 0] /\ label \notin CpuSection
          /\ heap_lock' = heap_lock /\ pc[c] \notin HeapSection /\ label \notin HeapSection
      BY <1>4 DEF FirstInit, FastPath, ReusePage, InsertPage, NoPage, KfreeLink,
                  KfreeNotInPage, CpuSection, HeapSection
    <2> QED
      BY <2>1, <2>2, LockStep
  <1>5. CASE FindPage(c) \/ NeedPage(c) \/ KfreeScan(c)
    <2>1. PICK label \in {"fast", "new_heap", "free_link"} : pc' = [pc EXCEPT ![c] = label]
      BY <1>5 DEF FindPage, NeedPage, KfreeScan
    <2>2. /\ cpu_lock' = cpu_lock /\ pc[c] \in CpuSection /\ label \in CpuSection
          /\ heap_lock' = heap_lock /\ pc[c] \notin HeapSection /\ label \notin HeapSection
      BY <1>5 DEF FindPage, NeedPage, KfreeScan, CpuSection, HeapSection
    <2> QED
      BY <2>1, <2>2, LockStep
  <1>6. CASE Zero(c) \/ Return(c)
    <2>1. PICK label \in {"ret", "idle"} : pc' = [pc EXCEPT ![c] = label]
      BY <1>6 DEF Zero, Return
    <2>2. /\ cpu_lock' = cpu_lock /\ pc[c] \notin CpuSection /\ label \notin CpuSection
          /\ heap_lock' = heap_lock /\ pc[c] \notin HeapSection /\ label \notin HeapSection
      BY <1>6 DEF Zero, Return, CpuSection, HeapSection
    <2> QED
      BY <2>1, <2>2, LockStep
  <1>7. CASE HugeLock(c) \/ KfreeHugeLock(c)
    <2>1. PICK label \in {"huge", "free_huge"} : pc' = [pc EXCEPT ![c] = label]
      BY <1>7 DEF HugeLock, KfreeHugeLock
    <2>2. /\ cpu_lock' = cpu_lock /\ pc[c] \notin CpuSection /\ label \notin CpuSection
          /\ heap_lock = 0 /\ heap_lock' = 1 /\ label \in HeapSection
      BY <1>7 DEF HugeLock, KfreeHugeLock, CpuSection, HeapSection
    <2> QED
      BY <2>1, <2>2, LockStep
  <1>8. CASE KallocHugeMemory(c) \/ KfreeHuge(c)
    <2>1. PICK label \in {"ret", "idle"} : pc' = [pc EXCEPT ![c] = label]
      BY <1>8 DEF KallocHugeMemory, KfreeHuge
    <2>2. /\ cpu_lock' = cpu_lock /\ pc[c] \notin CpuSection /\ label \notin CpuSection
          /\ heap_lock' = 0 /\ pc[c] \in HeapSection /\ label \notin HeapSection
      BY <1>8 DEF KallocHugeMemory, KfreeHuge, CpuSection, HeapSection
    <2> QED
      BY <2>1, <2>2, LockStep
  <1>9. CASE FirstPanic(c) \/ KfreePanic(c) \/ KfreeHugePanic(c) \/ Stray(c)
    BY <1>9, LockStay DEF FirstPanic, KfreePanic, KfreeHugePanic, Stray, Panic
  <1>10. CASE FastPanic(c)
    <2>1. CASE UNCHANGED <<cpu_lock, pc>>
      BY <1>10, <2>1, LockStay DEF FastPanic
    <2>2. CASE cpu_lock' = [cpu_lock EXCEPT ![c] = 0] /\ pc' = [pc EXCEPT ![c] = "zero"]
      <3>1. /\ "zero" \notin CpuSection /\ "zero" \notin HeapSection
            /\ heap_lock' = heap_lock /\ pc[c] \notin HeapSection
        BY <1>10 DEF FastPanic, CpuSection, HeapSection
      <3> QED
        BY <2>2, <3>1, LockStep
    <2> QED
      BY <1>10, <2>1, <2>2 DEF FastPanic
  <1> QED
    BY <1>1, <1>2, <1>3, <1>4, <1>5, <1>6, <1>7, <1>8, <1>9, <1>10 DEF Work

\* So does the start of a call.
LEMMA LockCall ==
  ASSUME TypeOK, LockDiscipline, NEW c \in CPU, Call(c)
  PROVE  LockDiscipline'
  <1>1. PICK label \in {"first_lock", "search_lock", "huge_lock", "ret", "free_lock"} :
          pc' = [pc EXCEPT ![c] = label]
    BY DEF Call, KallocSmall, KallocHuge, KallocTooBig, Kfree, Goto
  <1>2. /\ cpu_lock' = cpu_lock /\ pc[c] \notin CpuSection /\ label \notin CpuSection
        /\ heap_lock' = heap_lock /\ pc[c] \notin HeapSection /\ label \notin HeapSection
    BY DEF Call, KallocSmall, KallocHuge, KallocTooBig, Kfree, At, CpuSection, HeapSection
  <1> QED
    BY <1>1, <1>2, LockStep

(* A lock is taken exactly while a processor is in one of its sections, on every
   path and every early return, and heap_lock excludes: for every client, every
   heap and every number of processors. *)
THEOREM LocksCorrect == Spec => []LockDiscipline
  <1>1. Init => LockDiscipline
    BY DEF Init, LockDiscipline, CpuSection, HeapSection
  <1>2. TypeOK /\ LockDiscipline /\ [Next]_vars => LockDiscipline'
    <2> SUFFICES ASSUME TypeOK, LockDiscipline, [Next]_vars PROVE LockDiscipline'
      OBVIOUS
    <2>1. CASE UNCHANGED vars
      BY <2>1, LockStay DEF vars
    <2>2. CASE Next
      BY <2>2, LockCall, LockWork DEF Next
    <2> QED
      BY <2>1, <2>2
  <1> QED
    BY <1>1, <1>2, TypeCorrect, PTL DEF Spec
=============================================================================
