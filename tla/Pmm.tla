-------------------------------- MODULE Pmm --------------------------------
(***************************************************************************)
(* The physical memory manager of kernel/src/pmm.c: kalloc and kfree       *)
(* called by several processors at once, over the heap of PmmMem.          *)
(*                                                                         *)
(* Each processor runs its call as a sequence of steps.  A step ends at    *)
(* every lock operation, and also where the code has read shared memory    *)
(* that nothing it holds protects and goes on to use what it read.  A      *)
(* section under heap_lock is one step: the heap list is touched nowhere   *)
(* else, and LockDiscipline shows that the lock does exclude.              *)
(*                                                                         *)
(* The clients are the code that calls pmm->alloc and pmm->free.  A client *)
(* owns the blocks it was given, writes into all of them, and hands each   *)
(* back at most once.                                                      *)
(***************************************************************************)
EXTENDS PmmMem, FiniteSets

CONSTANTS
  CPU,         \* the processors, 0 .. cpu_count() - 1
  MaxHuge,     \* 16 MiB: above it kalloc returns NULL
  Request,     \* the sizes clients ask for
  SmallQuota,  \* blocks of at most MaxSmall that one processor's client keeps
  HugeQuota,   \* larger blocks that all clients together keep
  CanFree,     \* clients call kfree at all
  FreeBound,   \* how often they do so in all; 0: no bound
  RemoteFree   \* a client may free a block another processor allocated

ASSUME ClientAssumption ==
  /\ MaxHuge \in SizeClass /\ MaxSmall < MaxHuge
  /\ Request \subseteq Nat
  /\ \A n \in Request : n <= MaxHuge => \E s \in SizeClass : n <= s
  /\ SmallQuota \in Nat /\ HugeQuota \in Nat
  /\ CanFree \in BOOLEAN /\ FreeBound \in Nat /\ RemoteFree \in BOOLEAN

VARIABLES
  mem,        \* the contents of the heap
  head,       \* the heap's free list
  heap_lock,  \* 1 (NOPE) while some processor holds it
  pagehead,   \* cpupagelist[c].pagehead
  cpu_lock,   \* cpupagelist[c].lock
  pc,         \* where processor c is in kalloc or kfree
  loc,        \* the locals of the call in progress
  live,       \* the blocks clients own
  frees,      \* calls of kfree so far, when they are bounded
  halted      \* the processors an assertion or a trap has stopped for good

vars == <<mem, head, heap_lock, pagehead, cpu_lock, pc, loc, live, frees, halted>>

Locals == [size : Int, ptr : Int, ph : Int, before : Int, after : Int]

NoLocals == [size |-> 0, ptr |-> NULL, ph |-> NULL, before |-> NULL, after |-> NULL]

PC == {"idle", "first_lock", "first_heap", "first_page", "first_init",
       "search_lock", "find", "fast", "zero", "new_heap", "new_page", "new_init",
       "huge_lock", "huge", "ret",
       "free_lock", "free_scan", "free_link", "free_huge_lock", "free_huge"}

Block == [ptr : Int, size : Int, cpu : CPU]

TypeOK ==
  /\ mem \in Memory
  /\ head \in Int
  /\ heap_lock \in {0, 1}
  /\ pagehead \in [CPU -> Int]
  /\ cpu_lock \in [CPU -> {0, 1}]
  /\ pc \in [CPU -> PC]
  /\ loc \in [CPU -> Locals]
  /\ live \subseteq Block
  /\ frees \in Nat
  /\ halted \subseteq CPU

-----------------------------------------------------------------------------
(* pmm_init *)

Init ==
  /\ mem = [g \in Granule |->
              IF g = HeapStart THEN [ZeroCell EXCEPT !.size = HeapEnd - HeapStart]
              ELSE ZeroCell]
  /\ head = HeapStart
  /\ heap_lock = 0
  /\ pagehead = [c \in CPU |-> NULL]
  /\ cpu_lock = [c \in CPU |-> 0]
  /\ pc = [c \in CPU |-> "idle"]
  /\ loc = [c \in CPU |-> NoLocals]
  /\ live = {}
  /\ frees = 0
  /\ halted = {}

-----------------------------------------------------------------------------
(* Helpers of the actions *)

Goto(c, label) == pc' = [pc EXCEPT ![c] = label]

SetLocals(c, l) == loc' = [loc EXCEPT ![c] = l]

\* A plausible bug: one lock for all processors.
LockCpu_Global(c) ==
  (\A d \in CPU : cpu_lock[d] = 0) /\ cpu_lock' = [cpu_lock EXCEPT ![c] = 1]

\* lock(): the exchange that returns 0.  One that returns 1 changes nothing.
LockCpu(c) == cpu_lock[c] = 0 /\ cpu_lock' = [cpu_lock EXCEPT ![c] = 1]
LockHeap == heap_lock = 0 /\ heap_lock' = 1

UnlockCpu(c) == cpu_lock' = [cpu_lock EXCEPT ![c] = 0]

\* A plausible bug: unlock adds instead of storing YES.
UnlockHeap_Adds == heap_lock' = heap_lock + 1
UnlockHeap == heap_lock' = 0

\* A failed assertion: c never moves again and keeps the locks it holds.  The
\* others go on until the halt of c reaches them, which may be at once or never.
Panic(c) ==
  /\ halted' = halted \cup {c}
  /\ UNCHANGED <<mem, head, heap_lock, pagehead, cpu_lock, pc, loc, live, frees>>

\* The loop that doubles powval until it covers a request of n.
RoundsTo(n, s) == s \in SizeClass /\ n <= s /\ \A t \in SizeClass : n <= t => s <= t

IsHuge(b) == b.size > MaxSmall
SmallOf(c) == {b \in live : b.cpu = c /\ ~IsHuge(b)}
HugeLive == {b \in live : IsHuge(b)}

\* Processors that are allocating, or giving back, a huge block.
HugeBusy == {c \in CPU : pc[c] # "idle" /\ loc[c].size > MaxSmall}

\* What a client writes over its block, so that the bytes of any two blocks
\* can be told apart.
UserCell(p) == [next |-> NULL, size |-> 0, magic |-> p]

Fill(m, p, s) == [g \in Granule |-> IF g \in Run(p, s) THEN UserCell(p) ELSE m[g]]

-----------------------------------------------------------------------------
(***************************************************************************)
(* Accesses outside the heap.  pmm.c checks no address: a loop follows any *)
(* next that is not NULL, and a store goes wherever an index or a size     *)
(* points.  Strays(c) says that the step before c has a loop that leaves   *)
(* the heap or goes round in it for ever, or a load or store outside it    *)
(* (a store through the NULL that an unsuccessful loop left included).     *)
(* What c does from there on is no longer determined by the heap; the      *)
(* model stops c, and claims nothing of the memory such a step reaches.    *)
(* The other actions are for a c that does not stray: a walk of theirs     *)
(* ends, visits granules only, and an intersection with Granule drops      *)
(* nothing that the C loop would read.                                     *)
(***************************************************************************)
\* Pages whose blocks have size s and that are not full, and empty pages.
Matching(s) == {p \in Granule : mem[p].size = s /\ mem[p].magic > 0}
Empty == {p \in Granule : mem[p].size = 0 /\ mem[p].magic > 0}

\* fd->size is an int compared with a size_t: a negative size counts as large.
Holds(fd, s) == mem[fd].size >= s \/ mem[fd].size < 0

\* The pages of all processors, which kfree reads holding its own processor's lock only.
AllPages == UNION {Nodes(mem, pagehead[c]) : c \in CPU}

PagesHolding(p) == {q \in AllPages : q < p /\ p < q + PageSize}

\* The n granules from a on are not all in the heap.
Beyond(a, n) == ~(Run(a, n) \subseteq Granule)

\* A loop from h that stops at a node of Good finds none, nor a null next.
Astray(h, Good) == Nodes(mem, h) \cap Good = {} /\ ~Ends(mem, h)

AllockpageStrays ==
  \/ Astray(head, PageFits(mem))
  \/ \E n \in PageFits(mem) :
       First(mem, head, n, PageFits(mem)) /\ mem[n].size > PageSize /\ n + PageSize \notin Granule

FindStrays(h, s) ==
  /\ Nodes(mem, h) \cap Matching(s) = {}
  /\ \/ ~Ends(mem, h)
     \/ \E p \in Empty : First(mem, h, p, Empty) /\ Beyond(p + mem[p].magic * s, s + 1)

FastStrays(p, s) ==
  LET fd == p + mem[p].magic * s
  IN  /\ mem[p].size = s
      /\ fd \notin Granule \/ (Holds(fd, s) /\ mem[fd].size # s /\ fd + s \notin Granule)

HugeStrays(s) ==
  LET fitting == Nodes(mem, head) \cap HugeFits(mem, s)
  IN  ~Ends(mem, head) \/ \E n \in fitting : Highest(n, fitting) /\ HugeBlock(mem, n, s) - 1 \notin Granule

\* The search goes through the processors in order; a memset of a negative
\* size goes on to the end of memory.
ScanStrays(ptr) ==
  \/ \E d \in CPU :
       /\ Astray(pagehead[d], PagesHolding(ptr))
       /\ \A e \in CPU : e < d => Nodes(mem, pagehead[e]) \cap PagesHolding(ptr) = {}
  \/ \E p \in PagesHolding(ptr) :
       LET cleared == memset0(mem, ptr, mem[p].size)
       IN  mem[p].size < 0 \/ Beyond(ptr, mem[p].size) \/ ~Ends(cleared, FreeHead(cleared, p))

LinkStrays(l) ==
  LET s == mem[l.ph].size
  IN  IF JoinsBefore(mem, l.before, l.ptr)
        THEN s < 0 \/ MergeBeforeStrays(mem, l.ph, l.ptr, l.before, l.after)
        ELSE \/ l.ptr \notin Granule
             \/ /\ SlotAt(l.ptr - l.ph, s) > 0 /\ l.ptr + s = l.after
                /\ MergeAfterStrays(mem, l.ph, l.ptr, l.after)

FreeHugeStrays(hd) ==
  \/ hd \notin Granule
  \/ LET cleared == memset0(mem, hd, mem[hd].size + 1)
     IN  /\ mem[hd].magic = HUGE_MAGIC /\ mem[hd].size >= 0
         /\ Beyond(hd, mem[hd].size + 1) \/ ~Ends(cleared, head)

Strays(c) ==
  LET l == loc[c]  now == pc[c]
  IN  \/ now \in {"first_page", "new_page"} /\ AllockpageStrays
      \/ now = "first_init" /\ l.ph # NULL /\ l.ph + l.size \notin Granule
      \/ now = "find" /\ FindStrays(pagehead[c], l.size)
      \/ now = "fast" /\ FastStrays(l.ph, l.size)
      \/ now = "new_init" /\ l.ph # NULL /\ Beyond(l.ph + l.size, l.size + 1)
      \/ now = "huge" /\ HugeStrays(l.size)
      \/ now \in {"zero", "ret"} /\ l.ptr # NULL /\ Beyond(l.ptr, l.size)
      \/ now = "free_scan" /\ ScanStrays(l.ptr)
      \/ now = "free_link" /\ LinkStrays(l)
      \/ now = "free_huge" /\ FreeHugeStrays(l.ptr - 1)

\* c is at label, and every access of its next step is in the heap.
At(c, label) == c \notin halted /\ pc[c] = label /\ ~Strays(c)

Stray(c) ==
  /\ c \notin halted
  /\ Strays(c)
  /\ Panic(c)

-----------------------------------------------------------------------------
(* kalloc: choice of the path by size *)

KallocSmall(c) ==
  /\ At(c, "idle")
  /\ Cardinality(SmallOf(c)) < SmallQuota
  /\ \E n \in Request, s \in SizeClass :
       /\ RoundsTo(n, s) /\ s <= MaxSmall
       /\ SetLocals(c, [NoLocals EXCEPT !.size = s])
  /\ Goto(c, IF pagehead[c] = NULL THEN "first_lock" ELSE "search_lock")
  /\ UNCHANGED <<mem, head, heap_lock, pagehead, cpu_lock, live, frees, halted>>

KallocHuge(c) ==
  /\ At(c, "idle")
  /\ Cardinality(HugeLive) + Cardinality(HugeBusy) < HugeQuota
  /\ \E n \in Request, s \in SizeClass :
       /\ n > MaxSmall /\ n <= MaxHuge /\ RoundsTo(n, s)
       /\ SetLocals(c, [NoLocals EXCEPT !.size = s])
  /\ Goto(c, "huge_lock")
  /\ UNCHANGED <<mem, head, heap_lock, pagehead, cpu_lock, live, frees, halted>>

KallocTooBig(c) ==
  /\ At(c, "idle")
  /\ \E n \in Request : n > MaxHuge
  /\ SetLocals(c, NoLocals)
  /\ Goto(c, "ret")
  /\ UNCHANGED <<mem, head, heap_lock, pagehead, cpu_lock, live, frees, halted>>

-----------------------------------------------------------------------------
(* allockpage: called by the first allocation of a processor and by the    *)
(* slow path, both with the processor's own lock held                      *)

AllockpageLock(c) ==
  /\ At(c, "first_heap") \/ At(c, "new_heap")
  /\ LockHeap
  /\ Goto(c, IF pc[c] = "first_heap" THEN "first_page" ELSE "new_page")
  /\ UNCHANGED <<mem, head, pagehead, cpu_lock, loc, live, frees, halted>>

\* A plausible bug: a node of exactly one page is returned before it is unlinked.
Allockpage_NotUnlinked(c) ==
  /\ At(c, "first_page") \/ At(c, "new_page")
  /\ \/ \E n \in PageFits(mem) :
          /\ First(mem, head, n, PageFits(mem))
          /\ mem' = IF mem[n].size = PageSize THEN mem ELSE TakePage(mem, head, n)
          /\ head' = IF mem[n].size = PageSize THEN head ELSE HeadAfterTakePage(mem, head, n)
          /\ SetLocals(c, [loc[c] EXCEPT !.ph = n])
     \/ /\ Nodes(mem, head) \cap PageFits(mem) = {}
        /\ SetLocals(c, [loc[c] EXCEPT !.ph = NULL])
        /\ UNCHANGED <<mem, head>>
  /\ UnlockHeap
  /\ Goto(c, IF pc[c] = "first_page" THEN "first_init" ELSE "new_init")
  /\ UNCHANGED <<pagehead, cpu_lock, live, frees, halted>>

Allockpage(c) ==
  /\ At(c, "first_page") \/ At(c, "new_page")
  /\ \/ \E n \in PageFits(mem) :
          /\ First(mem, head, n, PageFits(mem))
          /\ mem' = TakePage(mem, head, n)
          /\ head' = HeadAfterTakePage(mem, head, n)
          /\ SetLocals(c, [loc[c] EXCEPT !.ph = n])
     \/ /\ Nodes(mem, head) \cap PageFits(mem) = {}
        /\ SetLocals(c, [loc[c] EXCEPT !.ph = NULL])
        /\ UNCHANGED <<mem, head>>
  /\ UnlockHeap
  /\ Goto(c, IF pc[c] = "first_page" THEN "first_init" ELSE "new_init")
  /\ UNCHANGED <<pagehead, cpu_lock, live, frees, halted>>

-----------------------------------------------------------------------------
(* kalloc: a processor's first allocation *)

FirstLock(c) ==
  /\ At(c, "first_lock")
  /\ LockCpu(c)
  /\ Goto(c, "first_heap")
  /\ UNCHANGED <<mem, head, heap_lock, pagehead, loc, live, frees, halted>>

FirstInit(c) ==
  /\ At(c, "first_init")
  /\ loc[c].ph # NULL
  /\ pagehead' = [pagehead EXCEPT ![c] = loc[c].ph]
  /\ mem' = FormatPage(mem, loc[c].ph, loc[c].size)
  /\ SetLocals(c, [loc[c] EXCEPT !.ph = NULL])
  /\ UnlockCpu(c)
  /\ Goto(c, "search_lock")
  /\ UNCHANGED <<head, heap_lock, live, frees, halted>>

\* assert(cpupagelist[cpuno].pagehead != NULL)
FirstPanic(c) ==
  /\ At(c, "first_init")
  /\ loc[c].ph = NULL
  /\ Panic(c)

-----------------------------------------------------------------------------
(* kalloc: the fast path *)

SearchLock(c) ==
  /\ At(c, "search_lock")
  /\ LockCpu(c)
  /\ Goto(c, "find")
  /\ UNCHANGED <<mem, head, heap_lock, pagehead, loc, live, frees, halted>>

FindPage(c) ==
  /\ At(c, "find")
  /\ \E p \in Matching(loc[c].size) :
       /\ First(mem, pagehead[c], p, Matching(loc[c].size))
       /\ SetLocals(c, [loc[c] EXCEPT !.ph = p])
  /\ Goto(c, "fast")
  /\ UNCHANGED <<mem, head, heap_lock, pagehead, cpu_lock, live, frees, halted>>

FastPath(c) ==
  /\ At(c, "fast")
  /\ LET p == loc[c].ph  s == loc[c].size
     IN  \E fd \in Granule \cap {p + mem[p].magic * s} :
           /\ mem[p].size = s /\ Holds(fd, s) /\ TakeSlotAsserts(mem, p, fd, s)
           /\ mem' = TakeSlot(mem, p, fd, s)
           /\ SetLocals(c, [loc[c] EXCEPT !.ptr = fd, !.ph = NULL])
  /\ UnlockCpu(c)
  /\ Goto(c, "zero")
  /\ UNCHANGED <<head, heap_lock, pagehead, live, frees, halted>>

\* The assertions of the fast path, each after the stores that precede it, and
\* panic_on(true, "can reach here"), which comes after the unlock.
FastPanic(c) ==
  /\ At(c, "fast")
  /\ LET p == loc[c].ph  s == loc[c].size
     IN  \/ mem[p].size # s /\ UNCHANGED <<mem, cpu_lock, pc>>
         \/ \E fd \in Granule \cap {p + mem[p].magic * s} :
              /\ mem[p].size = s
              /\ \/ ~Holds(fd, s) /\ UnlockCpu(c) /\ Goto(c, "zero") /\ UNCHANGED mem
                 \/ /\ Holds(fd, s) /\ ~TakeSlotAsserts(mem, p, fd, s)
                    /\ mem' = IF mem[fd].size = s /\ mem[fd].magic # PAGE_MAGIC
                                THEN [mem EXCEPT ![fd].size = 0]
                                ELSE TakeSlot(mem, p, fd, s)
                    /\ UNCHANGED <<cpu_lock, pc>>
  /\ halted' = halted \cup {c}
  /\ UNCHANGED <<head, heap_lock, pagehead, loc, live, frees>>

\* memset(fd, 0, size), after the lock has been released.
Zero(c) ==
  /\ At(c, "zero")
  /\ mem' = memset0(mem, loc[c].ptr, loc[c].size)
  /\ Goto(c, "ret")
  /\ UNCHANGED <<head, heap_lock, pagehead, cpu_lock, loc, live, frees, halted>>

-----------------------------------------------------------------------------
(* kalloc: the slow path *)

\* An empty page of this processor takes the new size.
ReusePage(c) ==
  /\ At(c, "find")
  /\ Nodes(mem, pagehead[c]) \cap Matching(loc[c].size) = {}
  /\ \E p \in Empty :
       LET sized == [mem EXCEPT ![p].size = loc[c].size]
       IN  /\ First(mem, pagehead[c], p, Empty)
           /\ mem' = CarvePage(sized, p, loc[c].size)
           /\ SetLocals(c, [loc[c] EXCEPT !.ptr = SlowBlock(sized, p, loc[c].size)])
  /\ UnlockCpu(c)
  /\ Goto(c, "ret")
  /\ UNCHANGED <<head, heap_lock, pagehead, live, frees, halted>>

NeedPage(c) ==
  /\ At(c, "find")
  /\ Nodes(mem, pagehead[c]) \cap (Matching(loc[c].size) \cup Empty) = {}
  /\ Goto(c, "new_heap")
  /\ UNCHANGED <<mem, head, heap_lock, pagehead, cpu_lock, loc, live, frees, halted>>

InsertPage(c) ==
  /\ At(c, "new_init")
  /\ LET p == loc[c].ph  s == loc[c].size
         headed == [mem EXCEPT ![p] = [next |-> pagehead[c], size |-> s, magic |-> 1]]
     IN  /\ p # NULL
         /\ pagehead' = [pagehead EXCEPT ![c] = p]
         /\ mem' = CarvePage(headed, p, s)
         /\ SetLocals(c, [loc[c] EXCEPT !.ptr = SlowBlock(headed, p, s), !.ph = NULL])
  /\ UnlockCpu(c)
  /\ Goto(c, "ret")
  /\ UNCHANGED <<head, heap_lock, live, frees, halted>>

NoPage(c) ==
  /\ At(c, "new_init")
  /\ loc[c].ph = NULL
  /\ UnlockCpu(c)
  /\ Goto(c, "ret")
  /\ UNCHANGED <<mem, head, heap_lock, pagehead, loc, live, frees, halted>>

-----------------------------------------------------------------------------
(* kallocHugeMemory *)

HugeLock(c) ==
  /\ At(c, "huge_lock")
  /\ LockHeap
  /\ Goto(c, "huge")
  /\ UNCHANGED <<mem, head, pagehead, cpu_lock, loc, live, frees, halted>>

KallocHugeMemory(c) ==
  /\ At(c, "huge")
  /\ LET s == loc[c].size
         fitting == Nodes(mem, head) \cap HugeFits(mem, s)
     IN  \/ \E n \in fitting :
              /\ Highest(n, fitting)
              /\ mem' = TakeHuge(mem, n, s)
              /\ SetLocals(c, [loc[c] EXCEPT !.ptr = HugeBlock(mem, n, s)])
         \/ fitting = {} /\ UNCHANGED <<mem, loc>>
  /\ UnlockHeap
  /\ Goto(c, "ret")
  /\ UNCHANGED <<head, pagehead, cpu_lock, live, frees, halted>>

-----------------------------------------------------------------------------
(* kalloc returns: the client owns the block, if any, and writes into it *)

Return(c) ==
  /\ At(c, "ret")
  /\ LET p == loc[c].ptr  s == loc[c].size
     IN  \/ p = NULL /\ UNCHANGED <<mem, live>>
         \/ /\ p # NULL
            /\ mem' = Fill(mem, p, s)
            /\ live' = live \cup {[ptr |-> p, size |-> s, cpu |-> c]}
  /\ SetLocals(c, NoLocals)
  /\ Goto(c, "idle")
  /\ UNCHANGED <<head, heap_lock, pagehead, cpu_lock, frees, halted>>

-----------------------------------------------------------------------------
(* kfree *)

\* The client gives up the block; loc.size remembers it for the properties,
\* kfree itself is told only the address.
Kfree(c) ==
  /\ At(c, "idle")
  /\ CanFree /\ (FreeBound = 0 \/ frees < FreeBound)
  /\ frees' = IF FreeBound = 0 THEN 0 ELSE frees + 1
  /\ \E b \in live :
       /\ b.cpu = c \/ RemoteFree
       /\ live' = live \ {b}
       /\ SetLocals(c, [NoLocals EXCEPT !.ptr = b.ptr, !.size = b.size])
  /\ Goto(c, "free_lock")
  /\ UNCHANGED <<mem, head, heap_lock, pagehead, cpu_lock, halted>>

KfreeLock(c) ==
  /\ At(c, "free_lock")
  /\ LockCpu(c)
  /\ Goto(c, "free_scan")
  /\ UNCHANGED <<mem, head, heap_lock, pagehead, loc, live, frees, halted>>

KfreeScan(c) ==
  /\ At(c, "free_scan")
  /\ \E p \in PagesHolding(loc[c].ptr) \cap Granule :
       LET ptr == loc[c].ptr
           cleared == memset0(mem, ptr, mem[p].size)
           nodes == Nodes(cleared, FreeHead(cleared, p)) \cap Granule
       IN  \E before, after \in nodes \cup {NULL} :
             /\ Highest(before, {h \in nodes : h < ptr})
             /\ Lowest(after, {h \in nodes : h > ptr})
             /\ mem' = cleared
             /\ SetLocals(c, [loc[c] EXCEPT !.ph = p, !.before = before, !.after = after])
  /\ Goto(c, "free_link")
  /\ UNCHANGED <<head, heap_lock, pagehead, cpu_lock, live, frees, halted>>

\* Merge or push.  Every branch but the first sets the index to the block's
\* slot, by a division by ph->size, and asserts that it is not 0.
KfreeLink(c) ==
  /\ At(c, "free_link")
  /\ LET ptr == loc[c].ptr  p == loc[c].ph
         before == loc[c].before  after == loc[c].after  s == mem[p].size
     IN  \/ /\ s >= 0 /\ JoinsBefore(mem, before, ptr)
            /\ mem' = MergeBefore(mem, p, ptr, before, after)
         \/ /\ ~JoinsBefore(mem, before, ptr) /\ SlotAt(ptr - p, s) > 0 /\ ptr + s = after
            /\ mem' = MergeAfter(mem, p, ptr, after)
         \/ /\ ~JoinsBefore(mem, before, ptr) /\ SlotAt(ptr - p, s) > 0 /\ ptr + s # after
            /\ mem' = PushFree(mem, p, ptr)
  /\ SetLocals(c, NoLocals)
  /\ UnlockCpu(c)
  /\ Goto(c, "idle")
  /\ UNCHANGED <<head, heap_lock, pagehead, live, frees, halted>>

\* ph->size is 0 in a page that still has blocks and the division traps, or it
\* has grown and the assertion fails; the new node is written by then.
KfreePanic(c) ==
  /\ At(c, "free_link")
  /\ LET ptr == loc[c].ptr  p == loc[c].ph  after == loc[c].after  s == mem[p].size
         total == IF ptr + s = after THEN s + mem[after].size ELSE s
         noded == [mem EXCEPT ![ptr] = FreeNode(FreeHead(mem, p), total)]
     IN  /\ s >= 0 /\ ~JoinsBefore(mem, loc[c].before, ptr) /\ SlotAt(ptr - p, s) = 0
         /\ mem' = IF s = 0 THEN noded ELSE SetIndex(noded, p, 0)
  /\ halted' = halted \cup {c}
  /\ UNCHANGED <<head, heap_lock, pagehead, cpu_lock, pc, loc, live, frees>>

\* A plausible bug: the lock of the page search is kept for the huge block.
KfreeNotInPage_NoUnlock(c) ==
  /\ At(c, "free_scan")
  /\ PagesHolding(loc[c].ptr) = {}
  /\ Goto(c, "free_huge_lock")
  /\ UNCHANGED <<mem, head, heap_lock, pagehead, cpu_lock, loc, live, frees, halted>>

KfreeNotInPage(c) ==
  /\ At(c, "free_scan")
  /\ PagesHolding(loc[c].ptr) = {}
  /\ UnlockCpu(c)
  /\ Goto(c, "free_huge_lock")
  /\ UNCHANGED <<mem, head, heap_lock, pagehead, loc, live, frees, halted>>

KfreeHugeLock(c) ==
  /\ At(c, "free_huge_lock")
  /\ LockHeap
  /\ Goto(c, "free_huge")
  /\ UNCHANGED <<mem, head, pagehead, cpu_lock, loc, live, frees, halted>>

KfreeHuge(c) ==
  /\ At(c, "free_huge")
  /\ \E hd \in Granule \cap {loc[c].ptr - 1} :
       LET s == mem[hd].size
           cleared == memset0(mem, hd, s + 1)
           nodes == Nodes(cleared, head) \cap Granule
       IN  \E before, after \in nodes \cup {NULL} :
             /\ mem[hd].magic = HUGE_MAGIC /\ s >= 0
             /\ Highest(before, {h \in nodes : h < hd})
             /\ Lowest(after, {h \in nodes : h > hd})
             /\ mem' = FreeHuge(cleared, head, hd, s, before, after)
             /\ head' = HeadAfterFreeHuge(cleared, head, hd, s, before, after)
  /\ SetLocals(c, NoLocals)
  /\ UnlockHeap
  /\ Goto(c, "idle")
  /\ UNCHANGED <<pagehead, cpu_lock, live, frees, halted>>

\* assert(header->magic == 7654321); a memset of a negative size faults.
KfreeHugePanic(c) ==
  /\ At(c, "free_huge")
  /\ \E hd \in Granule \cap {loc[c].ptr - 1} : (mem[hd].magic # HUGE_MAGIC \/ mem[hd].size < 0)
  /\ Panic(c)

-----------------------------------------------------------------------------
\* The calls clients make, and everything kalloc and kfree do afterwards.
Call(c) == KallocSmall(c) \/ KallocHuge(c) \/ KallocTooBig(c) \/ Kfree(c)

Work(c) ==
  \/ AllockpageLock(c) \/ Allockpage(c)
  \/ FirstLock(c) \/ FirstInit(c) \/ FirstPanic(c)
  \/ SearchLock(c) \/ FindPage(c) \/ FastPath(c) \/ FastPanic(c) \/ Zero(c)
  \/ ReusePage(c) \/ NeedPage(c) \/ InsertPage(c) \/ NoPage(c)
  \/ HugeLock(c) \/ KallocHugeMemory(c) \/ Return(c)
  \/ KfreeLock(c) \/ KfreeScan(c) \/ KfreeLink(c) \/ KfreePanic(c)
  \/ KfreeNotInPage(c) \/ KfreeHugeLock(c) \/ KfreeHuge(c) \/ KfreeHugePanic(c)
  \/ Stray(c)

Next == \E c \in CPU : Call(c) \/ Work(c)

Spec == Init /\ [][Next]_vars

\* A processor that is running keeps running; nothing more is assumed of the
\* order in which spinning processors get a lock.
FairSpec == Spec /\ \A c \in CPU : WF_vars(Work(c))

-----------------------------------------------------------------------------
(* Locks *)

\* Where a processor is inside a section of its own lock, and of heap_lock.
CpuSection == {"first_heap", "first_page", "first_init", "find", "fast",
               "new_heap", "new_page", "new_init", "free_scan", "free_link"}
HeapSection == {"first_page", "new_page", "huge", "free_huge"}

(* lock() and unlock() bracket every path of kalloc and kfree, early returns and
   panics included: a lock is 1 exactly while some processor is in one of its
   sections, and no two processors are in a section of heap_lock. *)
LockDiscipline ==
  /\ \A c \in CPU : (cpu_lock[c] = 1) <=> pc[c] \in CpuSection
  /\ (heap_lock = 1) <=> \E c \in CPU : pc[c] \in HeapSection
  /\ \A c, d \in CPU : pc[c] \in HeapSection /\ pc[d] \in HeapSection => c = d

-----------------------------------------------------------------------------
(* Ownership *)

\* Blocks clients own, and blocks on their way to or from a client.
Owned ==
  {[ptr |-> b.ptr, size |-> b.size] : b \in live}
    \cup {[ptr |-> loc[c].ptr, size |-> loc[c].size] :
            c \in {d \in CPU : loc[d].ptr # NULL}}

SmallOwned == {b \in Owned : ~IsHuge(b)}
HugeOwned == {b \in Owned : IsHuge(b)}

HeapFree == UNION {Run(n, mem[n].size) : n \in Nodes(mem, head)}

\* The pages of c, with the one allockpage has just returned to it.
PagesOf(c) ==
  Nodes(mem, pagehead[c])
    \cup {p \in {loc[c].ph} : p # NULL /\ pc[c] \in {"first_init", "new_init"}}

Taken ==
  (UNION {Run(p, PageSize) : p \in UNION {PagesOf(c) : c \in CPU}})
    \cup (UNION {Run(b.ptr - 1, b.size + 1) : b \in HugeOwned})

\* Owned blocks that lie in page p.
BlocksIn(p) == {b \in Owned : Run(b.ptr, b.size) \cap Run(p, PageSize) # {}}

(* Two slips of kfree and kallocHugeMemory that clients can avoid.  kfree takes the
   header of a full page for its free list, whatever processor calls it: SlotLeft
   says that no block is freed in a full page.  kallocHugeMemory accepts a node with
   no room for the block and its header: HeaderFits says that the node it picks has
   room for both. *)
SlotLeft ==
  \A c \in CPU : pc[c] = "free_scan" => \A p \in PagesHolding(loc[c].ptr) : mem[p].magic # 0

HeaderFits ==
  \A c \in CPU : pc[c] = "huge" =>
    LET fitting == Nodes(mem, head) \cap HugeFits(mem, loc[c].size)
    IN  \A n \in fitting : Highest(n, fitting) => mem[n].size > loc[c].size + 1

Careful == SlotLeft /\ HeaderFits

\* The behaviours of clients that avoid both, Spec /\ []Careful: no call is under way in Init.
CarefulNext == Next /\ Careful'
CarefulSpec == Init /\ [][CarefulNext]_vars

(* kfree of a huge block gives its header back only when the heap node below still
   ends where the header starts: HugeRejoins says that this node has not been used
   up by pages or other huge blocks in the meantime. *)
HugeRejoins ==
  \A c \in CPU : pc[c] = "free_huge" =>
    \E n \in Nodes(mem, head) : n + mem[n].size = loc[c].ptr - 1

(* What a client wrote into its block is still there until it frees it: no
   memset, list node or header of the allocator lands in it, whatever blocks it
   or other processors allocate and free meanwhile. *)
LiveDataIntact ==
  \A b \in live : \A g \in Run(b.ptr, b.size) :
    g \in Granule /\ mem[g] = UserCell(b.ptr)

(* Every block carved from a page is aligned to its size, in pages reused for
   another size too. *)
SmallAligned == \A b \in SmallOwned : b.ptr % b.size = 0

(* The memset of the fast path runs after the lock is released, that of the slow
   path before: either way a block from a page is all zero when kalloc returns. *)
SmallZeroed ==
  \A c \in CPU : pc[c] = "ret" /\ loc[c].ptr # NULL /\ loc[c].size <= MaxSmall =>
    \A g \in Run(loc[c].ptr, loc[c].size) : mem[g] = ZeroCell

(* No walk of the heap list, of a page list or of a page's free list runs for
   ever under the lock the walker holds. *)
ListsEnd ==
  /\ Ends(mem, head)
  /\ \A c \in CPU : Ends(mem, pagehead[c])
  /\ \A p \in AllPages : mem[p].size > 0 /\ mem[p].magic > 0 => Ends(mem, FreeHead(mem, p))

(* No loop of kalloc or kfree leaves the heap or goes round for ever, and no load or
   store of theirs falls outside it: the links, indices and sizes that kalloc and kfree
   leave behind on any processor are always the ones the next call can follow. *)
StaysInHeap == \A c \in CPU : ~Strays(c)

\* x and y are different spans of slots, and apart.
ApartFrom(x, y) == x # y => Run(x.at, x.len) \cap Run(y.at, y.len) = {}

(* The nodes on a page's free list and the blocks in use are whole slots of the page,
   behind its header, and pairwise apart: however kfree merges a block with its
   neighbours, no slot is given out twice.  (Slots may be lost: see pmm.c:376.)  A page
   that kfree has declared empty has no block in use and starts over at slot 1. *)
SlotsApart ==
  \A p \in AllPages :
    LET s == mem[p].size
        nodes == IF mem[p].magic = 0 THEN {} ELSE Nodes(mem, FreeHead(mem, p))
        free == {[kind |-> "free", at |-> n, len |-> mem[n].size] : n \in nodes}
        used == {[kind |-> "used", at |-> b.ptr, len |-> b.size] : b \in BlocksIn(p)}
    IN  IF s = 0 THEN used = {} /\ mem[p].magic = 1
        ELSE /\ \A x \in free \cup used :
                  /\ x.len > 0 /\ p + s <= x.at /\ x.at + x.len <= p + PageSize
                  /\ (x.at - p) % s = 0 /\ x.len % s = 0
             /\ \A x, y \in free \cup used : ApartFrom(x, y)

\* Some n granules in a row are neither in a page nor in a huge block.
Room(n) == \E g \in Granule : Run(g, n) \subseteq Granule \ Taken

(* allockpage reports no memory only when no page fits anywhere in the heap, and
   kallocHugeMemory only when no block with its header does: nothing that was
   freed is lost, and neighbouring free nodes are always merged. *)
NullMeansFull ==
  [][\A c \in CPU :
       /\ pc[c] \in {"first_page", "new_page"} /\ pc'[c] # pc[c] /\ loc'[c].ph = NULL
            => ~Room(PageSize)
       /\ pc[c] = "huge" /\ pc'[c] = "ret" /\ loc'[c].ptr = NULL
            => ~Room(loc[c].size + 1)]_vars

-----------------------------------------------------------------------------
\* What AllocSpec promises, read off the lists in memory.
Alloc == INSTANCE AllocSpec WITH
  Heap <- Granule,
  SmallClass <- {s \in SizeClass : s <= MaxSmall},
  HugeClass <- {s \in SizeClass : MaxSmall < s /\ s <= MaxHuge},
  free <- HeapFree,
  pages <- [c \in CPU |-> PagesOf(c)],
  blocks <- Owned

(* kalloc and kfree implement the abstract allocator: the granules on the heap
   list are exactly the free ones, every page and huge block is cut from free
   granules, every small block from unused slots of one of the caller's pages. *)
ImplementsAlloc == Alloc!Spec

-----------------------------------------------------------------------------
(* Progress *)

(* A small kalloc served from the processor's own pages and a kfree of a block
   in a page return whatever the other processors do: they wait for no lock that
   another processor takes. *)
OwnPagesWaitFree ==
  \A c \in CPU :
    /\ pc[c] \in {"search_lock", "find"} ~> pc[c] \in {"idle", "new_heap"}
    /\ pc[c] \in {"free_lock", "free_scan"} ~> pc[c] \in {"idle", "free_huge_lock"}
=============================================================================
