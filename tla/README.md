# Verification of the kernel allocator and its machine layer

This directory holds TLA+ models of NJUOSLab-L1-kmalloc-kfree: a small
multiprocessor kernel whose memory allocator (`kernel/src/pmm.c`) is the core of
the lab, and the AbstractMachine (`abstract-machine/`) it runs on. TLC checks the
models on small instances, TLAPS proves theorems about them for every value of
their constants. `PROJECT.json` lists components, runs, mutants, the map from
definitions to source lines, findings, hazards and theorems.

Run `tlc -config <Run>.cfg <Module>` for a run and `tlapm <Module>.tla` for the
proofs.

## 1. Inventory

| part | source | state | operations |
|---|---|---|---|
| memory manager | `kernel/src/pmm.c`, `kernel/include/common.h` | heap list `head`, `heap_lock`, per processor a page list and a lock, all nodes in the heap itself | `pmm_init`, `kalloc`, `kfree`, inside them `allockpage`, `kallocHugeMemory` |
| workloads | `kernel/src/os.c`, `kernel/test/` | the blocks they own | sequences of `pmm->alloc`, `pmm->free`, stores into blocks |
| kernel entry | `kernel/framework/main.c` | none | `os->init`, then `mpe_init(os->run)` |
| processor start-up and halt | `am/src/x86/qemu/{mpe,trm}.c`, `boot/`, `x86.h` | boot record, `ap_ready`, `user_entry`, GDT descriptor | boot sector, loader, `_start_c`, `mpe_init`, `othercpu_entry`, `halt`, `__am_stop_the_world` |
| page tables | `am/src/x86/qemu/vme.c` | `kpt`, one tree of tables per address space | `vme_init`, `protect`, `map`, `unprotect`, `ucontext` |
| contexts and traps | `am/src/x86/qemu/cte.c`, `trap*.S` | contexts on kernel stacks, `tss.esp0`, `cr3` | trap entry, handler, `iret`, `yield`, `kcontext`, `iset` |
| devices | `am/src/x86/qemu/ioe.c` | device registers, GPU canvas, timers | `ioe_read`, `ioe_write`, LAPIC/IOAPIC set-up |
| native platform | `am/src/native/` | processes, signal masks, page maps, key and audio queues | the same interface on top of Linux processes, signals and SDL |
| klib | `abstract-machine/klib/` | none (the seed of `rand`) | string, formatting, `atoi`, 64-bit arithmetic |
| libco | `libco/` | none | empty functions |

How the parts interact. `main` on the first processor calls `os->init`, which
calls `pmm_init`; only then does `mpe_init` start the other processors, and all of
them run `os->run`, which calls `kalloc` and `kfree` concurrently. A failed
assertion calls `halt`, which resets the others and switches the machine off. An
operating system on top hands `kalloc` and `kfree` to `vme_init` as page
allocator, makes threads with `kcontext` and `ucontext`, and switches between them
by the context its trap handler returns. The native platform offers the same
interface with Linux signals for interrupts and `mmap` for page tables. klib is
called by all of them; on 32-bit targets the compiler itself calls `int64.c`.

What is hard:

* **Concurrency.** Two kinds of spin locks, taken nested in one direction; a block
  zeroed after its lock is released; a free that edits pages of other processors
  under the wrong lock; start-up code in which all processors share a stack, a flag
  and a static descriptor, kept apart only by the order of the steps.
* **In-place data structures.** Four node types share the heap with user data.
  Merging free slots, reusing pages and putting huge blocks back relink nodes in
  many cases, and a wrong case overwrites a block someone else is using.
* **Limits.** Full pages, an exhausted heap, a node of exactly the right size, an
  area that ends at 2^32.
* **Traps.** The gates leave interrupts on until the stub's `cli`; a context is
  restored from a stack by copying it over itself; signals may come in the middle
  of anything and are dropped inside shared libraries.
* **Ordering and progress.** Nothing may run before `os->init`, every processor
  must be started, and a halt must end the machine at any moment.

What makes each part correct: for the allocator, that blocks never overlap, keep
their contents, are aligned and zeroed, that memory is never lost and that calls
return; for start-up, exclusive use of the shared boot resources, one
initialisation, and arrival of every processor; for page tables, that each space
shows exactly what was mapped, that the kernel is mapped in all of them, and that
tearing down frees each table once; for traps, that a thread goes on exactly as it
was, in its own space and with its own kernel stack; for klib, that each routine
computes what its C contract says, or what differs from it.

The hazards, each at its line with the properties that would catch it, are in
`PROJECT.json`.

## 2. Modules

| module | models | composed with |
|---|---|---|
| `PmmMem` | the heap as memory, lists in it, and every edit `pmm.c` makes, as operators | used by `Pmm` |
| `Pmm` | `kalloc` and `kfree` on several processors, step by step, and their clients | refines `AllocSpec` |
| `AllocSpec` | the abstract allocator: sets of free granules, pages, blocks | |
| `Mpe` | boot, start-up handshake, kernel entry, halt | |
| `Vme` | page tables | refines `VmeSpec` |
| `VmeSpec` | abstract address spaces: a partial function per space | |
| `Cte` | contexts and traps of x86-qemu: threads on kernel stacks, gates, stubs, `__am_irq_handle`, `__am_iret` | |
| `Native` | the native platform: signals as interrupts, page maps, the key queue | refines `VmeSpec` |
| `KInt64`, `KString`, `KStdio` | the routines of klib as operators | used by `Klib` |
| `Klib` | a client that calls them on every allowed argument | |
| `MCNative` | `Native` with the symmetry of the user pages, for TLC | extends `Native` |
| `PmmProofs`, `AllocSpecProofs`, `MpeProofs`, `NativeProofs`, `CteProofs`, `VmeProofs` | theorems | each extends the module it is named for |
| `PmmPages`, `PmmDataProofs` | lemmas about the list walks and page edits; theorems about blocks, lists and the refinement | `PmmDataProofs` extends `PmmPages`, which extends `PmmProofs` |

The other configurations instantiate the modules directly. Operators whose name
ends in `_Something` (`TakePage_KeepSize`) are wrong variants of the definition that
follows them; they document which mistake each property detects, and no
specification uses them.

### PmmMem and Pmm

*Memory.* All four node types are 16 bytes long with the same layout (pointer,
int, int), and every address `pmm.c` computes is a multiple of 16. So `mem` maps
16-byte *granules* to *cells* `[next, size, magic]`, and the same cell can be read as
a page header, a free node, a huge-block header or user data, exactly as in the
code. Sizes are counted in granules: `PageSize` stands for 64 KiB, `MinSize` for 32
bytes, `MaxSmall` for 16 KiB, `MaxHuge` for 16 MiB. User data is a cell that only
its owner writes (`UserCell`), with a null `next`. `int` and `size_t`
are integers without bound, except that sizes which become negative stay visible:
a heap of 2 GiB or more, whose size does not fit the `int` of `pmm.c:499`, is
outside the model.

*Lists.* `Nodes(m, h)` is what a `while (h) ... h = h->next` loop visits. "The first
node that fits", "the highest below" and so on are predicates over it (`First`,
`Highest`, `Lowest`), and each edit is one operator (`TakePage`, `TakeHuge`,
`FormatPage`, `TakeSlot`, `CarvePage`, `MergeBefore`, `MergeAfter`, `PushFree`,
`FreeHuge`), with the assertions in the code beside it (`TakeSlotAsserts`).

*Accesses outside the heap.* `pmm.c` checks no address: its loops follow any `next`
that is not NULL, and its stores go wherever a size or an index points. `Strays(c)`,
with one part per step, says that the next step of `c` has a loop that leaves the heap
or goes round in it for ever, or a load or store outside it. Such a step is the action
`Stray`, which stops `c`: what it reads and writes is not determined by the heap, and
the models and theorems claim nothing of the memory it reaches. All other actions are
guarded by `~Strays(c)`, so a walk in them visits what the C loop visits. `StaysInHeap`
says that no step strays. It is false for clients that corrupt the lists
(`PmmAnyClient`, where `Stray` is taken), and checked and proved for those that do not.

*Steps.* `pc[c]` says where processor `c` is. A step ends at every lock operation,
and also where the code has read memory that no lock it holds protects and goes on
to use what it read: after `kfree` has found the page and the neighbours
(`KfreeScan`, then `KfreeLink`), and between the unlock and the memset of the fast
path (`FastPath`, then `Zero`). A section under `heap_lock` is one step because the
heap list is used nowhere else. With local frees a processor's pages are used only
under its own lock, so sections under it are atomic as well. With remote frees
(`RemoteFree = TRUE`) the steps are coarser than the machine's; the runs that allow
them show what goes wrong already at this grain, and what holds nevertheless.

*Clients.* The code that calls the allocator may make any call at any time, within
quotas: `SmallQuota` blocks per processor and `HugeQuota` huge blocks in all,
optionally a bound on the number of frees. The quotas are part of what the positive
results say, because the allocator is correct only within them:

* With `SmallQuota = 2` no page is ever full and free lists have at most three
  nodes. From three blocks on, a `kfree` that merges on both sides while the node
  after the block heads the list sets the list head to the node before it
  (`pmm.c:376`) and drops whatever lies between. Slots are lost, the page is
  never recognised as empty, and the large tail node can be dropped too, after
  which the page counts as full. So free slots, header and blocks do *not* partition
  a page, and a page is taken from the heap although an unused one exists; no run
  claims otherwise. What the merge keeps is stated by `SlotsApart`: a slot is never
  given out twice. `PmmFragment` goes to five blocks of two sizes and five frees. Its
  specification `CarefulSpec` has the behaviours in which no block is freed in a page
  whose free list is empty, since such a free takes the page header for a free node
  and is one of the findings (`BadSlabFull`).
* With `HugeQuota = 1` there is one huge block at a time. The second one is not
  aligned (section 3, observed behaviour), and a huge block put back without merging loses the 16
  bytes of its header, so that the heap is no longer accounted for.

*Panics.* A failed assertion or a trapping division stops the processor for good
with its locks held (`halted`). What the others see of the halt is modelled in
`Mpe`; here they may go on.

### AllocSpec

Free granules, the pages of each processor, and the handed-out blocks, with one
action per promise. `Pmm` maps its state to it by reading the lists off memory:
`free` is the union of the nodes of the heap list, `pages` the page lists (with the
page `allockpage` has just returned), `blocks` what clients own or is on its way to
or from them. `ImplementsAlloc` states that `Pmm` implements it.

### Mpe

One program counter per processor through boot sector, loader, `_start_c`, the two
halves of `set_gdt` (the store to the static descriptor and `lgdt`), `main`,
`mpe_init` on processor 0 and `othercpu_entry` on the rest, and the loop of
`__am_stop_the_world`. Start-up messages reset the target whatever it does, when they
arrive: the sender goes on at once, and `sent` holds those on their way.
Reading the kernel image clears the kernel's variables, so a second load is
visible as a loss of the initialisation. `Halters` are the processors whose kernel
may call `halt`, at any time while it runs. The ELF format, the MP table scan and the device
registers are left out.

### Vme and VmeSpec

Page tables of `Levels` levels with `NIndex` entries in a pool of pages; a virtual
page is a number whose digits select the entries. `ptwalk` is split into the path
that exists and the tables it adds; `map` with and without permissions, `protect`,
`unprotect` with `teardown`, `vme_init` of the 32-bit build, and the panics are
actions. Pages that are not in use hold `Leftover`, which looks like valid user
entries. `Translate` is the processor's table walk (external to the source) and defines what
user programs and the kernel see. `VmeSpec` keeps one function per address space,
and `ImplementsView` states the refinement. The client calls the operations of a
space one after the other and calls `protect` again after `unprotect`, which leaves
a dangling pointer behind. Addresses are pages, so the alignment panic of `map`
has no counterpart. The TLB and the 64-bit kernel table are left out; `ucontext` is
in `Cte`.

### Cte

Memory is the kernel stacks, one integer per word, with the fields of `struct
Context` and `struct trap_frame` at their word offsets, because what can go wrong
is which word is where. The registers are a record. The processor's gate entry
(`Enter`) and the local APIC (`Interrupt`) are external. From the `cli` of a stub
to the `iret` nothing can come in, so stub, `trap`, `__am_irq_handle`, the client's
handler and `__am_iret` are one action, `Handle`. The gates are trap gates, so
between the gate and the `cli` an interrupt may still come in; then the thread has
two frames on its stack, and the handler of the second may switch away.
`copied` keeps the order of the six moves of the kernel return, since source
and target overlap for a new context. Words below a stack pointer are overwritten
with junk at each switch, as the C frames of the handler would.

The client is a scheduler on one processor: it saves the context it is given for
the thread that ran and returns any saved one; the boot code's context is dropped.
The kind of event (`ev`) is left out, since the scheduler may answer any event with
any context. `expect` records what each thread must find when it goes on. The
state is typed by `TypeOK`, which also bounds the nesting to two frames.

### Native

`at` says where the instruction pointer is, as far as the code distinguishes it
(user space, kernel code, a shared library, behind the system call of
`sigprocmask`, `irq_handle`, its magic call), `mask` whether the interrupt signals
are blocked. A signal handler runs with them blocked and is one action; `irq_handle`
runs after it has returned. A page map is a list of nodes with `is_mapped`, `host`
is what the process has mapped. The event thread and the reader of `ioe/input.c` hold
the mutex for the whole access, the signal is a step of its own after it.

The client is a kernel on one processor that makes spaces and threads with
interrupts off, maps a page of a space once, and reads the keyboard with interrupts
off. Registers are left out: a signal frame saves them all. `ImplementsView` shows
that the page maps keep the same promise, `VmeSpec`, as the page tables of
x86-qemu do.

### KInt64, KString, KStdio and Klib

The routines are operators: loops are folds or recursion over the same
intermediate states, and each read sees what the iterations before it have
stored. `KInt64` has the width of a word as a parameter, `KStdio` those of `int` and
`unsigned long`, so that small instances reach every shift and sign boundary.
`Klib` calls one routine at a time on every argument its C contract allows.
Formats are sequences of character codes; a NULL format is not among them. What
`printf` does with a format that ends in a conversion (it steps over the
terminator) is in the model (`over`), and `PrintfAgrees` says for which formats it
cannot happen.

## 3. Runs

Sizes are in granules. `Spec` has no fairness, `FairSpec` has.

| run | instance | shows |
|---|---|---|
| `PmmOneCpu` | 1 processor, page 16, blocks 2 and 4, huge 8, a request that is too big, heap 64 (four pages), quotas 2 and 1 | small blocks are aligned, in pages reused for another size too, and `AllocSpec` is implemented; no assertion fails and no access leaves the heap, since either would stop the only processor and be a deadlock |
| `PmmFragment` | 1 processor, page 16 (7 slots of 2 or 3 of 4), heap 52 (three pages), five blocks, five frees in any order but none in a page whose free list is empty (`CarefulSpec`) | no slot is given out twice although some are lost, data stays intact, no list has a cycle |
| `PmmTwoCpus` | 2 processors, page 8, heap 16 (two pages, or a page and a huge block), quotas 2 and 1, `FairSpec` | in every interleaving, the step between the unlock and the memset of the fast path included, blocks are zero when handed out and keep their data, no access leaves the heap, kalloc reports no memory only when there is none, and `AllocSpec` is implemented; calls served from a processor's own pages always return |
| `PmmAnyClient` | 2 processors, page 8, remote frees, full pages, two huge blocks, two frees | types and the bracketing of locks survive corrupted lists, panics and an exhausted heap, up to the step that leaves the heap |
| `AllocSpec` | 2 processors, heap 18, page 8 | blocks never overlap, the heap is accounted for and its parts are disjoint |
| `Mpe` | 4 processors, each may halt, `FairSpec` | the boot stack is exclusive, nothing runs uninitialised or on another processor's descriptors, everyone arrives, a halt switches off unless two halters reset each other, stopped processors stay stopped |
| `Vme` | 2 levels of 4 entries, 2 spaces, kernel, user (two tables) and MMIO areas, pool of 7, client pages inside and outside the user area and in one and two tables | kernel mapped everywhere, tables accounted for, kernel tables never touched, `VmeSpec` implemented |
| `Cte` | 2 kernel threads (one boots), 2 user threads, stacks of 32 words, page fault, yield, two interrupt lines | threads go on exactly as they were, user threads in their own space and on their own stack, a new kernel thread calls its entry with its argument, every interrupt is acknowledged |
| `Native` | the same threads, 2 spaces, 2 pages, a queue of 3, 4 keys | user programs run in their own space with their own kernel stack, the handler gets the event that caused it, keys are kept in order, `VmeSpec` implemented |
| `Klib` | all dwords of two 4-bit words and edge dwords of 8-bit words, memory of 5 bytes with contents 0, 1, -1, 8-bit int and 16-bit long, formats of up to 4 of 7 characters, n up to 4 | division, bit counts, stores, comparisons, digits and bounded output are exact |
| `BadRemoteFree`, `BadSlabFull` | see below | violations |

Why the bounds are enough. A page of 8 or 16 granules has a header slot and at
least three block slots, the smallest number with a first, a middle and a last
slot; merging before, after, both and neither all happen, as do removing the head
and an inner node of the heap list, splitting a node, consuming one exactly, and
reusing an emptied page for another size. The seven slots of a page in `PmmFragment`
leave room for lists with gaps under five live blocks, and its two sizes for a page
that is reused after it has been emptied. `PmmTwoCpus` has the second processor that
`SmallZeroed` and `LiveDataIntact` need to be about interleavings: between the unlock
and the memset of one processor the other allocates, frees and takes pages from the
heap. The mutant of both, an `allockpage` that hands out a page and leaves it on the
heap list, changes nothing that one processor alone would notice in its zeroed blocks. Three or more processors
add nothing that two do not have in the allocator, since they meet only at
`heap_lock` (and `LocksCorrect` is proved for any number). For start-up, four
processors give the handshake a first, an inner and a last turn with bystanders,
and two halters can meet while a third starts. For page tables, seven pages hold
the kernel's three tables and a root with one table for each of the two spaces, or
with two tables for one, so both exhaustion and reuse after `unprotect` occur.

For traps, two user threads are needed for `esp0` and `cr3` to be stale, a
kernel thread between them for the switch that does not reload them, and a fault
with an error code beside one without for both shapes of the frame; 32 words hold
two nested frames, and the assumption on `S` says so. Vector 128, the system call,
is not among the vectors of the run: in the code modelled it differs from 129 by its
number only. Of the two kernel threads one is the boot code, whose context the client
drops. For the native machine a
queue of three holds two keys, so that keys are queued behind one another and wrap
around the ring; the third overruns it when none was read, and a fourth comes after
the overrun. The two pages and spaces
make every order of map and switch possible; the pages are interchangeable, so TLC
explores one of two states that differ in their names only. For the division the 4-bit words are
exhaustive: all 65,280 pairs of operands, the 8-bit ones add wider gaps between the
leading bits. Memory of five bytes has room for every overlap of two operands of
three bytes.

Deadlock checking is off only where the system may stop: after a panic, when the
heap is used up, when the bounded frees are spent, and when the
machine is off. `PmmOneCpu`, `PmmTwoCpus`, `AllocSpec`, `Cte`, `Native` and `Klib`
check for deadlock.

Fairness. `Pmm` and `Mpe` assume weak fairness of the steps of each processor:
a processor that runs keeps executing instructions, in QEMU as on hardware; `Mpe`
also that a message that was sent arrives. No
fairness of the locks is assumed, so a processor may lose the race for a lock for
ever; this is why the progress property of the allocator is about
calls that wait for no other processor. Whether a client calls or a kernel halts is
never forced. `Cte`, `Native` and `Klib` state safety only: which thread runs is up to a
scheduler that is not part of the repository, and klib calls are single steps.

### Findings

* `BadRemoteFree`: freeing a block of another processor races with that
  processor's `kalloc` (`pmm.c:313`).
* `BadSlabFull`: after a page has been full, `kfree` takes the page header for a
  free node and corrupts the page (`pmm.c:341`).

Observed behaviour, without a run of its own:

* The second huge block is not aligned to its size, since the node it is cut from
  ends below the header of the first (`pmm.c:160`); `src/README.md:24` requires the
  alignment. `Pmm` reaches it with `HugeQuota = 2`.
* A node of exactly the requested size passes the test "can hold" (`pmm.c:149`), but
  the header does not fit; it is written below the node, into its neighbour.
* Two processors that halt at the same time can stop each other for good: each sends
  the other its reset without waiting for it to be delivered (`mpe.c:52`), both may
  be reset before either writes the shutdown port (`trm.c:59`), and the machine stays on.
  `HaltPowersOff` exempts exactly this case.
* `printf` has no `break` after its inner switch (`stdio.c:167`): "%d%d" shows the
  second `%d` as text, and a format that ends in a conversion is read past its end.
* `strncpy` writes `dst[n]` (`string.c:43`) and `vsnprintf` may write `out[n]`
  (`stdio.c:366`), one byte more than their C namesakes; a cut `vsnprintf` output has
  no terminator. `assert(ret_num = strlen(out))` (`stdio.c:258`) fails on empty output.
* `strncpy` does not fill `dst` up to `n` with zeros behind a short source, `strcmp` and
  `strncmp` compare `char`s, which are signed, where C compares them as unsigned, and
  `memcpy` returns the end of `dst`. `StoresExact` is about the bytes that
  are stored, not about what the routines return.
* On the native platform a second `map` of a page makes a cycle of page map nodes
  (`vme.c:113`), and `"%x"`, which `map` gives to `snprintf` for its hash keys, is
  unknown to klib's own `vsnprintf`, should the platform be built with it.

On an exhausted heap a processor's
first allocation fails an assertion (`pmm.c:206`) where later ones return NULL
(`pmm.c:291`), which `PmmTwoCpus` includes as `FirstPanic`; an emptied page is
never given back to the heap; and in a page of 16 KiB blocks that has been full,
freeing the first block already makes the page look empty (its size becomes 0)
while the other two are in use, a case of `BadSlabFull`.

## 4. Proofs

All proofs are checked by TLAPS to the last leaf. They rest on the assumptions on
the constants only. For the allocator (`SizeAssumption`, `HeapAssumption`,
`ClientAssumption`, `AllocAssumption`) these say that sizes are positive, classes
double, a page is a whole number of blocks of each small size with room for four of the
largest, and the heap starts at a multiple of the page size; for start-up
(`MpeAssumption`) that there is a processor; for traps (`CteAssumption`) that threads
are numbered, vectors are those of the IDT and a kernel stack holds two nested
frames; for the native machine (`NativeAssumption`) that the key queue holds a key;
for page tables (`MmuAssumption`, `AreaAssumption`, `PoolAssumption`) that there is a
level and an entry, that the kernel, user and MMIO areas follow each other without
overlap and are made of whole entries of level 1 (the loop of `protect` steps by such
entries until it meets the end of the area exactly), and that the client has the pages
for the kernel's tables, without which `vme_init` cannot return.

`PmmProofs`, for any number of processors, any heap and any client, remote frees
and full pages included:

* `TypeCorrect`. `TypeOK` is not inductive: `KfreeLink` writes through the page and
  neighbours that `KfreeScan` found. The invariant is `TypeOK /\ LocalsValid`, where
  `LocalsValid` bounds those addresses by the block (the page starts below the block
  and reaches past it, `before` is below, `after` above). This is a lemma, not a claim
  about the code under corrupted lists: there, a step that would find an address
  outside the heap is `Stray`. There is one lemma per memory edit (it maps memories to
  memories), then one step per action.
* `LocksCorrect`. `LockDiscipline` is inductive relative to `TypeOK`: it says both that
  a lock is held exactly in its sections and that `heap_lock` sections exclude.

`PmmDataProofs`, for any number of processors, any heap, page size and size classes and
without the runs' quotas:

* `DataCorrect` (`LiveDataIntact`), `ZeroedCorrect` (`SmallZeroed`), `ListsCorrect`
  (`ListsEnd`), `HeapStays` (`StaysInHeap`), `SlotsCorrect` (`SlotsApart`),
  `PanicCorrect` (no assertion fails but the one of a processor's first allocation when
  the heap is used up, and no step is `Stray`), `BlocksApart` (`NoOverlap` and `Separate` of
  `AllocSpec`, read off the lists in memory).
* `AllocCorrect`, the refinement of `AllocSpec` (`ImplementsAlloc`), `AlignCorrect`
  (`SmallAligned`), `HeapCovered` (the heap list has every granule that is neither in a
  page nor in a huge block with its header) and `NullCorrect` (`NullMeansFull`).

Their hypotheses are conditions on what clients do, and exclude defects that sections 2
and 3 describe. All need two of them:

* `~RemoteFree`: a block is freed on the processor that allocated it (`pmm.c:313`).
* `[]Careful`. `SlotLeft`: no block is freed in a page whose free list is empty, where
  `kfree` takes the header for a free node (`pmm.c:341`). A page is in that state when it
  is full, and also when a merge has dropped its last free slots (`pmm.c:376`).
  `CarefulSpec`, the specification of `PmmFragment`, has these behaviours. `HeaderFits`:
  `kallocHugeMemory` does not pick a node that has no room for the header
  (`pmm.c:149`).

The second group needs a third one:

* `[]HugeRejoins`: when a huge block is freed, a heap node ends at its header. Otherwise
  `kfree` puts the block back without the 16 bytes of its header (`pmm.c:483`): they
  are lost, and the node starts where no page should.

The hypotheses are no stronger than the runs: `PmmFragment` assumes `Careful`, and TLC finds that `Careful` and `HugeRejoins`
hold in all reachable states of `PmmOneCpu` and `PmmTwoCpus`, whose quotas never fill a
page and keep one huge block at a time. Clients with several huge blocks, or with many
blocks to a page, can meet them too.

The inductive invariant `DataInv` says that there are a set `H` of heap nodes and a set
`P[c]` of pages for each processor such that they are what the lists hold; nodes, pages
(the one that `allockpage` has just returned included) and huge blocks with their
headers are pairwise apart; each page is well formed for the blocks that start in it
(`PageOK`: its free list ends, and its nodes and blocks are whole slots apart from each
other, although they need not fill the page); every huge block has its header; and the
locals of each processor mean what its label says, for instance that before `KfreeLink`
the neighbours are those of the block in the free list of its page (`Linking`). It takes
all of this to know where a store goes, and so that it does not hit a client's block.

The argument goes up in three layers. `PmmPages` proves what each list walk and each
page edit of `PmmMem` computes. `Nodes` is a recursive function, so `NodesAre`
characterises it as the least set that has the first node and is closed under `next`, by
an induction on the nodes still to be seen (a least counterexample, as in `VmeProofs`);
from then on a list that ends is described by its set (`List`), and edits of the list are
edits of the set. The frame lemmas `BodyWorld`, `PageWorld`, `NewPageWorld` and
`HeapStep` say that a step which changes the bytes of one block, one page, or the heap
list in the stated way keeps the invariant for everything else. Each action is then an
instance of one of them (`DataNext`).

For the refinement, `H` and `P` are the mapping: `AllShown` says that what `AllocSpec`
sees of memory is what the sets say, and there is one lemma per action for the step of
`AllocSpec` it makes (`AllockpageView`, `AllocView`, `KallocHugeView`, `KfreeLinkView`,
`KfreeHugeView`) or for making none. It needs `SizesBounded` besides, that no block is
larger than `MaxHuge`. `AlignInv` says that heap nodes and pages start at multiples of the
page size. For `NullMeansFull`, `Covered` says that nothing is lost and `Merged` that no
free memory ends where a heap node starts; so any row of free granules lies in one node
(`RoomInNode`), and the search of the list finds it.

`DataInv` quantifies over sets of nodes and over what a page's free list can be, too many
for TLC to enumerate; the runs check the properties it was found from.

`AllocSpecProofs`, for any heap, page size, classes and processors:

* `HeapAccounted`, `HeapSeparate`, `BlocksDisjoint`, from the invariant
  `Inv == TypeOK /\ Accounted /\ Separate /\ SmallInPages /\ SmallApart`.
  `NoOverlap` needs to know why a small block cannot meet a huge one (the small
  one lies in a page) and why small ones do not meet each other, hence the last two.

`MpeProofs`, for any number of processors and any of them halting at any time:

* `LoaderExclusive` (the boot stack), `KernelInitialised` (nobody runs the kernel
  before it is loaded and initialised, or on another's descriptors) and
  `StoppedForGood`. No lock keeps the processors apart during start-up, only the
  order of the steps, so the invariant `IInv` records that order: which program
  counters a processor can be at (`Paths`), that processor 0 boots alone
  (`BootsAlone`), which stores have happened by then (`Initialised`), that at most one
  other processor is between its start-up message and its answer (`OneAtATime`) and
  what `ap_ready` says of it (`Flagged`), that the shared descriptor is its own when it
  loads it (`OwnTable`), that until then messages go only to processors that are off
  (`OffUntilSent`), and that the first halt redirects the boot sector before it
  resets anyone (`Parked`).

`NativeProofs`, for any threads, spaces, pages and queue lengths, from three
invariants that do not need each other's details:

* `EventKept` and `UserConfined` from `TrapInv`: a saved context is at a place where a
  signal may come, one in user code carries its own space and kernel stack, and from
  the signal to the magic call interrupts are masked and `thiscpu` is that of the
  context being restored.
* `KeysInOrder` from `KeyInv`: the slots from `key_f` on hold the last `Held` keys
  pressed, so what was taken before is older; an overrun, where `key_r` meets `key_f`,
  empties the queue and breaks only the claim that no key is missing.
* `NativeSpaces`, the refinement of `VmeSpec`, from `SpaceInv`: a page is at most once
  in a list, and what the process has mapped is the list of the current space. The
  loops of `__am_switch` over the lists are quantifiers in the model, so no induction
  is needed.

`CteProofs`, for any threads, vectors and stack sizes with room for two frames:

* `ContextsIntact` (`ResumesExactly`), `UserThreadsApart` (`UserOnOwnStack`),
  `EntriesCalled` (`EntryCalled`), `LinesAcknowledged` (`IrqAcknowledged`) and
  `TypeCorrect`. The invariant follows a thread through memory: in its own code
  (`Plain`), in a stub whose pushed words describe the code it came from (`Trapped`), in
  the pool with a context that does (`Saved`). `History` says what a thread has yet to
  return to: nothing, its code, or its code and the stub of a software trap that an
  interrupt hit before its `cli`. It bounds the nesting, and with `S >= 28 + MaxWords`
  both frames and the context stay inside the stack. A step writes only the stack of
  the running thread, which keeps the `Saved` of all others. The longest
  lemmas follow the words: what the gate pushes, what the stub and
  `__am_irq_handle` build from them, and that the six overlapping moves of
  the kernel return restore them.

`VmeProofs`, for any number of levels and entries per table, any pool and any spaces:

* `KernelStaysMapped` (`KernelMapped`), `NoTableLost` (`TablesAccounted`),
  `KernelTablesUntouched` (`KernelTablesFixed`), `TypeCorrect`, and `TablesImplementView`,
  the refinement of `VmeSpec`. All rest on `Invariance`: the pages in use can be
  labelled with their place in a tree, `<<root, level, leading digits>>`, such that
  labels are legal and differ (`Labels`), every table but a root hangs on a parent
  (`Parents`), and every present entry leads to the table with the label one level down
  or, at the last level, to a frame, with `PTE_U` exactly where it belongs to a user page
  (`Entries`). The kernel's tables carry labels of the kernel's tree wherever they are
  entered, which is what makes sharing harmless. None of the four properties is
  inductive by itself: what a walk finds depends on every table on its way.
* The steps: `WalkTree` (a walk that adds tables extends the labelling), `StoreTree`
  (`map`, `unmap`), `ProtectTree`, `UnprotectTree` with `TeardownIs` (what `teardown`
  frees are exactly the pages labelled with that root), and `InitTree` (`vme_init`).
  `NextEvolves` says of each step how the labelling and the views change together;
  `MapView`, `UnmapView`, `ProtectView`, `UnprotectView` and `SilentView` turn it into
  steps of `VmeSpec`.
* `reach`, `Path` and `Torn` are recursive functions over the levels. That such a
  function exists and satisfies its equation is proved for each (`ReachExists`,
  `PathExists`, `TornExists`), by extending a partial one along the levels; the
  induction is that a nonempty set of naturals has a least element (`NatMin`,
  `Ladder`), a set in place of the predicate that the provers cannot instantiate.
* `Inv` quantifies over all labellings, too many for TLC to enumerate; the run `Vme`
  checks the four properties it was found from.

Only model-checked:

* Liveness and fairness: `AllRun`, `HaltPowersOff`, `OwnPagesWaitFree`.
* `ImplementsAlloc`, `LiveDataIntact` and the others of `PmmOneCpu` and `PmmTwoCpus`
  hold there without the hypotheses being assumed; the theorems are about all clients that
  meet them.
* klib: the routines are recursive, and what they compute for every input
  needs induction over data.

## 5. Not modelled

* The unit tests as programs: they are clients of `Pmm`, and their assertions are
  the source of `LiveDataIntact`. The `TEST` build of `pmm.c` differs in the lock
  primitives only.
* `trap64.S` and the 64-bit halves of `cte.c` and `vme.c`: the same protocol with
  other offsets; the models are of the 32-bit build.
* The devices of `x86/qemu/ioe.c`, but for the acknowledgement and start-up messages
  of the local APIC, and of `native/ioe/`, but for the key queue: sequences of port
  accesses, and single library calls. The audio pipe is a listed hazard.
* `rand`, `srand`, `abs`, the stubs of `malloc` and `free`, and `cpp.c`.
* The fork and pipe set-up of the native `mpe_init`; `Native` has one processor.
* `libco`: the functions are empty.
* x86-nemu: a variant of the qemu code for which the kernel is not built.
* Port I/O, ELF, ACPI/MP tables, SDL, `mmap`: device and library plumbing without
  state of the program's own.
* The parts of section 6.

## 6. Plan

In this order; the first nine are done.

1. Allocator: `PmmMem`, `Pmm`, `AllocSpec`, with the lock and typing theorems.
2. Start-up and halt: `Mpe`.
3. Page tables: `Vme`, `VmeSpec`.
4. Traps of x86-qemu: `Cte`.
5. Native platform, one processor: `Native`.
6. klib: `KInt64`, `KString`, `KStdio`, `Klib`.
7. Proofs about `Mpe`, `Native` and `Cte`.
8. Proofs about `Vme`.
9. Proofs about `Pmm`: `PmmPages`, `PmmDataProofs`. Left of it: what holds for clients
   that free into a page which lost its last free slots, where `kfree` takes the header for a
   free node; it needs an invariant for such pages.
10. Device logic of `x86/qemu/ioe.c` with state of its own (the GPU command
   interpreter, the disk's block loop) and the audio pipe of `native/ioe/audio.c`.
