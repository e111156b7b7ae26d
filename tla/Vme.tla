-------------------------------- MODULE Vme --------------------------------
(***************************************************************************)
(* Address spaces of the x86-qemu machine, am/src/x86/qemu/vme.c: trees of *)
(* page tables that vme_init, protect and map build with the client's      *)
(* pgalloc and that unprotect gives back with its pgfree.                  *)
(*                                                                         *)
(* Memory is counted in pages.  A virtual page is a number whose digits in *)
(* base NIndex are the indexes into the tables of level 1 .. Levels, which *)
(* is what mask and shift of the mmu table extract.  The kernel's tables   *)
(* are those of the 32-bit build; the 64-bit one takes them over from the  *)
(* boot code.  A client calls the operations on one address space one      *)
(* after the other, and the tables of two spaces have only the kernel's in *)
(* common, so an operation is a step.                                      *)
(***************************************************************************)
EXTENDS Integers, FiniteSets

CONSTANTS
  Levels,      \* mmu.ptlevels
  NIndex,      \* entries of a table
  KernelEnd,   \* the kernel area is [0, KernelEnd)
  MmioStart,   \* the area of memory-mapped I/O is [MmioStart, 0)
  UserStart,   \* uvm_area
  UserEnd,
  Pool,        \* pages that pgalloc can return
  Space,       \* address spaces of the client
  ClientPage,  \* virtual pages clients pass to map
  Frame        \* physical pages clients pass to map

ASSUME MmuAssumption == Levels \in Nat \ {0} /\ NIndex \in Nat \ {0}

\* What an entry of level k spans: 2^shift bytes, in pages.
reach[j \in 0 .. Levels] == IF j = 0 THEN 1 ELSE NIndex * reach[j - 1]
Reach(k) == reach[Levels - k]

Index == 0 .. (NIndex - 1)
Page == 0 .. (Reach(0) - 1)

\* The areas are made of whole entries of level 1, or protect would never end.
ASSUME AreaAssumption ==
  /\ {KernelEnd, MmioStart, UserStart, UserEnd, 0} \subseteq {Reach(1) * i : i \in 0 .. NIndex}
  /\ 0 < KernelEnd /\ KernelEnd <= UserStart /\ UserStart < UserEnd /\ UserEnd <= MmioStart
  /\ Pool \subseteq Nat \ {0} /\ IsFiniteSet(Pool)
  /\ ClientPage \subseteq Page /\ Frame \subseteq Nat

VARIABLES
  table,    \* the entries of every page of the pool
  used,     \* pages that pgalloc returned and pgfree did not get back
  kpt,      \* the kernel's page table
  root,     \* as->ptr of every space, without its flags
  panicked  \* a panic_on has stopped the machine

vars == <<table, used, kpt, root, panicked>>

NULL == 0

Absent == [to |-> NULL, flags |-> {}]
\* What a page that is not in use holds: anything, at worst something that looks
\* like entries.
Leftover == [to |-> NULL, flags |-> {"P", "W", "U"}]

Entry == [to : Nat, flags : SUBSET {"P", "W", "U"}]

TypeOK ==
  /\ table \in [Pool -> [Index -> Entry]]
  /\ used \subseteq Pool
  /\ kpt \in used \cup {NULL}
  /\ root \in [Space -> used \cup {NULL}]
  /\ panicked \in BOOLEAN

Init ==
  /\ table = [p \in Pool |-> [i \in Index |-> Leftover]]
  /\ used = {}
  /\ kpt = NULL
  /\ root = [s \in Space |-> NULL]
  /\ panicked = FALSE

-----------------------------------------------------------------------------
(* The areas *)

indexof(v, k) == (v \div Reach(k)) % NIndex

\* "for (cur = start; cur != end; cur += pgsize)", where cur wraps around.
Area(start, end) == {(start + i) % Reach(0) : i \in 0 .. (((end - start) % Reach(0)) - 1)}

KernelPage == Area(0, KernelEnd) \cup Area(MmioStart, 0)
UserPage == Area(UserStart, UserEnd)

-----------------------------------------------------------------------------
(* pgallocz: n zeroed pages, the lowest free ones; pages are interchangeable *)

HasFree(n) == Cardinality(Pool \ used) >= n

NewPage(i) == CHOOSE p \in Pool \ used : Cardinality({q \in Pool \ used : q < p}) = i - 1
NewPages(n) == {NewPage(i) : i \in 1 .. n}

\* A plausible bug: a page keeps what it held.
Zeroed_Not(m, P) == m

Zeroed(m, P) == [p \in Pool |-> IF p \in P THEN [i \in Index |-> Absent] ELSE m[p]]

-----------------------------------------------------------------------------
(* ptwalk *)

Present(m, p, i) == "P" \in m[p][i].flags

\* Path(m, r, v)[k]: the table of level k on the way to v, NULL if there is none.
Path(m, r, v) ==
  LET path[k \in 1 .. Levels] ==
        IF k = 1 THEN r
        ELSE IF path[k - 1] = NULL \/ ~Present(m, path[k - 1], indexof(v, k - 1)) THEN NULL
        ELSE m[path[k - 1]][indexof(v, k - 1)].to
  IN  path

Missing(m, r, v) == {k \in 1 .. Levels : Path(m, r, v)[k] = NULL}

\* The tables on the way to v once the missing ones are taken from the pool.
FullPath(m, r, v) ==
  [k \in 1 .. Levels |->
     IF k \in Missing(m, r, v)
       THEN NewPage(Cardinality({j \in Missing(m, r, v) : j <= k}))
       ELSE Path(m, r, v)[k]]

\* The memory after a walk from root r to v that adds the missing tables.
ptwalk(m, r, v, flags) ==
  LET path == FullPath(m, r, v)  new == Missing(m, r, v)
      blank == Zeroed(m, {path[k] : k \in new})
  IN  [p \in Pool |-> [i \in Index |->
         IF \E k \in new \ {1} : path[k - 1] = p /\ indexof(v, k - 1) = i
           THEN [to |-> path[CHOOSE k \in new \ {1} : path[k - 1] = p],
                 flags |-> {"P"} \cup flags]
           ELSE blank[p][i]]]

-----------------------------------------------------------------------------
(* vme_init *)

\* The kernel's tables, by level and by the leading digits of what they map.
KernelTable == {<<k, v \div Reach(k - 1)>> : k \in 1 .. Levels, v \in KernelPage}

\* The client has the pages for them: vme_init is the first thing it does.
ASSUME PoolAssumption == Cardinality(KernelTable) <= Cardinality(Pool)

\* The page that kernel table x is put in, and entry i of that table.
TableAt(x) ==
  NewPage(Cardinality({y \in KernelTable : y[1] < x[1] \/ (y[1] = x[1] /\ y[2] <= x[2])}))

KernelEntry(x, i) ==
  LET child == x[2] * NIndex + i
  IN  IF x[1] = Levels /\ child \in KernelPage THEN [to |-> child, flags |-> {"P", "W"}]
      ELSE IF <<x[1] + 1, child>> \in KernelTable
        THEN [to |-> TableAt(<<x[1] + 1, child>>), flags |-> {"P", "W"}]
      ELSE Absent

\* Walking to every page of the kernel areas in turn, from an empty root, takes
\* one page per kernel table and leaves the same tree in whatever order.
vme_init ==
  /\ ~panicked /\ kpt = NULL
  /\ table' = [p \in Pool |->
                 IF \E x \in KernelTable : TableAt(x) = p
                   THEN [i \in Index |-> KernelEntry(CHOOSE x \in KernelTable : TableAt(x) = p, i)]
                   ELSE table[p]]
  /\ used' = used \cup {TableAt(x) : x \in KernelTable}
  /\ kpt' = TableAt(<<1, 0>>)
  /\ UNCHANGED <<root, panicked>>

-----------------------------------------------------------------------------
(* protect, map, unprotect *)

\* A plausible bug: the kernel's entries are not copied.
protect_NoKernel(s) ==
  /\ ~panicked /\ kpt # NULL /\ root[s] = NULL
  /\ HasFree(1)
  /\ table' = Zeroed(table, NewPages(1))
  /\ used' = used \cup NewPages(1)
  /\ root' = [root EXCEPT ![s] = NewPage(1)]
  /\ UNCHANGED <<kpt, panicked>>

protect(s) ==
  /\ ~panicked /\ kpt # NULL /\ root[s] = NULL
  /\ HasFree(1)
  /\ LET shared == {indexof(v, 1) : v \in KernelPage}
     IN  table' = [Zeroed(table, NewPages(1)) EXCEPT
                     ![NewPage(1)] = [i \in Index |-> IF i \in shared THEN table[kpt][i] ELSE Absent]]
  /\ used' = used \cup NewPages(1)
  /\ root' = [root EXCEPT ![s] = NewPage(1)]
  /\ UNCHANGED <<kpt, panicked>>

Leaf(m, r, v) == m[FullPath(table, r, v)[Levels]][indexof(v, Levels)]

SetLeaf(m, r, v, e) ==
  [m EXCEPT ![FullPath(table, r, v)[Levels]][indexof(v, Levels)] = e]

Walked(s, v) == ptwalk(table, root[s], v, {"W", "U"})
Needs(s, v) == Cardinality(Missing(table, root[s], v))

Pte(f, write) == [to |-> f, flags |-> {"P", "U"} \cup (IF write THEN {"W"} ELSE {})]

\* map(as, va, pa, prot) with a prot that grants access.  The walk after the store
\* finds every table present and changes nothing.
map(s) ==
  \E v \in ClientPage \cap UserPage, f \in Frame, write \in BOOLEAN :
    /\ ~panicked /\ root[s] # NULL
    /\ HasFree(Needs(s, v))
    /\ "P" \notin Leaf(Walked(s, v), root[s], v).flags
    /\ table' = SetLeaf(Walked(s, v), root[s], v, Pte(f, write))
    /\ used' = used \cup NewPages(Needs(s, v))
    /\ UNCHANGED <<kpt, root, panicked>>

\* map(as, va, pa, MMAP_NONE)
unmap(s) ==
  \E v \in ClientPage \cap UserPage :
    /\ ~panicked /\ root[s] # NULL
    /\ HasFree(Needs(s, v))
    /\ "P" \in Leaf(Walked(s, v), root[s], v).flags
    /\ table' = SetLeaf(Walked(s, v), root[s], v, Absent)
    /\ used' = used \cup NewPages(Needs(s, v))
    /\ UNCHANGED <<kpt, root, panicked>>

\* The panics of pgallocz and map: no page is left (those the walk has already
\* entered, with more than two levels, are not told apart), the address is outside
\* the user area, or, found after the walk, a mapped page is mapped or an unmapped
\* one unmapped: one of the two calls fails for every page.
vme_panic(s) ==
  /\ ~panicked
  /\ panicked' = TRUE
  /\ \/ /\ kpt # NULL /\ root[s] = NULL /\ ~HasFree(1)
        /\ UNCHANGED <<table, used>>
     \/ /\ root[s] # NULL
        /\ \E v \in ClientPage :
             \/ v \notin UserPage /\ UNCHANGED <<table, used>>
             \/ /\ v \in UserPage /\ ~HasFree(Needs(s, v))
                /\ UNCHANGED <<table, used>>
             \/ /\ v \in UserPage /\ HasFree(Needs(s, v))
                /\ table' = Walked(s, v)
                /\ used' = used \cup NewPages(Needs(s, v))
  /\ UNCHANGED <<kpt, root>>

\* A plausible bug: entries of the kernel are torn down too.
teardown_All(m, r) ==
  LET torn[k \in 1 .. Levels] ==
        IF k = 1 THEN {r}
        ELSE UNION {{m[p][i].to : i \in {j \in Index : "P" \in m[p][j].flags}} : p \in torn[k - 1]}
  IN  UNION {torn[k] : k \in 1 .. Levels}

\* The tables of level k below r that teardown visits, those that user entries lead
\* to; pgfree gets them all.
Torn(m, r) ==
  LET torn[k \in 1 .. Levels] ==
        IF k = 1 THEN {r}
        ELSE UNION {{m[p][i].to : i \in {j \in Index : {"P", "U"} \subseteq m[p][j].flags}} : p \in torn[k - 1]}
  IN  torn

\* A plausible bug: the last level of tables is not given back.
teardown_TooShort(m, r) == UNION {Torn(m, r)[k] : k \in 1 .. Levels - 1}

teardown(m, r) == UNION {Torn(m, r)[k] : k \in 1 .. Levels}

\* as->ptr keeps pointing to the freed table; the client calls protect again
\* before it uses the space.
unprotect(s) ==
  /\ ~panicked /\ root[s] # NULL
  /\ LET freed == teardown(table, root[s])
     IN  /\ used' = used \ freed
         /\ table' = [p \in Pool |-> IF p \in freed THEN [i \in Index |-> Leftover] ELSE table[p]]
  /\ root' = [root EXCEPT ![s] = NULL]
  /\ UNCHANGED <<kpt, panicked>>

Next == vme_init \/ \E s \in Space : protect(s) \/ map(s) \/ unmap(s) \/ unprotect(s) \/ vme_panic(s)

Spec == Init /\ [][Next]_vars

-----------------------------------------------------------------------------
(* The processor's translation of page v through the tables at r: nothing, or
   where it leads, with the rights that every level grants. *)
Translate(r, v) ==
  LET path == Path(table, r, v)
      step(k) == table[path[k]][indexof(v, k)]
  IN  IF r = NULL \/ path[Levels] = NULL \/ ~Present(table, path[Levels], indexof(v, Levels)) THEN {}
      ELSE {[to |-> step(Levels).to,
             user |-> \A k \in 1 .. Levels : "U" \in step(k).flags,
             write |-> \A k \in 1 .. Levels : "W" \in step(k).flags]}

\* All tables at or below r.
Tables(r) ==
  IF r = NULL THEN {}
  ELSE (UNION {{Path(table, r, v)[k] : k \in 1 .. Levels} : v \in Page}) \ {NULL}

Own(s) == Tables(root[s]) \ Tables(kpt)

(* In every address space each page of the kernel areas is mapped to itself,
   writable by the kernel and out of reach of user programs, whatever the client
   maps, unmaps or tears down. *)
KernelMapped ==
  \A s \in Space : root[s] # NULL =>
    \A v \in KernelPage : Translate(root[s], v) = {[to |-> v, user |-> FALSE, write |-> TRUE]}

(* The pages that pgalloc handed out and has not got back are the kernel's tables
   and those of the live address spaces, and no table belongs to two spaces:
   unprotect frees every table map allocated, each once, and never a shared one. *)
TablesAccounted ==
  ~panicked =>
    /\ used = Tables(kpt) \cup UNION {Own(s) : s \in Space}
    /\ \A s, t \in Space : s # t => Own(s) \cap Own(t) = {}

(* No operation on an address space writes or frees a table of the kernel. *)
KernelTablesFixed ==
  [][kpt # NULL => \A p \in Tables(kpt) : table'[p] = table[p] /\ p \in used']_vars

UserView(s, v) ==
  {[frame |-> t.to, write |-> t.write] : t \in {u \in Translate(root[s], v) : u.user}}

View == INSTANCE VmeSpec WITH
  active <- {s \in Space : root[s] # NULL},
  view <- [s \in Space |-> [v \in UserPage |-> UserView(s, v)]]

(* A user program sees exactly what the client mapped into its space, through
   tables that start out with the leftovers of earlier spaces: map and unmap
   change one page of one space, protect and unprotect leave it empty. *)
ImplementsView == View!Spec
=============================================================================
