----------------------------- MODULE VmeProofs -----------------------------
(***************************************************************************)
(* Proofs about Vme for any number of levels, entries, pages and spaces:   *)
(* the kernel stays mapped in every space (KernelMapped), no table is lost *)
(* or shared by two spaces (TablesAccounted), the kernel's tables are      *)
(* never touched (KernelTablesFixed), and the trees of tables implement    *)
(* the address spaces of VmeSpec (ImplementsView).                         *)
(*                                                                         *)
(* The inductive invariant says that the pages in use can be labelled with *)
(* their place: the root of their tree, their level, and the leading       *)
(* digits of the pages they map.  Every page but the roots has a parent    *)
(* and every entry leads where the labels say.  What a walk or a teardown  *)
(* visits follows from the labels by induction over the levels, for which  *)
(* a least counterexample (NatMin, Ladder) serves.                         *)
(***************************************************************************)
EXTENDS Vme, FiniteSetTheorems, TLAPS

-----------------------------------------------------------------------------
(* Induction, as the existence of a least counterexample *)

\* Every set of naturals that is not empty has a least element.
LEMMA NatMin ==
  ASSUME NEW T, T \subseteq Nat, T # {}
  PROVE  \E x \in T : \A y \in T : x <= y
<1> DEFINE R == OpToRel(<, Nat)
<1>1. IsWellFoundedOn(R, Nat)
  BY NatLessThanWellFounded
<1>2. \A x, y \in Nat : <<x, y>> \in R <=> x < y
  BY DEF OpToRel
<1> HIDE DEF R
<1>3. PICK x \in T : \A y \in T : ~ (<<y, x>> \in R)
  BY <1>1, WFMin
<1>4. ASSUME NEW y \in T PROVE x <= y
  <2>1. x \in Nat /\ y \in Nat /\ ~ (<<y, x>> \in R)
    BY <1>3
  <2>2. ~(y < x)
    BY <1>2, <2>1
  <2> QED
    BY <2>1, <2>2
<1> QED
  BY <1>4

\* A set that has a, and with each number below b the next one, has all of a..b.
LEMMA Ladder ==
  ASSUME NEW a \in Int, NEW b \in Int, NEW T, a \in T,
         \A k \in a..(b - 1) : k \in T => k + 1 \in T
  PROVE  \A k \in a..b : k \in T
<1> SUFFICES ASSUME NEW z \in a..b, z \notin T PROVE FALSE
  OBVIOUS
<1> DEFINE Bad == {n \in Nat : a + n \in a..b /\ a + n \notin T}
<1>1. Bad \subseteq Nat /\ z - a \in Bad
  BY a + (z - a) = z
<1>2. PICK n \in Bad : \A y \in Bad : n <= y
  BY <1>1, NatMin
<1>3. n \in Nat /\ n # 0 /\ a + n \in a..b /\ a + n \notin T
  BY a + 0 = a
<1>4. n - 1 \in Nat /\ n - 1 \notin Bad /\ a + (n - 1) \in a..(b - 1)
  BY <1>2, <1>3
<1>5. a + (n - 1) \in T
  BY <1>4
<1>6. a + n = a + (n - 1) + 1
  BY <1>3
<1> QED
  BY <1>3, <1>4, <1>5, <1>6

-----------------------------------------------------------------------------
(* Pages and their digits *)

\* The function that reach names exists.
LEMMA ReachExists ==
  \E f : f = [j \in 0..Levels |-> IF j = 0 THEN 1 ELSE NIndex * f[j - 1]]
<1> DEFINE Power(f, n) == f = [j \in 0..n |-> IF j = 0 THEN 1 ELSE NIndex * f[j - 1]]
           T == {n \in 0..Levels : \E f : Power(f, n)}
<1>1. Levels \in Nat
  BY MmuAssumption
<1>2. 0 \in T
  <2> DEFINE f == [j \in 0..0 |-> 1]
  <2>1. Power(f, 0)
    OBVIOUS
  <2> HIDE DEF Power, f
  <2> QED
    BY <1>1, <2>1
<1>3. ASSUME NEW n \in 0..(Levels - 1), n \in T PROVE n + 1 \in T
  <2>1. PICK f : Power(f, n)
    BY <1>3
  <2> DEFINE g == [j \in 0..(n + 1) |-> IF j = 0 THEN 1 ELSE NIndex * f[j - 1]]
  <2>2. \A j \in 0..n : g[j] = f[j]
    BY <1>1, <2>1
  <2>3. \A j \in 0..(n + 1) : j # 0 => j - 1 \in 0..n
    BY <1>1
  <2>4. Power(g, n + 1)
    BY <2>2, <2>3
  <2> HIDE DEF Power, g
  <2> QED
    BY <1>1, <2>4
<1> HIDE DEF T
<1>4. Levels \in T
  BY <1>1, <1>2, <1>3, Ladder
<1> QED
  BY <1>4 DEF T

\* What reach is: the powers of NIndex.
LEMMA ReachIs ==
  /\ reach[0] = 1
  /\ \A j \in 0..Levels : reach[j] \in Nat \ {0}
  /\ \A j \in 1..Levels : reach[j] = NIndex * reach[j - 1]
<1>1. reach = [j \in 0..Levels |-> IF j = 0 THEN 1 ELSE NIndex * reach[j - 1]]
  BY ReachExists DEF reach
<1>2. Levels \in Nat \ {0} /\ NIndex \in Nat \ {0}
  BY MmuAssumption
<1>3. reach[0] = 1
  BY <1>1, <1>2
<1>4. \A j \in 1..Levels : reach[j] = NIndex * reach[j - 1]
  BY <1>1, <1>2
<1> DEFINE T == {j \in 0..Levels : reach[j] \in Nat \ {0}}
<1>5. 0 \in T
  BY <1>2, <1>3
<1>6. ASSUME NEW j \in 0..(Levels - 1), j \in T PROVE j + 1 \in T
  <2>1. reach[j + 1] = NIndex * reach[j]
    BY <1>2, <1>4
  <2>2. PICK x \in Nat \ {0}, y \in Nat \ {0} : x = reach[j] /\ y = NIndex
    BY <1>2, <1>6
  <2>3. y * x \in Nat \ {0}
    OBVIOUS
  <2> QED
    BY <1>2, <2>1, <2>2, <2>3
<1> HIDE DEF T
<1>7. \A j \in 0..Levels : j \in T
  BY <1>2, <1>5, <1>6, Ladder
<1> QED
  BY <1>3, <1>4, <1>7 DEF T

\* The leading digits of page v, those that lead to its table of level k.
Pre(v, k) == v \div Reach(k - 1)

\* What an entry of each level spans.
LEMMA Spans ==
  /\ \A k \in 0..Levels : Reach(k) \in Nat \ {0}
  /\ \A k \in 1..Levels : Reach(k - 1) = NIndex * Reach(k)
  /\ Reach(Levels) = 1
<1>1. Levels \in Nat \ {0}
  BY MmuAssumption
<1>2. \A k \in 0..Levels : Levels - k \in 0..Levels
  BY <1>1
<1>3. \A k \in 1..Levels : /\ Levels - (k - 1) \in 1..Levels
                           /\ (Levels - (k - 1)) - 1 = Levels - k
  BY <1>1
<1>4. Levels - Levels = 0
  BY <1>1
<1> QED
  BY <1>1, <1>2, <1>3, <1>4, ReachIs DEF Reach

\* Facts about division that the digits rest on.
LEMMA DivDiv ==
  ASSUME NEW v \in Nat, NEW r \in Nat \ {0}, NEW b \in Nat \ {0}
  PROVE  /\ v \div r \in Nat
         /\ (v \div r) % b \in 0..(b - 1)
         /\ v \div r = (v \div (b * r)) * b + ((v \div r) % b)
<1>1. (v \div r) \div b = v \div (r * b)
  OBVIOUS
<1>2. r * b = b * r
  OBVIOUS
<1>3. v \div r \in Nat
  OBVIOUS
<1>4. \A y \in Nat : y = (y \div b) * b + (y % b) /\ y % b \in 0..(b - 1)
  OBVIOUS
<1> QED
  BY <1>1, <1>2, <1>3, <1>4

\* The last digit and those before it are determined by the number.
LEMMA Digit ==
  ASSUME NEW b \in Nat \ {0}, NEW x \in Nat, NEW y \in Nat,
         NEW i \in 0..(b - 1), NEW j \in 0..(b - 1), x * b + i = y * b + j
  PROVE  x = y /\ i = j
<1>1. \A q \in Nat, d \in 0..(b - 1) : (q * b + d) \div b = q
  OBVIOUS
<1>2. x = y
  BY <1>1
<1> QED
  BY <1>2

\* The digits of a page, level by level.
LEMMA Digits ==
  ASSUME NEW v \in Page
  PROVE  /\ v \in Nat /\ Pre(v, 1) = 0 /\ Pre(v, Levels + 1) = v
         /\ \A k \in 1..(Levels + 1) : Pre(v, k) \in Nat
         /\ \A k \in 1..Levels : /\ indexof(v, k) \in Index
                                 /\ Pre(v, k + 1) = Pre(v, k) * NIndex + indexof(v, k)
<1>1. Levels \in Nat \ {0} /\ NIndex \in Nat \ {0}
  BY MmuAssumption
<1>2. v \in Nat /\ v < Reach(0)
  BY <1>1, Spans DEF Page
<1>3. Pre(v, 1) = 0
  <2>1. PICK r \in Nat \ {0} : r = Reach(0)
    BY <1>1, Spans
  <2>2. v \div r = 0
    BY <1>2, <2>1
  <2> QED
    BY <2>1, <2>2 DEF Pre
<1>4. Pre(v, Levels + 1) = v
  <2>1. (Levels + 1) - 1 = Levels /\ v \div 1 = v
    BY <1>1, <1>2
  <2> QED
    BY <2>1, Spans DEF Pre
<1>5. ASSUME NEW k \in 1..(Levels + 1) PROVE Pre(v, k) \in Nat
  <2>1. k - 1 \in 0..Levels
    BY <1>1
  <2>2. PICK r \in Nat \ {0} : r = Reach(k - 1)
    BY <2>1, Spans
  <2>3. v \div r \in Nat
    BY <1>2
  <2> QED
    BY <2>2, <2>3 DEF Pre
<1>6. ASSUME NEW k \in 1..Levels
      PROVE  /\ indexof(v, k) \in Index
             /\ Pre(v, k + 1) = Pre(v, k) * NIndex + indexof(v, k)
  <2>1. PICK r \in Nat \ {0} : r = Reach(k)
    BY <1>1, Spans
  <2>2. Reach(k - 1) = NIndex * r /\ (k + 1) - 1 = k
    BY <1>1, <2>1, Spans
  <2>3. /\ (v \div r) % NIndex \in 0..(NIndex - 1)
        /\ v \div r = (v \div (NIndex * r)) * NIndex + ((v \div r) % NIndex)
    BY <1>1, <1>2, DivDiv
  <2> QED
    BY <2>1, <2>2, <2>3 DEF Pre, indexof, Index
<1> QED
  BY <1>2, <1>3, <1>4, <1>5, <1>6

-----------------------------------------------------------------------------
(* The areas *)

\* The ends of the areas are multiples of what an entry of level 1 spans.
LEMMA Bounds ==
  /\ Reach(0) \in Nat \ {0} /\ Reach(1) \in Nat \ {0}
  /\ {KernelEnd, UserStart, UserEnd, MmioStart} \subseteq 0..Reach(0)
  /\ 0 < KernelEnd /\ KernelEnd <= UserStart /\ UserStart < UserEnd /\ UserEnd <= MmioStart
  /\ \A x \in {KernelEnd, UserStart, UserEnd, MmioStart} : \E i \in Nat : x = Reach(1) * i
<1>1. Levels \in Nat \ {0} /\ NIndex \in Nat \ {0}
  BY MmuAssumption
<1>2. PICK r \in Nat \ {0} : r = Reach(1) /\ Reach(0) = NIndex * r
  BY <1>1, Spans
<1>3. PICK n \in Nat \ {0} : n = NIndex
  BY <1>1
<1>4. n * r \in Nat \ {0} /\ \A i \in 0..n : r * i \in 0..(n * r)
  OBVIOUS
<1>5. \A x \in {KernelEnd, UserStart, UserEnd, MmioStart} : \E i \in 0..n : x = r * i
  BY <1>2, <1>3, AreaAssumption
<1> QED
  BY <1>2, <1>3, <1>4, <1>5, AreaAssumption

\* A loop that does not run past the last page.
LEMMA Stretch ==
  ASSUME NEW R \in Nat \ {0}, NEW a \in Nat, NEW b \in Nat, a <= b, b <= R
  PROVE  {(a + i) % R : i \in 0..((b - a) - 1)} = a..(b - 1)
<1>1. \A x \in 0..(R - 1) : x % R = x
  OBVIOUS
<1>2. ASSUME NEW i \in 0..((b - a) - 1) PROVE (a + i) % R = a + i /\ a + i \in a..(b - 1)
  <2>1. a + i \in 0..(R - 1) /\ a + i \in a..(b - 1)
    OBVIOUS
  <2> QED
    BY <1>1, <2>1
<1>3. ASSUME NEW x \in a..(b - 1) PROVE \E i \in 0..((b - a) - 1) : x = (a + i) % R
  <2>1. x - a \in 0..((b - a) - 1) /\ a + (x - a) = x
    OBVIOUS
  <2> QED
    BY <1>2, <2>1
<1>4. ASSUME NEW x, x \in {(a + i) % R : i \in 0..((b - a) - 1)} PROVE x \in a..(b - 1)
  <2>1. PICK i \in 0..((b - a) - 1) : x = (a + i) % R
    BY <1>4
  <2>2. (a + i) % R = a + i /\ a + i \in a..(b - 1)
    BY <1>2
  <2> QED
    BY ONLY <2>1, <2>2
<1>5. ASSUME NEW x \in a..(b - 1) PROVE x \in {(a + i) % R : i \in 0..((b - a) - 1)}
  <2>1. PICK i \in 0..((b - a) - 1) : x = (a + i) % R
    BY <1>3
  <2> QED
    BY ONLY <2>1, i \in 0..((b - a) - 1)
<1> QED
  BY ONLY <1>4, <1>5

\* The pages of the areas: the loop runs from start to end, or to the last page.
LEMMA Areas ==
  /\ KernelPage = (0..(KernelEnd - 1)) \cup (MmioStart..(Reach(0) - 1))
  /\ UserPage = UserStart..(UserEnd - 1)
  /\ KernelPage \subseteq Page /\ UserPage \subseteq Page
  /\ 0 \in KernelPage
<1>1. PICK R \in Nat \ {0}, a \in Nat, b \in Nat, c \in Nat, d \in Nat :
        /\ R = Reach(0) /\ a = KernelEnd /\ b = UserStart /\ c = UserEnd /\ d = MmioStart
        /\ 0 < a /\ a <= b /\ b < c /\ c <= d /\ d <= R
  <2>1. PICK R \in Nat \ {0} : R = Reach(0)
    BY Bounds
  <2>2. /\ {KernelEnd, UserStart, UserEnd, MmioStart} \subseteq 0..R
        /\ 0 < KernelEnd /\ KernelEnd <= UserStart /\ UserStart < UserEnd /\ UserEnd <= MmioStart
    BY <2>1, Bounds
  <2>3. \A x \in 0..R : x \in Nat /\ x <= R
    OBVIOUS
  <2>4. /\ KernelEnd \in Nat /\ UserStart \in Nat /\ UserEnd \in Nat /\ MmioStart \in Nat
        /\ MmioStart <= R
    BY ONLY <2>2, <2>3
  <2> QED
    BY ONLY <2>1, <2>2, <2>4, R \in Nat \ {0}
<1>2. \A x \in 0..(R - 1) : x % R = x
  OBVIOUS
<1>3. Area(0, KernelEnd) = 0..(KernelEnd - 1)
  <2>1. (a - 0) % R = a /\ a - 0 = a
    BY <1>1, <1>2
  <2>2. PICK z \in Nat : z = 0
    OBVIOUS
  <2>3. {(z + i) % R : i \in 0..((a - z) - 1)} = z..(a - 1)
    <3>1. z <= a /\ a <= R
      BY <1>1, <2>2
    <3> QED
      BY ONLY R \in Nat \ {0}, z \in Nat, a \in Nat, <3>1, Stretch, Zenon
  <2> QED
    BY <1>1, <2>1, <2>2, <2>3 DEF Area
<1>4. Area(UserStart, UserEnd) = UserStart..(UserEnd - 1)
  <2>1. (c - b) % R = c - b
    BY <1>1, <1>2
  <2>2. b <= c /\ c <= R
    BY <1>1
  <2>3. {(b + i) % R : i \in 0..((c - b) - 1)} = b..(c - 1)
    BY ONLY <2>2, R \in Nat \ {0}, b \in Nat, c \in Nat, Stretch, Zenon
  <2> QED
    BY <1>1, <2>1, <2>3 DEF Area
<1>5. Area(MmioStart, 0) = MmioStart..(Reach(0) - 1)
  <2>1. (0 - d) % R = R - d
    <3>1. CASE d = R
      BY <3>1
    <3>2. CASE d < R
      <4>1. 0 - d = (0 - 1) * R + (R - d) /\ R - d \in 0..(R - 1)
        BY <1>1, <3>2
      <4>2. \A x \in 0..(R - 1) : ((0 - 1) * R + x) % R = x
        OBVIOUS
      <4> QED
        BY <4>1, <4>2
    <3> QED
      BY <1>1, <3>1, <3>2
  <2>2. d <= R /\ R <= R /\ R \in Nat
    BY <1>1
  <2>3. {(d + i) % R : i \in 0..((R - d) - 1)} = d..(R - 1)
    BY ONLY <2>2, R \in Nat \ {0}, d \in Nat, Stretch, Zenon
  <2> QED
    BY <1>1, <2>1, <2>3 DEF Area
<1>6. (0..(a - 1)) \cup (d..(R - 1)) \subseteq 0..(R - 1) /\ b..(c - 1) \subseteq 0..(R - 1)
  BY <1>1
<1>7. 0 \in 0..(a - 1)
  BY <1>1
<1> QED
  BY <1>1, <1>3, <1>4, <1>5, <1>6, <1>7 DEF KernelPage, UserPage, Page

\* A table below the root leads to pages of the kernel or of the user, not to both.
LEMMA Apart ==
  ASSUME NEW u \in UserPage, NEW v \in KernelPage, NEW k \in 2..(Levels + 1)
  PROVE  Pre(u, k) # Pre(v, k)
<1> DEFINE T == {j \in 2..(Levels + 1) : Pre(u, j) # Pre(v, j)}
<1>1. Levels \in Nat \ {0} /\ NIndex \in Nat \ {0} /\ u \in Page /\ v \in Page
  BY MmuAssumption, Areas
<1>2. 2 \in T
  <2>1. PICK r \in Nat \ {0} : r = Reach(1)
    BY Bounds
  <2>2. PICK a \in Nat, b \in Nat, c \in Nat, d \in Nat :
          /\ KernelEnd = r * a /\ UserStart = r * b /\ UserEnd = r * c /\ MmioStart = r * d
          /\ r * a <= r * b /\ r * c <= r * d
    BY <2>1, Bounds
  <2>3. PICK x \in Nat, y \in Nat :
          /\ x = u /\ y = v /\ r * b <= x /\ x < r * c /\ (y < r * a \/ r * d <= y)
    <3>1. /\ u \in UserStart..(UserEnd - 1)
          /\ v \in 0..(KernelEnd - 1) \/ v \in MmioStart..(Reach(0) - 1)
      BY ONLY Areas, u \in UserPage, v \in KernelPage
    <3>2. PICK e \in Nat : e = Reach(0)
      BY Bounds
    <3>3. /\ u \in (r * b)..(r * c - 1)
          /\ v \in 0..(r * a - 1) \/ v \in (r * d)..(e - 1)
      BY <2>2, <3>1, <3>2
    <3>4. PICK f \in Nat, g \in Nat, h \in Nat, l \in Nat :
            f = r * a /\ g = r * b /\ h = r * c /\ l = r * d
      OBVIOUS
    <3>5. u \in g..(h - 1) /\ (v \in 0..(f - 1) \/ v \in l..(e - 1))
      BY ONLY <3>3, <3>4
    <3>6. u \in Nat /\ v \in Nat /\ g <= u /\ u < h /\ (v < f \/ l <= v)
      BY ONLY <3>5, e \in Nat, f \in Nat, g \in Nat, h \in Nat, l \in Nat
    <3> QED
      BY ONLY <3>4, <3>6
  <2>4. x \div r # y \div r
    <3>1. b <= x \div r /\ x \div r < c
      BY <2>3
    <3>2. y < r * a => y \div r < a
      OBVIOUS
    <3>3. r * d <= y => d <= y \div r
      OBVIOUS
    <3>4. a <= b /\ c <= d
      BY <2>2
    <3>5. x \div r \in Nat /\ y \div r \in Nat
      OBVIOUS
    <3> QED
      BY <2>3, <3>1, <3>2, <3>3, <3>4, <3>5
  <2> QED
    BY <1>1, <2>1, <2>3, <2>4 DEF Pre
<1>3. ASSUME NEW j \in 2..((Levels + 1) - 1), j \in T PROVE j + 1 \in T
  <2>1. j \in 1..Levels /\ j + 1 \in 2..(Levels + 1)
    BY <1>1
  <2>2. /\ Pre(u, j) \in Nat /\ indexof(u, j) \in 0..(NIndex - 1)
        /\ Pre(u, j + 1) = Pre(u, j) * NIndex + indexof(u, j)
        /\ Pre(v, j) \in Nat /\ indexof(v, j) \in 0..(NIndex - 1)
        /\ Pre(v, j + 1) = Pre(v, j) * NIndex + indexof(v, j)
    BY <1>1, <2>1, Digits DEF Index
  <2>3. Pre(u, j + 1) = Pre(v, j + 1) => Pre(u, j) = Pre(v, j)
    <3>1. PICK n \in Nat \ {0}, x \in Nat, y \in Nat : n = NIndex /\ x = Pre(u, j) /\ y = Pre(v, j)
      BY <1>1, <2>2
    <3>2. PICK d \in 0..(n - 1), e \in 0..(n - 1) : d = indexof(u, j) /\ e = indexof(v, j)
      BY <2>2, <3>1
    <3>3. Pre(u, j + 1) = x * n + d /\ Pre(v, j + 1) = y * n + e
      BY <2>2, <3>1, <3>2
    <3>4. x * n + d = y * n + e => x = y
      BY ONLY n \in Nat \ {0}, x \in Nat, y \in Nat, d \in 0..(n - 1), e \in 0..(n - 1), Digit
    <3> QED
      BY ONLY <3>1, <3>3, <3>4
  <2> QED
    BY <1>3, <2>1, <2>3
<1> HIDE DEF T
<1>4. \A j \in 2..(Levels + 1) : j \in T
  BY <1>1, <1>2, <1>3, Ladder
<1> QED
  BY <1>4 DEF T

-----------------------------------------------------------------------------
(* The pages that pgallocz returns *)

\* A finite set of naturals has an element with any given number of others below it.
LEMMA Ranked ==
  ASSUME NEW F, F \subseteq Nat, IsFiniteSet(F), NEW i \in 1..Cardinality(F)
  PROVE  \E p \in F : Cardinality({q \in F : q < p}) = i - 1
<1> DEFINE Below(p) == {q \in F : q < p}
           T == {j \in 1..Cardinality(F) : \E p \in F : Cardinality(Below(p)) = j - 1}
<1>1. Cardinality(F) \in Nat
  BY FS_CardinalityType
<1>2. \A p : IsFiniteSet(Below(p)) /\ Cardinality(Below(p)) \in Nat
  <2> SUFFICES ASSUME NEW p PROVE IsFiniteSet(Below(p)) /\ Cardinality(Below(p)) \in Nat
    OBVIOUS
  <2>1. Below(p) \in SUBSET F
    OBVIOUS
  <2>2. IsFiniteSet(Below(p))
    BY <2>1, FS_Subset
  <2> QED
    BY <2>2, FS_CardinalityType
<1>3. 1 \in T
  <2>1. F # {}
    BY <1>1, FS_EmptySet
  <2>2. PICK p \in F : \A q \in F : p <= q
    BY <2>1, NatMin
  <2>3. \A q \in F : ~(q < p)
    <3> SUFFICES ASSUME NEW q \in F PROVE ~(q < p)
      OBVIOUS
    <3>1. p \in Nat /\ q \in Nat /\ p <= q
      BY <2>2
    <3> QED
      BY <3>1
  <2>4. Cardinality(Below(p)) = 0 /\ 0 = 1 - 1
    <3>1. Below(p) = {}
      BY <2>3
    <3> QED
      BY <3>1, FS_EmptySet
  <2> QED
    BY <1>1, <2>4
<1>4. ASSUME NEW j \in 1..(Cardinality(F) - 1), j \in T PROVE j + 1 \in T
  <2>1. PICK p \in F : Cardinality(Below(p)) = j - 1
    BY <1>4
  <2> DEFINE Upto == Below(p) \cup {p}
             G == {q \in F : q > p}
  <2>2. \A q \in F : q \in Nat
    OBVIOUS
  <2>3. IsFiniteSet(Upto) /\ Cardinality(Upto) = j
    <3>1. p \notin Below(p)
      BY <2>2
    <3> HIDE DEF Below
    <3>2. Cardinality(Below(p) \cup {p}) = Cardinality(Below(p)) + 1 /\ IsFiniteSet(Below(p) \cup {p})
      BY <1>2, <3>1, FS_AddElement
    <3>3. j - 1 + 1 = j
      BY <1>1
    <3> QED
      BY <2>1, <3>2, <3>3
  <2>4. G # {}
    <3>1. ASSUME G = {} PROVE FALSE
      <4>1. \A q \in F : q < p \/ q = p
        BY <2>2, <3>1
      <4>2. F = Upto
        BY <4>1
      <4> QED
        BY <1>1, <2>3, <4>2
    <3> QED
      BY <3>1
  <2>5. PICK g \in G : \A q \in G : g <= q
    BY <2>4, NatMin
  <2>6. \A q \in F : q < g <=> q < p \/ q = p
    BY <2>2, <2>5
  <2>7. Below(g) = Upto
    BY <2>6
  <2>8. g \in F /\ Cardinality(Below(g)) = (j + 1) - 1
    BY <1>1, <2>3, <2>7
  <2>9. j + 1 \in 1..Cardinality(F)
    BY <1>1
  <2> HIDE DEF Below, G
  <2> QED
    BY <2>8, <2>9
<1> HIDE DEF T
<1>5. i \in T
  BY <1>1, <1>3, <1>4, Ladder
<1> QED
  BY <1>5 DEF T

\* As long as there are free pages, pgallocz returns another one each time.
LEMMA NewPageIs ==
  ASSUME used \subseteq Pool, NEW i \in Nat \ {0}, HasFree(i)
  PROVE  /\ NewPage(i) \in Pool \ used
         /\ Cardinality({q \in Pool \ used : q < NewPage(i)}) = i - 1
<1> DEFINE F == Pool \ used
<1>1. F \subseteq Nat /\ IsFiniteSet(F)
  BY AreaAssumption, FS_Difference
<1>2. Cardinality(F) \in Nat
  BY <1>1, FS_CardinalityType
<1>3. i \in 1..Cardinality(F)
  BY <1>2 DEF HasFree
<1>4. \E p \in F : Cardinality({q \in F : q < p}) = i - 1
  BY <1>1, <1>3, Ranked
<1> QED
  BY <1>4 DEF NewPage

\* No page is returned twice.
LEMMA NewPagesDiffer ==
  ASSUME used \subseteq Pool, NEW i \in Nat \ {0}, NEW j \in Nat \ {0},
         HasFree(i), HasFree(j), NewPage(i) = NewPage(j)
  PROVE  i = j
<1>1. i - 1 = j - 1
  BY NewPageIs
<1> QED
  BY <1>1

\* Free pages for n tables are free pages for fewer.
LEMMA FreeFewer ==
  ASSUME used \subseteq Pool, NEW n \in Nat, HasFree(n), NEW i \in 1..n
  PROVE  i \in Nat \ {0} /\ HasFree(i)
<1>1. IsFiniteSet(Pool \ used)
  BY AreaAssumption, FS_Difference
<1>2. Cardinality(Pool \ used) \in Nat
  BY <1>1, FS_CardinalityType
<1> QED
  BY <1>2 DEF HasFree

-----------------------------------------------------------------------------
(* Walks *)

\* f is the walk from r to v.
IsPath(f, m, r, v) ==
  f = [k \in 1..Levels |->
         IF k = 1 THEN r
         ELSE IF f[k - 1] = NULL \/ ~Present(m, f[k - 1], indexof(v, k - 1)) THEN NULL
         ELSE m[f[k - 1]][indexof(v, k - 1)].to]

\* The function that a walk names exists.
LEMMA PathExists == ASSUME NEW m, NEW r, NEW v PROVE \E f : IsPath(f, m, r, v)
<1> DEFINE Next1(p, k) == IF p = NULL \/ ~Present(m, p, indexof(v, k - 1)) THEN NULL
                          ELSE m[p][indexof(v, k - 1)].to
           Walk(f, n) == f = [k \in 1..n |-> IF k = 1 THEN r ELSE Next1(f[k - 1], k)]
           T == {n \in 1..Levels : \E f : Walk(f, n)}
<1>1. Levels \in Nat \ {0}
  BY MmuAssumption
<1> HIDE DEF Next1
<1>2. 1 \in T
  <2> DEFINE f == [k \in 1..1 |-> r]
  <2>1. Walk(f, 1)
    OBVIOUS
  <2> HIDE DEF Walk, f
  <2> QED
    BY <1>1, <2>1
<1>3. ASSUME NEW n \in 1..(Levels - 1), n \in T PROVE n + 1 \in T
  <2>1. PICK f : Walk(f, n)
    BY <1>3
  <2> DEFINE g == [k \in 1..(n + 1) |-> IF k = 1 THEN r ELSE Next1(f[k - 1], k)]
  <2>2. \A k \in 1..n : g[k] = f[k]
    BY <1>1, <2>1
  <2>3. \A k \in 1..(n + 1) : k # 1 => k - 1 \in 1..n
    BY <1>1
  <2>4. Walk(g, n + 1)
    BY <2>2, <2>3
  <2> HIDE DEF Walk, g
  <2> QED
    BY <1>1, <2>4
<1> HIDE DEF T
<1>4. Levels \in T
  BY <1>1, <1>2, <1>3, Ladder
<1> QED
  BY <1>4, Zenon DEF T, Walk, Next1, IsPath

\* A walk starts at r and takes one entry at a time, as long as there is one.
LEMMA PathIs ==
  ASSUME NEW m, NEW r, NEW v
  PROVE  /\ DOMAIN Path(m, r, v) = 1..Levels
         /\ Path(m, r, v)[1] = r
         /\ \A k \in 1..(Levels - 1) :
              Path(m, r, v)[k + 1] =
                IF Path(m, r, v)[k] = NULL \/ ~Present(m, Path(m, r, v)[k], indexof(v, k)) THEN NULL
                ELSE m[Path(m, r, v)[k]][indexof(v, k)].to
<1> DEFINE P == Path(m, r, v)
<1>1. Levels \in Nat \ {0}
  BY MmuAssumption
<1>2. P = [k \in 1..Levels |->
             IF k = 1 THEN r
             ELSE IF P[k - 1] = NULL \/ ~Present(m, P[k - 1], indexof(v, k - 1)) THEN NULL
             ELSE m[P[k - 1]][indexof(v, k - 1)].to]
  <2>1. P = CHOOSE f : IsPath(f, m, r, v)
    BY Zenon DEF Path, IsPath
  <2>2. \E f : IsPath(f, m, r, v)
    BY PathExists
  <2>3. IsPath(P, m, r, v)
    <3> HIDE DEF P
    <3> QED
      BY <2>1, <2>2
  <2> QED
    BY <2>3, Zenon DEF IsPath
<1> HIDE DEF P
<1>3. DOMAIN P = 1..Levels /\ P[1] = r
  BY <1>1, <1>2
<1>4. \A k \in 1..(Levels - 1) : k + 1 \in 1..Levels /\ k + 1 # 1 /\ (k + 1) - 1 = k
  BY <1>1
<1>5. ASSUME NEW k \in 1..(Levels - 1)
      PROVE  P[k + 1] = IF P[k] = NULL \/ ~Present(m, P[k], indexof(v, k)) THEN NULL
                        ELSE m[P[k]][indexof(v, k)].to
  <2>1. k + 1 \in 1..Levels /\ k + 1 # 1 /\ (k + 1) - 1 = k
    BY <1>4
  <2>2. P[k + 1] = IF P[(k + 1) - 1] = NULL \/ ~Present(m, P[(k + 1) - 1], indexof(v, (k + 1) - 1)) THEN NULL
                   ELSE m[P[(k + 1) - 1]][indexof(v, (k + 1) - 1)].to
    BY <1>2, <2>1
  <2> QED
    BY <2>1, <2>2
<1> QED
  BY <1>3, <1>5 DEF P

\* f is what teardown visits, level by level.
IsTorn(f, m, r) ==
  f = [k \in 1..Levels |->
         IF k = 1 THEN {r}
         ELSE UNION {{m[p][i].to : i \in {j \in Index : {"P", "U"} \subseteq m[p][j].flags}} :
                       p \in f[k - 1]}]

\* The function that teardown names exists.
LEMMA TornExists == ASSUME NEW m, NEW r PROVE \E f : IsTorn(f, m, r)
<1> DEFINE Below(S) == UNION {{m[p][i].to : i \in {j \in Index : {"P", "U"} \subseteq m[p][j].flags}} : p \in S}
           Fall(f, n) == f = [k \in 1..n |-> IF k = 1 THEN {r} ELSE Below(f[k - 1])]
           T == {n \in 1..Levels : \E f : Fall(f, n)}
<1>1. Levels \in Nat \ {0}
  BY MmuAssumption
<1> HIDE DEF Below
<1>2. 1 \in T
  <2> DEFINE f == [k \in 1..1 |-> {r}]
  <2>1. Fall(f, 1)
    OBVIOUS
  <2> HIDE DEF Fall, f
  <2> QED
    BY <1>1, <2>1
<1>3. ASSUME NEW n \in 1..(Levels - 1), n \in T PROVE n + 1 \in T
  <2>1. PICK f : Fall(f, n)
    BY <1>3
  <2> DEFINE g == [k \in 1..(n + 1) |-> IF k = 1 THEN {r} ELSE Below(f[k - 1])]
  <2>2. ASSUME NEW k \in 1..n PROVE g[k] = f[k]
    <3>1. k \in 1..(n + 1)
      BY <1>1
    <3>2. g[k] = IF k = 1 THEN {r} ELSE Below(f[k - 1])
      BY <3>1
    <3>3. f[k] = IF k = 1 THEN {r} ELSE Below(f[k - 1])
      BY <2>1
    <3> QED
      BY <3>2, <3>3, Zenon
  <2>3. \A k \in 1..(n + 1) : k # 1 => k - 1 \in 1..n
    BY <1>1
  <2>4. Fall(g, n + 1)
    BY <2>2, <2>3
  <2> HIDE DEF Fall, g
  <2> QED
    BY <1>1, <2>4
<1> HIDE DEF T
<1>4. Levels \in T
  BY <1>1, <1>2, <1>3, Ladder
<1> QED
  BY <1>4, Zenon DEF T, Fall, Below, IsTorn

\* teardown visits r, and from each table those that its user entries lead to.
LEMMA TornIs ==
  ASSUME NEW m, NEW r
  PROVE  /\ Torn(m, r)[1] = {r}
         /\ \A k \in 1..(Levels - 1) : \A q :
              q \in Torn(m, r)[k + 1] <=>
                \E p \in Torn(m, r)[k] : \E i \in Index : {"P", "U"} \subseteq m[p][i].flags /\ q = m[p][i].to
<1> DEFINE F == Torn(m, r)
           Below(S) == UNION {{m[p][i].to : i \in {j \in Index : {"P", "U"} \subseteq m[p][j].flags}} : p \in S}
<1>1. Levels \in Nat \ {0}
  BY MmuAssumption
<1>2. F = [k \in 1..Levels |-> IF k = 1 THEN {r} ELSE Below(F[k - 1])]
  <2>1. F = CHOOSE f : IsTorn(f, m, r)
    BY Zenon DEF Torn, IsTorn
  <2>2. \E f : IsTorn(f, m, r)
    BY TornExists
  <2>3. IsTorn(F, m, r)
    <3> HIDE DEF F
    <3> QED
      BY <2>1, <2>2
  <2> QED
    BY <2>3, Zenon DEF IsTorn
<1> HIDE DEF F
<1>3. \A S : \A q : q \in Below(S) <=>
        \E p \in S : \E i \in Index : {"P", "U"} \subseteq m[p][i].flags /\ q = m[p][i].to
  OBVIOUS
<1> HIDE DEF Below
<1>4. F[1] = {r}
  BY <1>1, <1>2
<1>5. ASSUME NEW k \in 1..(Levels - 1) PROVE F[k + 1] = Below(F[k])
  <2>1. k + 1 \in 1..Levels /\ k + 1 # 1 /\ (k + 1) - 1 = k
    BY <1>1
  <2>2. F[k + 1] = Below(F[(k + 1) - 1])
    BY <1>2, <2>1
  <2> QED
    BY <2>1, <2>2
<1> QED
  BY <1>3, <1>4, <1>5 DEF F

-----------------------------------------------------------------------------
(***************************************************************************)
(* The invariant.  A label <<r, k, x>> says of a page that it is the table *)
(* of level k for the pages with leading digits x in the tree at r.  The   *)
(* tables that spaces share with the kernel are labelled as the kernel's.  *)
(***************************************************************************)

\* The leading digits of the kernel's and the user's pages.
KT(k) == {Pre(v, k) : v \in KernelPage}
UT(k) == {Pre(v, k) : v \in UserPage}

\* Entry e of a table of level k at r is for the pages with leading digits y: one
\* of the kernel's, none, or one of the user's.
EntryOK(e, U, t, kr, r, k, y) ==
  \/ /\ y \in KT(k + 1) /\ e.flags = {"P", "W"}
     /\ IF k = Levels THEN e.to = y ELSE e.to \in U /\ t[e.to] = <<kr, k + 1, y>>
  \/ y \notin KT(k + 1) /\ "P" \notin e.flags
  \/ /\ y \notin KT(k + 1) /\ r # kr /\ {"P", "U"} \subseteq e.flags
     /\ IF k = Levels THEN y \in UserPage
        ELSE "W" \in e.flags /\ e.to \in U /\ t[e.to] = <<r, k + 1, y>>

Entries(m, U, t, kr) ==
  \A p \in U, i \in Index, k \in 1..Levels, x \in Nat : \A r :
    t[p] = <<r, k, x>> => EntryOK(m[p][i], U, t, kr, r, k, x * NIndex + i)

\* Page p is what a present entry leads to, that for digits x in the tree at r.
HasParent(m, U, t, p, r, k, x) ==
  \E q \in U, i \in Index, y \in Nat :
    /\ t[q] = <<r, k, y>> /\ x = y * NIndex + i
    /\ m[q][i].to = p /\ "P" \in m[q][i].flags

\* Every table below a root is what an entry of its parent leads to.
Parents(m, U, t) ==
  \A p \in U, k \in 1..(Levels - 1) : \A r, x :
    t[p] = <<r, k + 1, x>> => HasParent(m, U, t, p, r, k, x)

\* The labels t of the pages U in use: a tree at kr for the kernel, and one for
\* each root in R.
Labels(U, t, kr, R) ==
  /\ U \subseteq Pool /\ kr \in U /\ R \subseteq U \ {kr}
  /\ \A p \in U : \E r \in R \cup {kr}, k \in 1..Levels, x \in Nat :
       t[p] = <<r, k, x>> /\ x \in (IF r = kr THEN KT(k) ELSE UT(k))
  /\ \A p, q \in U : t[p] = t[q] => p = q
  /\ \A r \in R \cup {kr} : t[r] = <<r, 1, 0>>
  /\ \A k \in 1..Levels : \A x \in KT(k) : \E p \in U : t[p] = <<kr, k, x>>

Memory(m) == m \in [Pool -> [Index -> Entry]]

Tree(m, U, t, kr, R) ==
  /\ Memory(m)
  /\ Labels(U, t, kr, R) /\ Parents(m, U, t) /\ Entries(m, U, t, kr)

\* Leading digits lead to the kernel or the user only if shorter ones do.
LEMMA Shorter ==
  ASSUME NEW k \in 1..Levels, NEW x \in Nat, NEW i \in Index
  PROVE  /\ x * NIndex + i \in KT(k + 1) => x \in KT(k)
         /\ x * NIndex + i \in UT(k + 1) => x \in UT(k)
<1>1. NIndex \in Nat \ {0} /\ Levels \in Nat \ {0}
  BY MmuAssumption
<1>2. ASSUME NEW v \in Page, x * NIndex + i = Pre(v, k + 1) PROVE x = Pre(v, k)
  <2>1. /\ Pre(v, k) \in Nat /\ indexof(v, k) \in Index
        /\ Pre(v, k + 1) = Pre(v, k) * NIndex + indexof(v, k)
    BY <1>1, Digits
  <2> QED
    <3>1. PICK b \in Nat \ {0}, y \in Nat : b = NIndex /\ y = Pre(v, k)
      BY <1>1, <2>1
    <3>2. PICK j \in 0..(b - 1) : j = indexof(v, k)
      BY <2>1, <3>1 DEF Index
    <3>3. i \in 0..(b - 1) /\ x * b + i = y * b + j
      BY <1>2, <2>1, <3>1, <3>2 DEF Index
    <3>4. x = y
      BY ONLY <3>3, b \in Nat \ {0}, x \in Nat, y \in Nat, j \in 0..(b - 1), Digit
    <3> QED
      BY <3>1, <3>4
<1> QED
  BY <1>2, Areas DEF KT, UT

\* Below the root the two do not meet, and at the root they do.
LEMMA Split ==
  /\ \A k \in 2..(Levels + 1) : KT(k) \cap UT(k) = {}
  /\ KT(1) = {0} /\ UT(1) = {0}
  /\ KT(Levels + 1) = KernelPage /\ UT(Levels + 1) = UserPage
<1>1. ASSUME NEW k \in 2..(Levels + 1) PROVE KT(k) \cap UT(k) = {}
  BY Apart DEF KT, UT
<1>2. \A v \in KernelPage \cup UserPage : Pre(v, 1) = 0 /\ Pre(v, Levels + 1) = v
  BY Areas, Digits
<1>3. KernelPage # {} /\ UserPage # {}
  <2>1. UserStart \in UserPage
    <3>1. PICK R \in Nat : R = Reach(0)
      BY Bounds
    <3>2. UserStart \in 0..R /\ UserEnd \in 0..R /\ UserStart < UserEnd
      BY <3>1, Bounds
    <3>3. UserStart \in UserStart..(UserEnd - 1)
      BY ONLY <3>2, R \in Nat
    <3> QED
      BY <3>3, Areas
  <2> QED
    BY <2>1, Areas
<1>4. KT(1) = {0} /\ UT(1) = {0}
  BY <1>2, <1>3 DEF KT, UT
<1>5. KT(Levels + 1) = KernelPage /\ UT(Levels + 1) = UserPage
  BY <1>2 DEF KT, UT
<1> QED
  BY <1>1, <1>4, <1>5

\* What a walk from r finds at level k for leading digits y: nothing, if there is
\* no such table, one of its own, or below the root one of the kernel's.
Reached(q, U, t, kr, r, k, y) ==
  \/ q = NULL /\ y \notin KT(k) /\ \A p \in U : t[p] # <<r, k, y>>
  \/ q \in U /\ t[q] = <<r, k, y>>
  \/ q \in U /\ k # 1 /\ t[q] = <<kr, k, y>>

\* The entry that a walk finds, and the table it leads to.
LEMMA Down ==
  ASSUME NEW m, NEW U, NEW t, NEW kr, NEW R, Tree(m, U, t, kr, R),
         NEW r \in R \cup {kr}, NEW k \in 1..(Levels - 1), NEW y \in Nat, NEW i \in Index,
         NEW q, Reached(q, U, t, kr, r, k, y)
  PROVE  Reached(IF q = NULL \/ ~Present(m, q, i) THEN NULL ELSE m[q][i].to,
                 U, t, kr, r, k + 1, y * NIndex + i)
<1> DEFINE z == y * NIndex + i
<1>1. NIndex \in Nat \ {0} /\ Levels \in Nat \ {0} /\ NULL \notin U /\ i \in 0..(NIndex - 1)
  BY MmuAssumption, AreaAssumption DEF Tree, Labels, NULL, Index
<1>2. k \in 1..Levels /\ k # Levels /\ k + 1 # 1 /\ k + 1 \in 2..Levels
  BY <1>1
<1>3. \A p \in U : t[p] = <<r, k + 1, z>> =>
        \E p2 \in U : t[p2] = <<r, k, y>> /\ m[p2][i].to = p /\ "P" \in m[p2][i].flags
  <2> SUFFICES ASSUME NEW p \in U, t[p] = <<r, k + 1, z>>
               PROVE  \E p2 \in U : t[p2] = <<r, k, y>> /\ m[p2][i].to = p /\ "P" \in m[p2][i].flags
    OBVIOUS
  <2> HIDE DEF z
  <2>1. PICK p2 \in U, j \in Index, x \in Nat :
          /\ t[p2] = <<r, k, x>> /\ z = x * NIndex + j
          /\ m[p2][j].to = p /\ "P" \in m[p2][j].flags
    <3>1. Parents(m, U, t)
      BY DEF Tree
    <3>2. z \in Nat
      BY <1>1 DEF z
    <3>3. HasParent(m, U, t, p, r, k, z)
      BY <3>1 DEF Parents
    <3> QED
      BY <3>3 DEF HasParent
  <2>2. x = y /\ j = i
    BY <1>1, <2>1, Digit DEF z, Index
  <2> QED
    BY <2>1, <2>2
<1>4. CASE q = NULL
  <2>1. z \notin KT(k + 1)
    BY <1>1, <1>2, <1>4, Shorter DEF Reached
  <2>2. \A p \in U : t[p] # <<r, k + 1, z>>
    BY <1>1, <1>3, <1>4 DEF Reached
  <2> HIDE DEF z
  <2> QED
    BY <1>4, <2>1, <2>2 DEF Reached, z
<1>5. CASE q \in U
  <2>1. PICK o : t[q] = <<o, k, y>> /\ (o = r \/ (o = kr /\ k # 1))
    BY <1>1, <1>5 DEF Reached
  <2>2. EntryOK(m[q][i], U, t, kr, o, k, z)
    BY <1>2, <1>5, <2>1 DEF Tree, Entries
  <2> HIDE DEF z
  <2>3. CASE z \in KT(k + 1)
    <3>1. "P" \in m[q][i].flags /\ m[q][i].to \in U /\ t[m[q][i].to] = <<kr, k + 1, z>>
      BY <1>2, <2>2, <2>3 DEF EntryOK
    <3> QED
      BY <1>1, <1>2, <1>5, <3>1 DEF Reached, Present, z
  <2>4. CASE z \notin KT(k + 1) /\ "P" \notin m[q][i].flags
    <3>1. ASSUME NEW p \in U, t[p] = <<r, k + 1, z>> PROVE FALSE
      <4>1. PICK p2 \in U : t[p2] = <<r, k, y>> /\ "P" \in m[p2][i].flags
        BY <1>3, <3>1 DEF z
      <4>2. CASE o = r
        <5>1. t[p2] = t[q]
          BY <2>1, <4>1, <4>2
        <5>2. p2 = q
          BY <1>5, <5>1 DEF Tree, Labels
        <5> QED
          BY <2>4, <4>1, <5>2
      <4>3. CASE o = kr /\ k # 1 /\ r # kr
        <5>1. y \in UT(k)
          BY <4>1, <4>3 DEF Tree, Labels
        <5>2. y \in KT(k)
          BY <1>5, <2>1, <4>3 DEF Tree, Labels
        <5>3. k \in 2..(Levels + 1)
          BY <1>1, <4>3
        <5> QED
          BY <5>1, <5>2, <5>3, Split
      <4> QED
        BY <2>1, <4>2, <4>3
    <3> QED
      BY <2>4, <3>1 DEF Reached, Present, z
  <2>5. CASE z \notin KT(k + 1) /\ "P" \in m[q][i].flags
    <3>1. o # kr /\ m[q][i].to \in U /\ t[m[q][i].to] = <<o, k + 1, z>>
      BY <1>2, <2>2, <2>5 DEF EntryOK
    <3> QED
      BY <1>1, <1>5, <2>1, <2>5, <3>1 DEF Reached, Present, z
  <2> QED
    BY <2>3, <2>4, <2>5
<1> QED
  BY <1>4, <1>5 DEF Reached

\* Where a walk from a root is at each level.
LEMMA OnPath ==
  ASSUME NEW m, NEW U, NEW t, NEW kr, NEW R, Tree(m, U, t, kr, R),
         NEW r \in R \cup {kr}, NEW v \in Page, NEW k \in 1..Levels
  PROVE  Reached(Path(m, r, v)[k], U, t, kr, r, k, Pre(v, k))
<1> DEFINE P == Path(m, r, v)
           T == {j \in 1..Levels : Reached(P[j], U, t, kr, r, j, Pre(v, j))}
<1>1. Levels \in Nat \ {0}
  BY MmuAssumption
<1>2. 1 \in T
  <2>1. P[1] = r /\ Pre(v, 1) = 0
    BY PathIs, Digits
  <2>2. r \in U /\ t[r] = <<r, 1, 0>>
    BY DEF Tree, Labels
  <2> HIDE DEF P
  <2> QED
    BY <1>1, <2>1, <2>2 DEF Reached
<1>3. ASSUME NEW j \in 1..(Levels - 1), j \in T PROVE j + 1 \in T
  <2>1. /\ Pre(v, j) \in Nat /\ indexof(v, j) \in Index
        /\ Pre(v, j + 1) = Pre(v, j) * NIndex + indexof(v, j)
    BY <1>1, Digits
  <2>2. P[j + 1] = IF P[j] = NULL \/ ~Present(m, P[j], indexof(v, j)) THEN NULL
                   ELSE m[P[j]][indexof(v, j)].to
    BY PathIs
  <2> HIDE DEF P
  <2>3. Reached(P[j], U, t, kr, r, j, Pre(v, j))
    BY <1>3
  <2>4. Reached(IF P[j] = NULL \/ ~Present(m, P[j], indexof(v, j)) THEN NULL
                ELSE m[P[j]][indexof(v, j)].to,
                U, t, kr, r, j + 1, Pre(v, j) * NIndex + indexof(v, j))
    BY <2>1, <2>3, Down
  <2>5. Reached(P[j + 1], U, t, kr, r, j + 1, Pre(v, j + 1))
    BY <2>1, <2>2, <2>4, Zenon
  <2> QED
    BY <1>1, <2>5
<1> HIDE DEF T
<1>4. k \in T
  BY <1>1, <1>2, <1>3, Ladder
<1> QED
  BY <1>4 DEF T

-----------------------------------------------------------------------------
(* What the labels say of the tables, the kernel's pages and the user's pages *)

\* The entries of a labelled page.
LEMMA EntryAt ==
  ASSUME NEW m, NEW U, NEW t, NEW kr, NEW R, Tree(m, U, t, kr, R),
         NEW p \in U, NEW i \in Index, NEW k \in 1..Levels, NEW x \in Nat, NEW r,
         t[p] = <<r, k, x>>
  PROVE  EntryOK(m[p][i], U, t, kr, r, k, x * NIndex + i)
<1>1. Entries(m, U, t, kr)
  BY DEF Tree
<1> QED
  BY <1>1 DEF Entries

\* The label of a page, and the digits it can have.
LEMMA LabelOf ==
  ASSUME NEW U, NEW t, NEW kr, NEW R, Labels(U, t, kr, R), NEW p \in U, NEW r, NEW k, NEW x,
         t[p] = <<r, k, x>>
  PROVE  /\ r \in R \cup {kr} /\ k \in 1..Levels /\ x \in Nat
         /\ r = kr => x \in KT(k)
         /\ r # kr => x \in UT(k)
<1>1. PICK r1 \in R \cup {kr}, k1 \in 1..Levels, x1 \in Nat :
        t[p] = <<r1, k1, x1>> /\ x1 \in (IF r1 = kr THEN KT(k1) ELSE UT(k1))
  BY DEF Labels
<1>2. r1 = r /\ k1 = k /\ x1 = x
  BY <1>1
<1> QED
  BY <1>1, <1>2

\* A walk from the kernel's root visits the tables labelled as the kernel's.
LEMMA KernelTables ==
  ASSUME NEW t, NEW R, Tree(table, used, t, kpt, R)
  PROVE  Tables(kpt) = {p \in used : \E k, x : t[p] = <<kpt, k, x>>}
<1>1. kpt \in R \cup {kpt} /\ kpt # NULL /\ NULL \notin used /\ Labels(used, t, kpt, R)
  BY AreaAssumption DEF Tree, Labels, NULL
<1>2. ASSUME NEW v \in Page, NEW k \in 1..Levels, Path(table, kpt, v)[k] # NULL
      PROVE  /\ Path(table, kpt, v)[k] \in used
             /\ t[Path(table, kpt, v)[k]] = <<kpt, k, Pre(v, k)>>
  <2>1. Reached(Path(table, kpt, v)[k], used, t, kpt, kpt, k, Pre(v, k))
    BY <1>1, OnPath
  <2> QED
    BY <1>2, <2>1 DEF Reached
<1>3. ASSUME NEW p \in used, NEW k, NEW x, t[p] = <<kpt, k, x>>
      PROVE  k \in 1..Levels /\ \E v \in Page : p = Path(table, kpt, v)[k]
  <2>1. k \in 1..Levels /\ x \in KT(k)
    BY <1>1, <1>3, LabelOf
  <2>2. PICK v \in KernelPage : x = Pre(v, k)
    BY <2>1 DEF KT
  <2>3. v \in Page
    BY Areas
  <2>4. Reached(Path(table, kpt, v)[k], used, t, kpt, kpt, k, Pre(v, k))
    BY <1>1, <2>1, <2>3, OnPath
  <2>5. Path(table, kpt, v)[k] \in used /\ t[Path(table, kpt, v)[k]] = t[p]
    BY <1>3, <2>1, <2>2, <2>4 DEF Reached
  <2>6. Path(table, kpt, v)[k] = p
    BY <1>1, <2>5 DEF Labels
  <2> QED
    BY <2>1, <2>3, <2>6
<1>4. \A p : p \in Tables(kpt) <=> p # NULL /\ \E v \in Page, k \in 1..Levels : p = Path(table, kpt, v)[k]
  BY <1>1 DEF Tables
<1>5. ASSUME NEW p \in Tables(kpt) PROVE p \in used /\ \E k, x : t[p] = <<kpt, k, x>>
  BY <1>2, <1>4
<1>6. ASSUME NEW p \in used, \E k, x : t[p] = <<kpt, k, x>> PROVE p \in Tables(kpt)
  BY <1>1, <1>3, <1>4, <1>6
<1> QED
  BY <1>5, <1>6

\* A walk from the root of a space visits the tables labelled as its own, and no
\* others but those of the kernel.
LEMMA OwnTables ==
  ASSUME NEW t, NEW R, Tree(table, used, t, kpt, R), NEW r \in R
  PROVE  Tables(r) \ Tables(kpt) = {p \in used : \E k, x : t[p] = <<r, k, x>>}
<1>1. r \in R \cup {kpt} /\ r # NULL /\ r # kpt /\ NULL \notin used /\ Labels(used, t, kpt, R)
  BY AreaAssumption DEF Tree, Labels, NULL
<1>2. ASSUME NEW v \in Page, NEW k \in 1..Levels, Path(table, r, v)[k] # NULL
      PROVE  /\ Path(table, r, v)[k] \in used
             /\ \/ t[Path(table, r, v)[k]] = <<r, k, Pre(v, k)>>
                \/ t[Path(table, r, v)[k]] = <<kpt, k, Pre(v, k)>>
  <2>1. Reached(Path(table, r, v)[k], used, t, kpt, r, k, Pre(v, k))
    BY <1>1, OnPath
  <2> QED
    BY <1>2, <2>1 DEF Reached
<1>3. ASSUME NEW p \in used, NEW k, NEW x, t[p] = <<r, k, x>>
      PROVE  k \in 1..Levels /\ \E v \in Page : p = Path(table, r, v)[k]
  <2>1. k \in 1..Levels /\ x \in UT(k)
    BY <1>1, <1>3, LabelOf
  <2>2. PICK v \in UserPage : x = Pre(v, k)
    BY <2>1 DEF UT
  <2>3. v \in Page
    BY Areas
  <2>4. Reached(Path(table, r, v)[k], used, t, kpt, r, k, Pre(v, k))
    BY <1>1, <2>1, <2>3, OnPath
  <2>5. ASSUME Path(table, r, v)[k] \in used, k # 1,
               t[Path(table, r, v)[k]] = <<kpt, k, x>>
        PROVE  FALSE
    <3>1. x \in KT(k)
      BY <1>1, <2>5, LabelOf
    <3>2. k \in 2..(Levels + 1)
      BY <2>1, <2>5, MmuAssumption
    <3> QED
      BY <2>1, <3>1, <3>2, Split
  <2>6. Path(table, r, v)[k] \in used /\ t[Path(table, r, v)[k]] = t[p]
    BY <1>3, <2>1, <2>2, <2>4, <2>5 DEF Reached
  <2>7. Path(table, r, v)[k] = p
    BY <1>1, <2>6 DEF Labels
  <2> QED
    BY <2>1, <2>3, <2>7
<1>4. Tables(kpt) = {p \in used : \E k, x : t[p] = <<kpt, k, x>>}
  BY KernelTables
<1>5. \A p : p \in Tables(r) <=> p # NULL /\ \E v \in Page, k \in 1..Levels : p = Path(table, r, v)[k]
  BY <1>1 DEF Tables
<1>6. ASSUME NEW p \in Tables(r), p \notin Tables(kpt)
      PROVE  p \in used /\ \E k, x : t[p] = <<r, k, x>>
  BY <1>2, <1>4, <1>5, <1>6
<1>7. ASSUME NEW p \in used, \E k, x : t[p] = <<r, k, x>>
      PROVE  p \in Tables(r) /\ p \notin Tables(kpt)
  BY <1>1, <1>3, <1>4, <1>5, <1>7
<1> QED
  BY <1>6, <1>7

\* A walk from a root to a page of the kernel finds every table, and in each the
\* kernel's entry.
LEMMA KernelWalk ==
  ASSUME NEW m, NEW U, NEW t, NEW kr, NEW R, Tree(m, U, t, kr, R),
         NEW r \in R \cup {kr}, NEW v \in KernelPage, NEW k \in 1..Levels
  PROVE  /\ Path(m, r, v)[k] # NULL
         /\ m[Path(m, r, v)[k]][indexof(v, k)].flags = {"P", "W"}
         /\ k = Levels => m[Path(m, r, v)[k]][indexof(v, k)].to = v
<1> DEFINE q == Path(m, r, v)[k]
<1>1. v \in Page /\ Levels \in Nat \ {0} /\ NULL \notin U
  BY Areas, MmuAssumption, AreaAssumption DEF Tree, Labels, NULL
<1>2. /\ Pre(v, k) \in Nat /\ indexof(v, k) \in Index /\ Pre(v, Levels + 1) = v
      /\ Pre(v, k + 1) = Pre(v, k) * NIndex + indexof(v, k)
  BY <1>1, Digits
<1>3. Pre(v, k) \in KT(k) /\ Pre(v, k + 1) \in KT(k + 1)
  BY DEF KT
<1>4. Reached(q, U, t, kr, r, k, Pre(v, k))
  BY <1>1, OnPath
<1> HIDE DEF q
<1>5. PICK o : q \in U /\ t[q] = <<o, k, Pre(v, k)>>
  BY <1>3, <1>4 DEF Reached
<1>6. EntryOK(m[q][indexof(v, k)], U, t, kr, o, k, Pre(v, k + 1))
  BY <1>2, <1>5, EntryAt
<1>7. /\ m[q][indexof(v, k)].flags = {"P", "W"}
      /\ k = Levels => m[q][indexof(v, k)].to = v
  BY <1>2, <1>3, <1>6 DEF EntryOK
<1> QED
  BY <1>1, <1>5, <1>7 DEF q

\* The processor finds a page of the kernel where it is, for the kernel only.
LEMMA KernelSeen ==
  ASSUME NEW t, NEW R, Tree(table, used, t, kpt, R), NEW r \in R, NEW v \in KernelPage
  PROVE  Translate(r, v) = {[to |-> v, user |-> FALSE, write |-> TRUE]}
<1> DEFINE path == Path(table, r, v)
           step(k) == table[path[k]][indexof(v, k)]
<1>1. r \in R \cup {kpt} /\ r # NULL /\ Levels \in Nat \ {0}
  BY MmuAssumption, AreaAssumption DEF Tree, Labels, NULL
<1>2. \A k \in 1..Levels : /\ path[k] # NULL /\ step(k).flags = {"P", "W"}
                           /\ k = Levels => step(k).to = v
  BY <1>1, KernelWalk
<1>3. Present(table, path[Levels], indexof(v, Levels))
  BY <1>1, <1>2 DEF Present
<1>4. Translate(r, v) = {[to |-> step(Levels).to,
                          user |-> \A k \in 1..Levels : "U" \in step(k).flags,
                          write |-> \A k \in 1..Levels : "W" \in step(k).flags]}
  <2>1. ~(r = NULL \/ path[Levels] = NULL \/ ~Present(table, path[Levels], indexof(v, Levels)))
    BY <1>1, <1>2, <1>3
  <2> QED
    BY <2>1, Zenon DEF Translate
<1> HIDE DEF path, step
<1>5. (\A k \in 1..Levels : "U" \in step(k).flags) = FALSE
  BY <1>1, <1>2
<1>6. (\A k \in 1..Levels : "W" \in step(k).flags) = TRUE
  BY <1>2
<1>7. step(Levels).to = v
  BY <1>1, <1>2
<1> QED
  BY <1>4, <1>5, <1>6, <1>7, Zenon

\* A walk from the root of a space to a page of the user finds tables of its own.
LEMMA UserPath ==
  ASSUME NEW m, NEW U, NEW t, NEW kr, NEW R, Tree(m, U, t, kr, R),
         NEW r \in R, NEW v \in UserPage, NEW k \in 1..Levels
  PROVE  \/ Path(m, r, v)[k] = NULL /\ \A p \in U : t[p] # <<r, k, Pre(v, k)>>
         \/ Path(m, r, v)[k] \in U /\ t[Path(m, r, v)[k]] = <<r, k, Pre(v, k)>>
<1> DEFINE q == Path(m, r, v)[k]
<1>1. v \in Page /\ Levels \in Nat \ {0} /\ r \in R \cup {kr} /\ Labels(U, t, kr, R)
  BY Areas, MmuAssumption DEF Tree
<1>2. Reached(q, U, t, kr, r, k, Pre(v, k))
  BY <1>1, OnPath
<1> HIDE DEF q
<1>3. ASSUME q \in U, k # 1, t[q] = <<kr, k, Pre(v, k)>> PROVE FALSE
  <2>1. Pre(v, k) \in KT(k)
    BY <1>1, <1>3, LabelOf
  <2>2. Pre(v, k) \in UT(k) /\ k \in 2..(Levels + 1)
    BY <1>1, <1>3 DEF UT
  <2> QED
    BY <2>1, <2>2, Split
<1> QED
  BY <1>2, <1>3 DEF q, Reached

\* A walk that has found no table finds none further down.
LEMMA NullStays ==
  ASSUME NEW m, NEW r, NEW v, NEW k \in 1..Levels, Path(m, r, v)[k] = NULL,
         NEW j \in k..Levels
  PROVE  Path(m, r, v)[j] = NULL
<1> DEFINE T == {n \in 1..Levels : Path(m, r, v)[n] = NULL}
<1>1. Levels \in Nat \ {0}
  BY MmuAssumption
<1>2. k \in T
  OBVIOUS
<1>3. ASSUME NEW n \in k..(Levels - 1), n \in T PROVE n + 1 \in T
  <2>1. n \in 1..(Levels - 1) /\ n + 1 \in 1..Levels
    BY <1>1
  <2>2. Path(m, r, v)[n + 1] = NULL
    BY <1>3, <2>1, PathIs
  <2> QED
    BY <2>1, <2>2
<1> HIDE DEF T
<1>4. j \in T
  BY <1>1, <1>2, <1>3, Ladder
<1> QED
  BY <1>4 DEF T

\* What the last tables of the tree at r show of page v.
Seen(m, U, t, r, v) ==
  {[frame |-> m[q][indexof(v, Levels)].to, write |-> "W" \in m[q][indexof(v, Levels)].flags] :
     q \in {p \in U : t[p] = <<r, Levels, Pre(v, Levels)>> /\ "P" \in m[p][indexof(v, Levels)].flags}}

\* On the way to a page of the user every entry is the user's and writable, the
\* last one excepted.
LEMMA UserWalk ==
  ASSUME NEW m, NEW U, NEW t, NEW kr, NEW R, Tree(m, U, t, kr, R),
         NEW r \in R, NEW v \in UserPage, Path(m, r, v)[Levels] # NULL,
         Present(m, Path(m, r, v)[Levels], indexof(v, Levels)),
         NEW k \in 1..Levels
  PROVE  /\ "U" \in m[Path(m, r, v)[k]][indexof(v, k)].flags
         /\ k # Levels => "W" \in m[Path(m, r, v)[k]][indexof(v, k)].flags
<1> DEFINE P == Path(m, r, v)
<1>1. v \in Page /\ Levels \in Nat \ {0} /\ r # kr
  BY Areas, MmuAssumption DEF Tree, Labels
<1>2. P[k] # NULL
  BY <1>1, NullStays
<1>3. P[k] \in U /\ t[P[k]] = <<r, k, Pre(v, k)>>
  BY <1>2, UserPath
<1>4. Present(m, P[k], indexof(v, k))
  <2>1. CASE k = Levels
    BY <2>1
  <2>2. CASE k # Levels
    <3>1. k \in 1..(Levels - 1) /\ k + 1 \in 1..Levels
      BY <1>1, <2>2
    <3>2. P[k + 1] # NULL
      BY <1>1, <3>1, NullStays
    <3>3. P[k + 1] = IF P[k] = NULL \/ ~Present(m, P[k], indexof(v, k)) THEN NULL
                     ELSE m[P[k]][indexof(v, k)].to
      BY <3>1, PathIs
    <3> HIDE DEF P
    <3> QED
      BY <3>2, <3>3
  <2> QED
    BY <2>1, <2>2
<1>5. /\ Pre(v, k) \in Nat /\ indexof(v, k) \in Index
      /\ Pre(v, k + 1) = Pre(v, k) * NIndex + indexof(v, k)
  BY <1>1, Digits
<1> HIDE DEF P
<1>6. EntryOK(m[P[k]][indexof(v, k)], U, t, kr, r, k, Pre(v, k + 1))
  BY <1>3, <1>5, EntryAt
<1>7. Pre(v, k + 1) \notin KT(k + 1)
  <2>1. Pre(v, k + 1) \in UT(k + 1) /\ k + 1 \in 2..(Levels + 1)
    BY <1>1 DEF UT
  <2> QED
    BY <2>1, Split
<1> QED
  BY <1>4, <1>6, <1>7 DEF P, EntryOK, Present

\* A user program sees of page v what the last tables show.
LEMMA ViewIs ==
  ASSUME NEW t, NEW R, Tree(table, used, t, kpt, R),
         NEW s, root[s] \in R, NEW v \in UserPage
  PROVE  UserView(s, v) = Seen(table, used, t, root[s], v)
<1>0. PICK r : r = root[s]
  OBVIOUS
<1> DEFINE path == Path(table, r, v)
           step(k) == table[path[k]][indexof(v, k)]
           q == path[Levels]
<1>1. r \in R /\ r # NULL /\ Levels \in Nat \ {0} /\ Levels \in 1..Levels
  BY <1>0, MmuAssumption, AreaAssumption DEF Tree, Labels, NULL
<1>2. \/ q = NULL /\ \A p \in used : t[p] # <<r, Levels, Pre(v, Levels)>>
      \/ q \in used /\ t[q] = <<r, Levels, Pre(v, Levels)>>
  BY ONLY Tree(table, used, t, kpt, R), v \in UserPage, <1>1, UserPath DEF q, path
<1>3. \A p \in used : t[p] = <<r, Levels, Pre(v, Levels)>> => p = q
  <2> HIDE DEF q
  <2> QED
    BY <1>2 DEF Tree, Labels
<1>4. CASE q = NULL \/ ~Present(table, q, indexof(v, Levels))
  <2>1. Translate(r, v) = {}
    BY <1>4, Zenon DEF Translate
  <2>2. UserView(s, v) = {}
    BY <1>0, <2>1 DEF UserView
  <2> HIDE DEF q
  <2>3. \A p \in used : ~(t[p] = <<r, Levels, Pre(v, Levels)>> /\ "P" \in table[p][indexof(v, Levels)].flags)
    <3> SUFFICES ASSUME NEW p \in used, t[p] = <<r, Levels, Pre(v, Levels)>>
                 PROVE  "P" \notin table[p][indexof(v, Levels)].flags
      OBVIOUS
    <3>1. p = q /\ q # NULL
      BY <1>2, <1>3, AreaAssumption DEF Tree, Labels, NULL
    <3> QED
      BY <1>4, <3>1 DEF Present
  <2>4. Seen(table, used, t, r, v) = {}
    BY <2>3 DEF Seen
  <2> QED
    BY <1>0, <2>2, <2>4
<1>5. CASE ~(q = NULL \/ ~Present(table, q, indexof(v, Levels)))
  <2>1. \A k \in 1..Levels : "U" \in step(k).flags /\ (k # Levels => "W" \in step(k).flags)
    BY <1>1, <1>5, UserWalk
  <2>2. Translate(r, v) = {[to |-> step(Levels).to,
                            user |-> \A k \in 1..Levels : "U" \in step(k).flags,
                            write |-> \A k \in 1..Levels : "W" \in step(k).flags]}
    <3>1. ~(r = NULL \/ path[Levels] = NULL \/ ~Present(table, path[Levels], indexof(v, Levels)))
      BY <1>1, <1>5
    <3> QED
      BY <3>1, Zenon DEF Translate
  <2>3. "P" \in table[q][indexof(v, Levels)].flags /\ step(Levels) = table[q][indexof(v, Levels)]
    BY <1>5 DEF Present
  <2> HIDE DEF step, q
  <2>4. (\A k \in 1..Levels : "U" \in step(k).flags) = TRUE
    BY <2>1
  <2>5. (\A k \in 1..Levels : "W" \in step(k).flags) <=> ("W" \in step(Levels).flags)
    BY <1>1, <2>1
  <2>6. (\A k \in 1..Levels : "W" \in step(k).flags) = ("W" \in step(Levels).flags)
    <3>1. CASE "W" \in step(Levels).flags
      <4>1. (\A k \in 1..Levels : "W" \in step(k).flags) = TRUE /\ ("W" \in step(Levels).flags) = TRUE
        BY <2>5, <3>1
      <4> QED
        BY <4>1, Zenon
    <3>2. CASE "W" \notin step(Levels).flags
      <4>1. (\A k \in 1..Levels : "W" \in step(k).flags) = FALSE /\ ("W" \in step(Levels).flags) = FALSE
        BY <2>5, <3>2
      <4> QED
        BY <4>1, Zenon
    <3> QED
      BY <3>1, <3>2, Zenon
  <2>7. PICK f, w : f = step(Levels).to /\ w = ("W" \in step(Levels).flags)
    OBVIOUS
  <2> DEFINE rec == [to |-> f, user |-> TRUE, write |-> w]
  <2>8. Translate(r, v) = {rec}
    BY <2>2, <2>4, <2>6, <2>7, Zenon
  <2>9. rec.to = f /\ rec.user = TRUE /\ rec.write = w
    OBVIOUS
  <2> HIDE DEF rec
  <2>10. {u \in Translate(r, v) : u.user} = {rec}
    BY <2>8, <2>9
  <2>11. UserView(s, v) = {[frame |-> f, write |-> w]}
    BY <1>0, <2>9, <2>10 DEF UserView
  <2>12. {p \in used : t[p] = <<r, Levels, Pre(v, Levels)>> /\ "P" \in table[p][indexof(v, Levels)].flags} = {q}
    <3>1. q \in used /\ t[q] = <<r, Levels, Pre(v, Levels)>>
      BY <1>2, <1>5
    <3> QED
      BY <1>3, <2>3, <3>1
  <2>13. Seen(table, used, t, r, v) = {[frame |-> f, write |-> w]}
    BY <2>3, <2>7, <2>12 DEF Seen
  <2> QED
    BY <1>0, <2>11, <2>13
<1> QED
  BY <1>4, <1>5

-----------------------------------------------------------------------------
(* A walk that adds tables *)

\* The levels without a table are the last ones.
LEMMA MissingIs ==
  ASSUME NEW m, NEW r, NEW v, r # NULL, Missing(m, r, v) # {}
  PROVE  \E j \in 2..Levels : Missing(m, r, v) = j..Levels
<1>1. Levels \in Nat \ {0}
  BY MmuAssumption
<1>2. PICK j \in Missing(m, r, v) : \A k \in Missing(m, r, v) : j <= k
  <2>1. Missing(m, r, v) \subseteq Nat
    BY <1>1 DEF Missing
  <2> QED
    BY <2>1, NatMin
<1>3. j \in 1..Levels /\ Path(m, r, v)[j] = NULL /\ j # 1
  BY PathIs DEF Missing
<1>4. \A k \in j..Levels : k \in 1..Levels /\ Path(m, r, v)[k] = NULL
  BY <1>1, <1>3, NullStays
<1>5. \A k \in Missing(m, r, v) : k \in 1..Levels /\ k \in j..Levels
  BY <1>1, <1>2, <1>3 DEF Missing
<1>6. Missing(m, r, v) = j..Levels
  BY <1>4, <1>5 DEF Missing
<1> QED
  BY <1>1, <1>3, <1>6

\* F is a way from r to v of which the levels in M are new.
Way(F, M, r, v, t) ==
  /\ M \subseteq 2..Levels /\ \A k \in M : k # Levels => k + 1 \in M
  /\ \A k \in 1..Levels : k \notin M => F[k] \in used /\ t[F[k]] = <<r, k, Pre(v, k)>>
  /\ \A k \in M : F[k] \in Pool \ used /\ \A p \in used : t[p] # <<r, k, Pre(v, k)>>
  /\ \A j, k \in M : F[j] = F[k] => j = k

\* The way that a walk to a page of the user makes.
LEMMA FullPathIs ==
  ASSUME NEW t, NEW R, Tree(table, used, t, kpt, R), NEW r \in R, NEW v \in UserPage,
         HasFree(Cardinality(Missing(table, r, v)))
  PROVE  /\ Way(FullPath(table, r, v), Missing(table, r, v), r, v, t)
         /\ NewPages(Cardinality(Missing(table, r, v)))
              = {FullPath(table, r, v)[k] : k \in Missing(table, r, v)}
<1> DEFINE M == Missing(table, r, v)
           F == FullPath(table, r, v)
<1>1. Levels \in Nat \ {0} /\ r # NULL /\ NULL \notin used /\ used \subseteq Pool
  BY MmuAssumption, AreaAssumption DEF Tree, Labels, NULL
<1>2. ASSUME NEW k \in 1..Levels, k \notin M
      PROVE  F[k] \in used /\ t[F[k]] = <<r, k, Pre(v, k)>>
  <2>1. F[k] = Path(table, r, v)[k]
    BY <1>2 DEF FullPath
  <2>2. Path(table, r, v)[k] # NULL
    BY <1>2 DEF Missing
  <2> QED
    BY <2>1, <2>2, UserPath
<1>3. ASSUME NEW k \in M PROVE k \in 1..Levels /\ \A p \in used : t[p] # <<r, k, Pre(v, k)>>
  <2>1. k \in 1..Levels /\ Path(table, r, v)[k] = NULL
    BY DEF Missing
  <2> QED
    BY <1>1, <2>1, UserPath
<1>4. CASE M = {}
  <2>1. Cardinality(M) = 0
    BY <1>4, FS_EmptySet
  <2>2. NewPages(0) = {}
    BY DEF NewPages
  <2> HIDE DEF M, F
  <2> QED
    BY <1>2, <1>4, <2>1, <2>2 DEF Way, M, F
<1>5. CASE M # {}
  <2>1. PICK j \in 2..Levels : M = j..Levels
    BY <1>1, <1>5, MissingIs
  <2>2. PICK n \in Nat : n = Levels - j + 1
    BY <1>1
  <2>3. Cardinality(M) = n
    BY <1>1, <2>1, <2>2, FS_Interval
  <2>4. ASSUME NEW k \in M
        PROVE  F[k] = NewPage(k - j + 1) /\ k - j + 1 \in 1..n
    <3>1. k \in 1..Levels /\ k \in j..Levels
      BY <1>3, <2>1
    <3>2. {i \in M : i <= k} = j..k
      BY <1>1, <2>1, <3>1
    <3>3. Cardinality(j..k) = k - j + 1
      BY <1>1, <3>1, FS_Interval
    <3>4. F[k] = NewPage(Cardinality({i \in M : i <= k}))
      BY <2>4, <3>1 DEF FullPath
    <3>5. k - j + 1 \in 1..n
      BY <1>1, <2>2, <3>1
    <3> HIDE DEF M, F
    <3> QED
      BY <3>2, <3>3, <3>4, <3>5, Zenon
  <2> HIDE DEF M, F
  <2>5. HasFree(n)
    BY <2>3 DEF M
  <2>6. \A i \in 1..n : i \in Nat \ {0} /\ HasFree(i)
    BY <1>1, <2>5, FreeFewer
  <2>7. \A k \in M : F[k] \in Pool \ used
    BY <1>1, <2>4, <2>6, NewPageIs
  <2>8. ASSUME NEW k \in M, NEW l \in M, F[k] = F[l] PROVE k = l
    <3>1. k - j + 1 = l - j + 1
      BY <1>1, <2>4, <2>6, <2>8, NewPagesDiffer
    <3>2. k \in Int /\ l \in Int /\ j \in Int
      BY <1>1, <2>1
    <3> QED
      BY <3>1, <3>2
  <2>9. NewPages(n) = {F[k] : k \in M}
    <3>1. \A i \in 1..n : \E k \in M : NewPage(i) = F[k]
      <4> SUFFICES ASSUME NEW i \in 1..n PROVE \E k \in M : NewPage(i) = F[k]
        OBVIOUS
      <4>1. i + j - 1 \in M /\ (i + j - 1) - j + 1 = i
        BY <1>1, <2>1, <2>2
      <4> QED
        BY <2>4, <4>1
    <3>2. \A k \in M : \E i \in 1..n : F[k] = NewPage(i)
      BY <2>4
    <3> QED
      BY <3>1, <3>2 DEF NewPages
  <2>10. M \subseteq 2..Levels /\ \A k \in M : k # Levels => k + 1 \in M
    BY <1>1, <2>1
  <2>11. Way(F, M, r, v, t)
    BY <1>2, <1>3, <2>7, <2>8, <2>10 DEF Way
  <2> QED
    BY <2>3, <2>9, <2>11 DEF M, F
<1> QED
  BY <1>4, <1>5

\* The memory after such a walk.
Walk(m, F, M, v) ==
  [p \in Pool |-> [i \in Index |->
     IF \E k \in M \ {1} : F[k - 1] = p /\ indexof(v, k - 1) = i
       THEN [to |-> F[CHOOSE k \in M \ {1} : F[k - 1] = p], flags |-> {"P"} \cup {"W", "U"}]
       ELSE Zeroed(m, {F[k] : k \in M})[p][i]]]

\* No two levels of a way have the same page.
LEMMA WayApart ==
  ASSUME NEW F, NEW M, NEW r, NEW v, NEW t, Way(F, M, r, v, t),
         NEW j \in 1..Levels, NEW k \in 1..Levels, F[j] = F[k]
  PROVE  j = k
<1>1. CASE j \in M /\ k \in M
  BY <1>1 DEF Way
<1>2. CASE j \notin M /\ k \notin M
  <2>1. t[F[j]] = <<r, j, Pre(v, j)>> /\ t[F[k]] = <<r, k, Pre(v, k)>>
    BY <1>2 DEF Way
  <2> QED
    BY <2>1
<1>3. CASE j \in M /\ k \notin M
  BY <1>3 DEF Way
<1>4. CASE j \notin M /\ k \in M
  BY <1>4 DEF Way
<1> QED
  BY <1>1, <1>2, <1>3, <1>4

\* Memory w has each new table linked where the one above it has its entry for v,
\* new tables that are otherwise clear, and the others as they are in m.
Linked(w, m, F, M, v) ==
  /\ \A k \in M : w[F[k - 1]][indexof(v, k - 1)] = [to |-> F[k], flags |-> {"P", "W", "U"}]
  /\ \A p \in Pool, i \in Index :
       (\A k \in M : ~(F[k - 1] = p /\ indexof(v, k - 1) = i)) =>
         w[p][i] = IF \E k \in M : p = F[k] THEN Absent ELSE m[p][i]

\* That is what such a walk leaves.
LEMMA WalkIs ==
  ASSUME NEW m, Memory(m), NEW F, NEW M, NEW r, NEW v \in Page, NEW t,
         Way(F, M, r, v, t), used \subseteq Pool
  PROVE  Memory(Walk(m, F, M, v)) /\ Linked(Walk(m, F, M, v), m, F, M, v)
<1> DEFINE N == {F[k] : k \in M}
           w == Walk(m, F, M, v)
           Hit(p, i, k) == F[k - 1] = p /\ indexof(v, k - 1) = i
<1>1. Levels \in Nat \ {0} /\ M \subseteq 2..Levels
  BY MmuAssumption DEF Way
<1>2. \A k \in M : k \in 2..Levels /\ k - 1 \in 1..Levels /\ k \in 1..Levels /\ k # 1
  BY <1>1
<1>3. M \ {1} = M
  BY <1>2
<1>4. \A k \in 1..Levels : F[k] \in Pool
  BY DEF Way
<1>5. ASSUME NEW j \in M, NEW k \in M, F[j - 1] = F[k - 1] PROVE j = k
  <2>1. j - 1 = k - 1
    BY <1>2, <1>5, WayApart
  <2> QED
    BY <1>1, <2>1
<1>6. ASSUME NEW k \in M
      PROVE  /\ F[k - 1] \in Pool /\ indexof(v, k - 1) \in Index /\ F[k] \in Pool
             /\ (CHOOSE j \in M : F[j - 1] = F[k - 1]) = k
  <2>1. F[k - 1] \in Pool /\ indexof(v, k - 1) \in Index /\ F[k] \in Pool
    BY <1>2, <1>4, Digits
  <2>2. \A j \in M : F[j - 1] = F[k - 1] => j = k
    BY <1>5
  <2> QED
    BY <2>1, <2>2
<1>7. \A p \in Pool, i \in Index :
        w[p][i] = IF \E k \in M : Hit(p, i, k)
                    THEN [to |-> F[CHOOSE k \in M : F[k - 1] = p], flags |-> {"P"} \cup {"W", "U"}]
                    ELSE Zeroed(m, N)[p][i]
  BY <1>3 DEF Walk
<1>8. /\ DOMAIN w = Pool /\ w = [p \in Pool |-> w[p]]
      /\ \A p \in Pool : DOMAIN w[p] = Index /\ w[p] = [i \in Index |-> w[p][i]]
  BY DEF Walk
<1>9. \A p \in Pool, i \in Index : Zeroed(m, N)[p][i] = IF \E k \in M : p = F[k] THEN Absent ELSE m[p][i]
  BY DEF Zeroed
<1>10. {"P"} \cup {"W", "U"} = {"P", "W", "U"}
  OBVIOUS
<1> HIDE DEF w, N
<1>11. ASSUME NEW k \in M
       PROVE  w[F[k - 1]][indexof(v, k - 1)] = [to |-> F[k], flags |-> {"P", "W", "U"}]
  BY <1>6, <1>7, <1>10
<1>12. ASSUME NEW p \in Pool, NEW i \in Index, \A k \in M : ~Hit(p, i, k)
       PROVE  w[p][i] = IF \E k \in M : p = F[k] THEN Absent ELSE m[p][i]
  <2>1. ~(\E k \in M : Hit(p, i, k))
    BY <1>12
  <2> HIDE DEF Hit
  <2>2. w[p][i] = Zeroed(m, N)[p][i]
    BY <1>7, <2>1
  <2> QED
    BY <1>9, <2>2
<1>13. ASSUME NEW p \in Pool, NEW i \in Index PROVE w[p][i] \in Entry
  <2>1. CASE \E k \in M : Hit(p, i, k)
    <3>1. PICK k \in M : Hit(p, i, k)
      BY <2>1
    <3>2. w[p][i] = [to |-> F[k], flags |-> {"P", "W", "U"}]
      BY <1>11, <3>1
    <3>3. F[k] \in Nat
      BY <1>6, AreaAssumption
    <3> QED
      BY <3>2, <3>3 DEF Entry
  <2>2. CASE \A k \in M : ~Hit(p, i, k)
    <3>1. Absent \in Entry /\ m[p][i] \in Entry
      BY DEF Memory, Absent, Entry, NULL
    <3> QED
      BY <1>12, <2>2, <3>1
  <2> QED
    BY <2>1, <2>2
<1>14. Memory(w)
  <2>1. \A p \in Pool : w[p] \in [Index -> Entry]
    BY <1>8, <1>13
  <2> QED
    BY <1>8, <2>1 DEF Memory
<1>15. Linked(w, m, F, M, v)
  BY <1>11, <1>12 DEF Linked
<1> QED
  BY <1>14, <1>15 DEF w

\* The labels after such a walk.
Grown(t, F, M, r, v) ==
  [p \in Pool |-> IF p \in used THEN t[p]
                  ELSE LET k == CHOOSE j \in M : F[j] = p IN <<r, k, Pre(v, k)>>]

\* The pages in use after it.
Kept(F, M) == used \cup {F[k] : k \in M}

\* Old pages keep their labels, and the way gets those of the levels it visits.
LEMMA GrownIs ==
  ASSUME NEW F, NEW M, NEW r, NEW v, NEW t, Way(F, M, r, v, t), used \subseteq Pool
  PROVE  /\ \A p \in used : Grown(t, F, M, r, v)[p] = t[p]
         /\ \A k \in 1..Levels : F[k] \in Kept(F, M) /\ Grown(t, F, M, r, v)[F[k]] = <<r, k, Pre(v, k)>>
         /\ \A p \in Kept(F, M) : p \in used \/ \E k \in M : p = F[k]
         /\ \A k \in M : F[k] \notin used
         /\ Kept(F, M) \subseteq Pool
<1>1. ASSUME NEW k \in M PROVE F[k] \in Pool \ used /\ Grown(t, F, M, r, v)[F[k]] = <<r, k, Pre(v, k)>>
  <2>1. F[k] \in Pool \ used /\ \A j \in M : F[j] = F[k] => j = k
    BY DEF Way
  <2>2. (CHOOSE j \in M : F[j] = F[k]) = k
    BY <2>1
  <2> QED
    BY <2>1, <2>2 DEF Grown
<1>2. \A p \in used : Grown(t, F, M, r, v)[p] = t[p]
  BY DEF Grown
<1>3. ASSUME NEW k \in 1..Levels
      PROVE  F[k] \in Kept(F, M) /\ Grown(t, F, M, r, v)[F[k]] = <<r, k, Pre(v, k)>>
  <2>1. CASE k \in M
    BY <1>1, <2>1 DEF Kept
  <2>2. CASE k \notin M
    <3>1. F[k] \in used /\ t[F[k]] = <<r, k, Pre(v, k)>>
      BY <2>2 DEF Way
    <3> QED
      BY <1>2, <3>1 DEF Kept
  <2> QED
    BY <2>1, <2>2
<1> QED
  BY <1>1, <1>2, <1>3 DEF Kept

\* Such a walk labels the new pages, each with a label of its own.
LEMMA WalkLabels ==
  ASSUME NEW F, NEW M, NEW R, NEW r \in R, NEW v \in UserPage, NEW t,
         Labels(used, t, kpt, R), Way(F, M, r, v, t)
  PROVE  Labels(Kept(F, M), Grown(t, F, M, r, v), kpt, R)
<1> DEFINE U == Kept(F, M)
           g == Grown(t, F, M, r, v)
<1>1. used \subseteq Pool /\ r # kpt /\ M \subseteq 1..Levels /\ v \in Page
  BY MmuAssumption, Areas DEF Labels, Way
<1>2. /\ \A p \in used : g[p] = t[p]
      /\ \A k \in M : F[k] \in U /\ F[k] \notin used /\ g[F[k]] = <<r, k, Pre(v, k)>>
      /\ \A p \in U : p \in used \/ \E k \in M : p = F[k]
      /\ U \subseteq Pool
  BY <1>1, GrownIs
<1>3. used \subseteq U
  BY DEF Kept
<1>4. \A k \in M : k \in 1..Levels /\ Pre(v, k) \in Nat /\ Pre(v, k) \in UT(k)
  <2>1. \A k \in M : k \in 1..(Levels + 1)
    BY <1>1, MmuAssumption
  <2> QED
    BY <1>1, <2>1, Digits DEF UT
<1> HIDE DEF U, g
<1>5. ASSUME NEW p \in U
      PROVE  \E o \in R \cup {kpt}, k \in 1..Levels, x \in Nat :
               g[p] = <<o, k, x>> /\ x \in (IF o = kpt THEN KT(k) ELSE UT(k))
  <2>1. CASE p \in used
    BY <1>2, <2>1 DEF Labels
  <2>2. CASE \E k \in M : p = F[k]
    BY <1>1, <1>2, <1>4, <2>2
  <2> QED
    BY <1>2, <2>1, <2>2
<1>6. ASSUME NEW p \in U, NEW q \in U, g[p] = g[q] PROVE p = q
  <2>1. CASE p \in used /\ q \in used
    BY <1>2, <1>6, <2>1 DEF Labels
  <2>2. \A k \in M : \A o \in used : g[F[k]] # g[o]
    BY <1>2 DEF Way
  <2>3. CASE (\E k \in M : p = F[k]) /\ (\E k \in M : q = F[k])
    <3>1. PICK j \in M, k \in M : p = F[j] /\ q = F[k]
      BY <2>3
    <3>2. j = k
      BY <1>2, <1>6, <3>1
    <3> QED
      BY <3>1, <3>2
  <2> QED
    BY <1>2, <1>6, <2>1, <2>2, <2>3
<1>7. /\ kpt \in U /\ R \subseteq U \ {kpt}
      /\ \A o \in R \cup {kpt} : g[o] = <<o, 1, 0>>
      /\ \A k \in 1..Levels : \A x \in KT(k) : \E p \in U : g[p] = <<kpt, k, x>>
  BY <1>2, <1>3 DEF Labels
<1> QED
  BY <1>2, <1>5, <1>6, <1>7 DEF Labels, U, g

\* An entry that leads to a table still does when there are more of them.
LEMMA EntryStays ==
  ASSUME NEW e, NEW U, NEW t, NEW U2, NEW t2, NEW kr, NEW r, NEW k, NEW y,
         EntryOK(e, U, t, kr, r, k, y), U \subseteq U2, \A p \in U : t2[p] = t[p]
  PROVE  EntryOK(e, U2, t2, kr, r, k, y)
BY DEF EntryOK

\* Entry i of page p in memory w after such a walk: linked, clear or as it was.
Written(w, F, M, v, p, i) ==
  \/ \E k \in M : /\ F[k - 1] = p /\ indexof(v, k - 1) = i
                  /\ w[p][i] = [to |-> F[k], flags |-> {"P", "W", "U"}]
  \/ (\E k \in M : p = F[k]) /\ w[p][i] = Absent
  \/ /\ p \in used /\ w[p][i] = table[p][i]
     /\ \A k \in M : ~(F[k - 1] = p /\ indexof(v, k - 1) = i)

\* What such a walk leaves at an entry of a table in use or of a new one.
LEMMA WalkEntry ==
  ASSUME NEW F, NEW M, NEW R, NEW r \in R, NEW v \in UserPage, NEW t,
         Tree(table, used, t, kpt, R), Way(F, M, r, v, t),
         NEW p \in Kept(F, M), NEW i \in Index
  PROVE  Written(Walk(table, F, M, v), F, M, v, p, i)
<1> DEFINE w == Walk(table, F, M, v)
           Hit(k) == F[k - 1] = p /\ indexof(v, k - 1) = i
<1>1. used \subseteq Pool /\ v \in Page /\ Memory(table)
  BY Areas DEF Tree, Labels, Memory
<1>2. /\ \A k \in M : w[F[k - 1]][indexof(v, k - 1)] = [to |-> F[k], flags |-> {"P", "W", "U"}]
      /\ \A q \in Pool, j \in Index :
           (\A k \in M : ~(F[k - 1] = q /\ indexof(v, k - 1) = j)) =>
             w[q][j] = IF \E k \in M : q = F[k] THEN Absent ELSE table[q][j]
  <2>1. Linked(w, table, F, M, v)
    BY <1>1, WalkIs
  <2> HIDE DEF w
  <2> QED
    BY <2>1 DEF Linked
<1>3. p \in Pool /\ (p \in used \/ \E k \in M : p = F[k]) /\ \A k \in M : F[k] \notin used
  BY <1>1, GrownIs
<1> HIDE DEF w
<1>4. CASE \E k \in M : Hit(k)
  <2>1. PICK k \in M : F[k - 1] = p /\ indexof(v, k - 1) = i
    BY <1>4
  <2>2. w[F[k - 1]][indexof(v, k - 1)] = [to |-> F[k], flags |-> {"P", "W", "U"}]
    BY <1>2
  <2>3. w[p][i] = [to |-> F[k], flags |-> {"P", "W", "U"}]
    BY <2>1, <2>2
  <2> QED
    BY ONLY k \in M, <2>1, <2>3 DEF w, Written
<1>5. CASE \A k \in M : ~Hit(k)
  <2>1. w[p][i] = IF \E k \in M : p = F[k] THEN Absent ELSE table[p][i]
    BY <1>2, <1>3, <1>5
  <2>2. CASE \E k \in M : p = F[k]
    BY <2>1, <2>2 DEF w, Written
  <2>3. CASE ~(\E k \in M : p = F[k])
    BY <1>3, <1>5, <2>1, <2>3 DEF w, Written
  <2> QED
    BY <2>2, <2>3
<1> QED
  BY <1>4, <1>5

\* Digits on the way to a page of the user lead to no page of the kernel.
LEMMA UserDigits ==
  ASSUME NEW v \in UserPage, NEW k \in 1..Levels
  PROVE  /\ Pre(v, k) \in Nat /\ indexof(v, k) \in Index
         /\ Pre(v, k + 1) = Pre(v, k) * NIndex + indexof(v, k)
         /\ Pre(v, k) \in UT(k) /\ Pre(v, k + 1) \in UT(k + 1) /\ Pre(v, k + 1) \notin KT(k + 1)
<1>1. v \in Page /\ Levels \in Nat \ {0} /\ k + 1 \in 2..(Levels + 1) /\ k \in 1..(Levels + 1)
  BY Areas, MmuAssumption
<1>2. Pre(v, k + 1) \in UT(k + 1) /\ Pre(v, k) \in UT(k)
  BY DEF UT
<1> QED
  BY <1>1, <1>2, Digits, Split

\* The entries are right after such a walk.
LEMMA WalkEntries ==
  ASSUME NEW F, NEW M, NEW R, NEW r \in R, NEW v \in UserPage, NEW t,
         Tree(table, used, t, kpt, R), Way(F, M, r, v, t)
  PROVE  Entries(Walk(table, F, M, v), Kept(F, M), Grown(t, F, M, r, v), kpt)
<1> DEFINE U == Kept(F, M)
           g == Grown(t, F, M, r, v)
           w == Walk(table, F, M, v)
<1>1. used \subseteq Pool /\ r # kpt /\ Levels \in Nat \ {0} /\ M \subseteq 2..Levels /\ NIndex \in Nat \ {0}
  BY MmuAssumption DEF Tree, Labels, Way
<1>2. /\ \A p \in used : g[p] = t[p]
      /\ \A k \in 1..Levels : F[k] \in U /\ g[F[k]] = <<r, k, Pre(v, k)>>
  BY <1>1, GrownIs
<1>3. used \subseteq U
  BY DEF Kept
<1>4. \A k \in M : k \in 2..Levels /\ k \in 1..Levels /\ k - 1 \in 1..Levels /\ k - 1 # Levels /\ (k - 1) + 1 = k
  BY <1>1
<1> SUFFICES ASSUME NEW p \in U, NEW i \in Index, NEW k \in 1..Levels, NEW x \in Nat, NEW o,
                    g[p] = <<o, k, x>>
             PROVE  EntryOK(w[p][i], U, g, kpt, o, k, x * NIndex + i)
  BY DEF Entries
<1>5. \/ \E j \in M : /\ F[j - 1] = p /\ indexof(v, j - 1) = i
                      /\ w[p][i] = [to |-> F[j], flags |-> {"P", "W", "U"}]
      \/ (\E j \in M : p = F[j]) /\ w[p][i] = Absent
      \/ p \in used /\ w[p][i] = table[p][i]
  <2>1. Written(w, F, M, v, p, i)
    BY WalkEntry
  <2> HIDE DEF w
  <2> QED
    BY <2>1 DEF Written
<1> HIDE DEF U, g, w
<1>6. ASSUME NEW j \in M, F[j - 1] = p, indexof(v, j - 1) = i,
             w[p][i] = [to |-> F[j], flags |-> {"P", "W", "U"}]
      PROVE  EntryOK(w[p][i], U, g, kpt, o, k, x * NIndex + i)
  <2>1. o = r /\ k = j - 1 /\ x = Pre(v, j - 1)
    BY <1>2, <1>4, <1>6
  <2>2. x * NIndex + i = Pre(v, j) /\ Pre(v, j) \notin KT(j)
    BY <1>4, <1>6, <2>1, UserDigits
  <2>3. k # Levels /\ k + 1 = j /\ F[j] \in U /\ g[F[j]] = <<r, j, Pre(v, j)>>
    BY <1>2, <1>4, <2>1
  <2>4. w[p][i].to = F[j] /\ w[p][i].flags = {"P", "W", "U"}
    BY <1>6
  <2>5. \A y : y = Pre(v, j) => EntryOK(w[p][i], U, g, kpt, o, k, y)
    BY <1>1, <2>1, <2>2, <2>3, <2>4 DEF EntryOK
  <2> QED
    BY <2>2, <2>5
<1>7. ASSUME NEW j \in M, p = F[j], w[p][i] = Absent
      PROVE  EntryOK(w[p][i], U, g, kpt, o, k, x * NIndex + i)
  <2>1. o = r /\ k = j /\ x = Pre(v, j) /\ j \in 2..(Levels + 1)
    BY <1>1, <1>2, <1>4, <1>7
  <2>2. x \in UT(k)
    BY <1>4, <2>1, UserDigits
  <2>3. x \notin KT(k)
    BY <2>1, <2>2, Split
  <2>4. x * NIndex + i \notin KT(k + 1)
    BY <2>3, Shorter
  <2>5. "P" \notin w[p][i].flags
    BY <1>7 DEF Absent
  <2> QED
    BY <2>4, <2>5 DEF EntryOK
<1>8. ASSUME p \in used, w[p][i] = table[p][i]
      PROVE  EntryOK(w[p][i], U, g, kpt, o, k, x * NIndex + i)
  <2>1. t[p] = <<o, k, x>>
    BY <1>2, <1>8
  <2>2. EntryOK(table[p][i], used, t, kpt, o, k, x * NIndex + i)
    BY <1>8, <2>1, EntryAt
  <2>3. EntryOK(table[p][i], U, g, kpt, o, k, x * NIndex + i)
    BY <1>2, <1>3, <2>2, EntryStays
  <2> QED
    BY <1>8, <2>3
<1> QED
  BY <1>5, <1>6, <1>7, <1>8

\* Every table below a root has its parent after such a walk.
LEMMA WalkParents ==
  ASSUME NEW F, NEW M, NEW R, NEW r \in R, NEW v \in UserPage, NEW t,
         Tree(table, used, t, kpt, R), Way(F, M, r, v, t)
  PROVE  Parents(Walk(table, F, M, v), Kept(F, M), Grown(t, F, M, r, v))
<1> DEFINE U == Kept(F, M)
           g == Grown(t, F, M, r, v)
           w == Walk(table, F, M, v)
<1>1. /\ used \subseteq Pool /\ Levels \in Nat \ {0} /\ M \subseteq 2..Levels /\ NIndex \in Nat \ {0}
      /\ v \in Page /\ Memory(table)
  BY MmuAssumption, Areas DEF Tree, Labels, Memory, Way
<1>2. /\ \A p \in used : g[p] = t[p]
      /\ \A k \in 1..Levels : F[k] \in U /\ g[F[k]] = <<r, k, Pre(v, k)>>
      /\ \A p \in U : p \in used \/ \E k \in M : p = F[k]
      /\ \A k \in M : F[k] \notin used
  BY <1>1, GrownIs
<1>3. used \subseteq U
  BY DEF Kept
<1>4. \A k \in M : k \in 2..Levels /\ k \in 1..Levels /\ k - 1 \in 1..Levels /\ (k - 1) + 1 = k
  BY <1>1
<1>5. \A k \in M : w[F[k - 1]][indexof(v, k - 1)] = [to |-> F[k], flags |-> {"P", "W", "U"}]
  <2>1. Linked(w, table, F, M, v)
    BY <1>1, WalkIs
  <2> HIDE DEF w
  <2> QED
    BY <2>1 DEF Linked
<1> SUFFICES ASSUME NEW p \in U, NEW k \in 1..(Levels - 1), NEW o, NEW x, g[p] = <<o, k + 1, x>>
             PROVE  HasParent(w, U, g, p, o, k, x)
  BY DEF Parents
<1>6. ASSUME NEW q \in used, NEW i \in Index
      PROVE  \/ \E j \in M : F[j - 1] = q /\ indexof(v, j - 1) = i
             \/ w[q][i] = table[q][i]
  <2>1. q \in Kept(F, M)
    BY <1>3
  <2>2. Written(w, F, M, v, q, i)
    BY <2>1, WalkEntry
  <2> HIDE DEF w
  <2> QED
    BY <1>2, <2>2 DEF Written
<1> HIDE DEF U, g, w
<1>7. ASSUME NEW j \in M, p = F[j]
      PROVE  HasParent(w, U, g, p, o, k, x)
  <2>1. o = r /\ k + 1 = j /\ x = Pre(v, j)
    BY <1>2, <1>4, <1>7
  <2>2. k = j - 1
    BY <1>1, <1>4, <2>1
  <2>3. /\ Pre(v, k) \in Nat /\ indexof(v, k) \in Index
        /\ x = Pre(v, k) * NIndex + indexof(v, k)
    BY <1>4, <2>1, <2>2, UserDigits
  <2>4. F[k] \in U /\ g[F[k]] = <<r, k, Pre(v, k)>>
    BY <1>2, <1>4, <2>2
  <2>5. w[F[k]][indexof(v, k)].to = p /\ "P" \in w[F[k]][indexof(v, k)].flags
    <3>1. w[F[j - 1]][indexof(v, j - 1)] = [to |-> F[j], flags |-> {"P", "W", "U"}]
      BY <1>5
    <3>2. w[F[k]][indexof(v, k)] = [to |-> F[j], flags |-> {"P", "W", "U"}]
      BY <2>2, <3>1
    <3> QED
      BY <1>7, <3>2
  <2> QED
    BY <2>1, <2>3, <2>4, <2>5 DEF HasParent
<1>8. ASSUME p \in used
      PROVE  HasParent(w, U, g, p, o, k, x)
  <2>1. t[p] = <<o, k + 1, x>> /\ Parents(table, used, t)
    BY <1>2, <1>8 DEF Tree
  <2>2. PICK q \in used, i \in Index, y \in Nat :
          /\ t[q] = <<o, k, y>> /\ x = y * NIndex + i
          /\ table[q][i].to = p /\ "P" \in table[q][i].flags
    <3>1. HasParent(table, used, t, p, o, k, x)
      BY <1>8, <2>1 DEF Parents
    <3> QED
      BY <3>1 DEF HasParent
  <2>3. ASSUME NEW j \in M, F[j - 1] = q, indexof(v, j - 1) = i PROVE FALSE
    <3>1. <<o, k, y>> = <<r, j - 1, Pre(v, j - 1)>>
      BY <1>2, <1>4, <2>2, <2>3
    <3>2. x = Pre(v, j)
      BY <1>4, <2>2, <2>3, <3>1, UserDigits
    <3>3. t[p] = <<r, j, Pre(v, j)>>
      BY <1>4, <2>1, <3>1, <3>2
    <3> QED
      BY <1>8, <3>3 DEF Way
  <2>4. w[q][i] = table[q][i]
    BY <1>6, <2>3
  <2> QED
    BY <1>2, <1>3, <2>2, <2>4 DEF HasParent
<1> QED
  BY <1>2, <1>7, <1>8

\* A walk to a page of the user keeps the trees.
LEMMA WalkTree ==
  ASSUME NEW F, NEW M, NEW R, NEW r \in R, NEW v \in UserPage, NEW t,
         Tree(table, used, t, kpt, R), Way(F, M, r, v, t)
  PROVE  Tree(Walk(table, F, M, v), Kept(F, M), Grown(t, F, M, r, v), kpt, R)
<1>1. Memory(table) /\ Labels(used, t, kpt, R) /\ used \subseteq Pool /\ v \in Page
  BY Areas DEF Tree, Labels
<1>2. Memory(Walk(table, F, M, v))
  BY <1>1, WalkIs
<1>3. Labels(Kept(F, M), Grown(t, F, M, r, v), kpt, R)
  BY <1>1, WalkLabels
<1>4. Parents(Walk(table, F, M, v), Kept(F, M), Grown(t, F, M, r, v))
  BY WalkParents
<1>5. Entries(Walk(table, F, M, v), Kept(F, M), Grown(t, F, M, r, v), kpt)
  BY WalkEntries
<1> QED
  BY <1>2, <1>3, <1>4, <1>5 DEF Tree

\* It writes no table of another tree and no last table.
LEMMA WalkElsewhere ==
  ASSUME NEW F, NEW M, NEW R, NEW r \in R, NEW v \in UserPage, NEW t,
         Tree(table, used, t, kpt, R), Way(F, M, r, v, t),
         NEW p \in used, NEW o, NEW k, NEW x, t[p] = <<o, k, x>>, o # r \/ k = Levels
  PROVE  Walk(table, F, M, v)[p] = table[p]
<1> DEFINE w == Walk(table, F, M, v)
<1>1. /\ used \subseteq Pool /\ Levels \in Nat \ {0} /\ M \subseteq 2..Levels /\ v \in Page
      /\ Memory(table)
  BY MmuAssumption, Areas DEF Tree, Labels, Way
<1>2. /\ \A q \in used : Grown(t, F, M, r, v)[q] = t[q]
      /\ \A j \in 1..Levels : Grown(t, F, M, r, v)[F[j]] = <<r, j, Pre(v, j)>>
      /\ \A j \in M : F[j] \notin used
  BY <1>1, GrownIs
<1>3. \A j \in M : j - 1 \in 1..Levels /\ j - 1 # Levels
  BY <1>1
<1>4. \A j \in M : F[j - 1] # p
  <2> SUFFICES ASSUME NEW j \in M, F[j - 1] = p PROVE FALSE
    OBVIOUS
  <2>1. <<o, k, x>> = <<r, j - 1, Pre(v, j - 1)>>
    BY <1>2, <1>3
  <2> QED
    BY <1>3, <2>1
<1>5. p \in Kept(F, M)
  BY DEF Kept
<1>6. ASSUME NEW i \in Index PROVE w[p][i] = table[p][i]
  <2>1. Written(w, F, M, v, p, i)
    BY <1>5, WalkEntry
  <2> HIDE DEF w
  <2> QED
    BY <1>2, <1>4, <2>1 DEF Written
<1>7. Memory(w)
  BY <1>1, WalkIs
<1> HIDE DEF w
<1>8. w[p] \in [Index -> Entry] /\ table[p] \in [Index -> Entry]
  BY <1>1, <1>7 DEF Memory
<1>9. w[p] = table[p]
  BY <1>6, <1>8
<1> QED
  BY <1>9 DEF w

\* The last tables that show page v of the tree at r.
Lasts(m, U, t, r, v) ==
  {p \in U : t[p] = <<r, Levels, Pre(v, Levels)>> /\ "P" \in m[p][indexof(v, Levels)].flags}

\* What is seen of a page is what the last tables show.
LEMMA SeenSame ==
  ASSUME NEW m, NEW U, NEW t, NEW m2, NEW U2, NEW t2, NEW r, NEW v,
         \A p : p \in Lasts(m2, U2, t2, r, v) <=> p \in Lasts(m, U, t, r, v),
         \A p \in Lasts(m, U, t, r, v) : m2[p][indexof(v, Levels)] = m[p][indexof(v, Levels)]
  PROVE  Seen(m2, U2, t2, r, v) = Seen(m, U, t, r, v)
<1> DEFINE Shown(e) == [frame |-> e.to, write |-> "W" \in e.flags]
           i == indexof(v, Levels)
           L == Lasts(m, U, t, r, v)
           L2 == Lasts(m2, U2, t2, r, v)
<1>1. Seen(m, U, t, r, v) = {Shown(m[p][i]) : p \in L}
  BY Zenon DEF Seen, Lasts
<1>2. Seen(m2, U2, t2, r, v) = {Shown(m2[p][i]) : p \in L2}
  BY Zenon DEF Seen, Lasts
<1>3. L2 = L
  BY Zenon
<1> HIDE DEF L, L2, Shown, i
<1>4. \A p \in L : m2[p][i] = m[p][i]
  BY DEF L, i
<1>5. {Shown(m2[p][i]) : p \in L} = {Shown(m[p][i]) : p \in L}
  BY <1>4
<1> QED
  BY <1>1, <1>2, <1>3, <1>5

\* A walk to a page of the user changes nothing that a user program sees.
LEMMA WalkSeen ==
  ASSUME NEW F, NEW M, NEW R, NEW r \in R, NEW v \in UserPage, NEW t,
         Tree(table, used, t, kpt, R), Way(F, M, r, v, t), NEW o, NEW u \in UserPage
  PROVE  Seen(Walk(table, F, M, v), Kept(F, M), Grown(t, F, M, r, v), o, u) = Seen(table, used, t, o, u)
<1> DEFINE U == Kept(F, M)
           g == Grown(t, F, M, r, v)
           w == Walk(table, F, M, v)
           i == indexof(u, Levels)
<1>1. /\ used \subseteq Pool /\ Levels \in Nat \ {0} /\ Levels \in 1..Levels
      /\ u \in Page /\ v \in Page /\ M \subseteq 2..Levels
  BY MmuAssumption, Areas DEF Tree, Labels, Way
<1>2. /\ \A p \in used : g[p] = t[p]
      /\ \A k \in 1..Levels : F[k] \in U /\ g[F[k]] = <<r, k, Pre(v, k)>>
      /\ \A p \in U : p \in used \/ \E k \in M : p = F[k]
  <2>1. used \subseteq Pool
    BY <1>1
  <2> QED
    BY ONLY <2>1, Way(F, M, r, v, t), GrownIs DEF U, g
<1>3. i \in Index
  BY <1>1, Digits
<1>4. ASSUME NEW p \in used, t[p] = <<o, Levels, Pre(u, Levels)>> PROVE w[p] = table[p]
  BY <1>4, WalkElsewhere
<1>5. used \subseteq U
  BY DEF Kept
<1>6. ASSUME NEW p \in U, p \notin used, g[p] = <<o, Levels, Pre(u, Levels)>>
      PROVE  "P" \notin w[p][i].flags
  <2>1. Written(w, F, M, v, p, i)
    BY <1>3, WalkEntry
  <2> HIDE DEF w, U, g, i
  <2>2. ASSUME NEW k \in M, F[k - 1] = p PROVE FALSE
    <3>1. k - 1 \in 1..Levels /\ k - 1 # Levels
      BY <1>1
    <3>2. <<o, Levels, Pre(u, Levels)>> = <<r, k - 1, Pre(v, k - 1)>>
      BY <1>2, <1>6, <2>2, <3>1
    <3> QED
      BY <3>1, <3>2
  <2>3. w[p][i] = Absent
    BY <1>6, <2>1, <2>2 DEF Written
  <2> QED
    BY <2>3 DEF Absent
<1> HIDE DEF w, U, g
<1>7. \A p : p \in Lasts(w, U, g, o, u) <=> p \in Lasts(table, used, t, o, u)
  BY <1>2, <1>4, <1>5, <1>6 DEF Lasts
<1>8. \A p \in Lasts(table, used, t, o, u) : w[p][i] = table[p][i]
  BY <1>4 DEF Lasts
<1>9. Seen(w, U, g, o, u) = Seen(table, used, t, o, u)
  BY <1>7, <1>8, SeenSame
<1> QED
  BY <1>9 DEF w, U, g

-----------------------------------------------------------------------------
(* A store of the last entry for a page *)

\* What entry e shows of a page.
Shows(e) == IF "P" \in e.flags THEN {[frame |-> e.to, write |-> "W" \in e.flags]} ELSE {}

\* An entry that map and unmap store.
UserEntry(e) == e \in Entry /\ ("P" \notin e.flags \/ {"P", "U"} \subseteq e.flags)

\* Page q is the last table on the way from r to v.
LastTable(q, U, t, r, v) == q \in U /\ t[q] = <<r, Levels, Pre(v, Levels)>>

Store(m, q, v, e) == [m EXCEPT ![q][indexof(v, Levels)] = e]

\* The store changes one entry.
LEMMA StoreIs ==
  ASSUME NEW m, Memory(m), NEW q \in Pool, NEW v \in Page, NEW e \in Entry
  PROVE  /\ Memory(Store(m, q, v, e))
         /\ Store(m, q, v, e)[q][indexof(v, Levels)] = e
         /\ \A p \in Pool, i \in Index :
              p # q \/ i # indexof(v, Levels) => Store(m, q, v, e)[p][i] = m[p][i]
<1>1. indexof(v, Levels) \in Index
  BY Digits, MmuAssumption
<1> QED
  BY <1>1 DEF Memory, Store

\* It keeps the trees.
LEMMA StoreTree ==
  ASSUME NEW m, NEW U, NEW t, NEW kr, NEW R, Tree(m, U, t, kr, R), NEW r \in R,
         NEW v \in UserPage, NEW q, LastTable(q, U, t, r, v), NEW e, UserEntry(e)
  PROVE  Tree(Store(m, q, v, e), U, t, kr, R)
<1> DEFINE n == Store(m, q, v, e)
           i == indexof(v, Levels)
<1>1. /\ Levels \in Nat \ {0} /\ NIndex \in Nat \ {0} /\ v \in Page /\ r # kr
      /\ U \subseteq Pool /\ q \in U /\ q \in Pool /\ t[q] = <<r, Levels, Pre(v, Levels)>>
  BY MmuAssumption, Areas DEF Tree, Labels, LastTable
<1>2. Memory(m) /\ e \in Entry
  BY DEF Tree, UserEntry
<1>3. /\ Memory(n) /\ n[q][i] = e
      /\ \A p \in Pool, j \in Index : p # q \/ j # i => n[p][j] = m[p][j]
  BY <1>1, <1>2, StoreIs
<1> HIDE DEF n, i
<1>4. ASSUME NEW p \in U, NEW k \in 1..(Levels - 1), NEW o, NEW x, t[p] = <<o, k + 1, x>>
      PROVE  HasParent(n, U, t, p, o, k, x)
  <2>1. HasParent(m, U, t, p, o, k, x)
    BY <1>4 DEF Tree, Parents
  <2>2. PICK p2 \in U, j \in Index, y \in Nat :
          /\ t[p2] = <<o, k, y>> /\ x = y * NIndex + j
          /\ m[p2][j].to = p /\ "P" \in m[p2][j].flags
    BY <2>1 DEF HasParent
  <2>3. p2 # q
    <3>1. k # Levels
      BY <1>1
    <3> QED
      BY <1>1, <2>2, <3>1
  <2>4. n[p2][j] = m[p2][j]
    BY <1>1, <1>3, <2>3
  <2> QED
    BY <2>2, <2>4 DEF HasParent
<1>5. ASSUME NEW p \in U, NEW j \in Index, NEW k \in 1..Levels, NEW x \in Nat, NEW o, t[p] = <<o, k, x>>
      PROVE  EntryOK(n[p][j], U, t, kr, o, k, x * NIndex + j)
  <2>1. CASE p # q \/ j # i
    <3>1. n[p][j] = m[p][j]
      BY <1>1, <1>3, <2>1
    <3>2. EntryOK(m[p][j], U, t, kr, o, k, x * NIndex + j)
      BY <1>5, EntryAt
    <3> QED
      BY <3>1, <3>2
  <2>2. CASE p = q /\ j = i
    <3>1. o = r /\ k = Levels /\ x = Pre(v, Levels)
      BY <1>1, <1>5, <2>2
    <3>2. /\ Pre(v, Levels + 1) = Pre(v, Levels) * NIndex + indexof(v, Levels)
          /\ Pre(v, Levels + 1) \notin KT(Levels + 1)
      BY <3>1, UserDigits
    <3>3. Pre(v, Levels + 1) = v
      BY <1>1, Digits
    <3>4. x * NIndex + j = v
      BY <2>2, <3>1, <3>2, <3>3 DEF i
    <3>5. n[p][j] = e
      BY <1>3, <2>2
    <3>6. EntryOK(e, U, t, kr, r, Levels, v)
      BY <1>1, <3>2, <3>3 DEF EntryOK, UserEntry
    <3> QED
      BY <3>1, <3>4, <3>5, <3>6
  <2> QED
    BY <2>1, <2>2
<1>6. Parents(n, U, t) /\ Entries(n, U, t, kr)
  BY <1>4, <1>5 DEF Parents, Entries
<1> QED
  BY <1>3, <1>6 DEF Tree, n

\* It leaves the other tables as they are.
LEMMA StoreElsewhere ==
  ASSUME NEW m, Memory(m), NEW q \in Pool, NEW v \in Page, NEW e \in Entry, NEW p \in Pool, p # q
  PROVE  Store(m, q, v, e)[p] = m[p]
BY DEF Store, Memory

\* A user program sees the entry at the page, and no other page changes.
LEMMA StoreSeen ==
  ASSUME NEW m, NEW U, NEW t, NEW kr, NEW R, Tree(m, U, t, kr, R), NEW r \in R,
         NEW v \in UserPage, NEW q, LastTable(q, U, t, r, v), NEW e, UserEntry(e)
  PROVE  /\ Seen(Store(m, q, v, e), U, t, r, v) = Shows(e)
         /\ \A o : \A u \in UserPage :
              o # r \/ u # v => Seen(Store(m, q, v, e), U, t, o, u) = Seen(m, U, t, o, u)
<1> DEFINE n == Store(m, q, v, e)
           i == indexof(v, Levels)
<1>1. /\ Levels \in Nat \ {0} /\ NIndex \in Nat \ {0} /\ v \in Page
      /\ U \subseteq Pool /\ q \in U /\ q \in Pool /\ t[q] = <<r, Levels, Pre(v, Levels)>>
      /\ \A p \in U : t[p] = t[q] => p = q
  BY MmuAssumption, Areas DEF Tree, Labels, LastTable
<1>2. Memory(m) /\ e \in Entry
  BY DEF Tree, UserEntry
<1>3. /\ n[q][i] = e
      /\ \A p \in Pool, j \in Index : p # q \/ j # i => n[p][j] = m[p][j]
  BY <1>1, <1>2, StoreIs
<1> HIDE DEF n
<1>4. Seen(n, U, t, r, v) = Shows(e)
  <2>1. CASE "P" \in e.flags
    <3>1. \A p : p \in Lasts(n, U, t, r, v) <=> p = q
      BY <1>1, <1>3, <2>1 DEF Lasts
    <3>2. Lasts(n, U, t, r, v) = {q}
      BY <3>1
    <3>3. Seen(n, U, t, r, v) = {[frame |-> n[p][i].to, write |-> "W" \in n[p][i].flags] : p \in Lasts(n, U, t, r, v)}
      BY Zenon DEF Seen, Lasts
    <3>4. Seen(n, U, t, r, v) = {[frame |-> e.to, write |-> "W" \in e.flags]}
      BY <1>3, <3>2, <3>3
    <3> QED
      BY <2>1, <3>4 DEF Shows
  <2>2. CASE "P" \notin e.flags
    <3>1. \A p : p \notin Lasts(n, U, t, r, v)
      BY <1>1, <1>3, <2>2 DEF Lasts
    <3>2. Lasts(n, U, t, r, v) = {}
      BY <3>1
    <3>3. Seen(n, U, t, r, v) = {[frame |-> n[p][i].to, write |-> "W" \in n[p][i].flags] : p \in Lasts(n, U, t, r, v)}
      BY Zenon DEF Seen, Lasts
    <3> QED
      BY <2>2, <3>2, <3>3 DEF Shows
  <2> QED
    BY <2>1, <2>2
<1>5. ASSUME NEW o, NEW u \in UserPage, o # r \/ u # v
      PROVE  Seen(n, U, t, o, u) = Seen(m, U, t, o, u)
  <2>1. u \in Page /\ indexof(u, Levels) \in Index /\ Levels \in 1..Levels
    <3>1. u \in Page /\ Levels \in 1..Levels
      BY <1>1, Areas
    <3> QED
      BY ONLY <3>1, Digits
  <2>2. ASSUME NEW p \in U, t[p] = <<o, Levels, Pre(u, Levels)>>
        PROVE  n[p][indexof(u, Levels)] = m[p][indexof(u, Levels)]
    <3>1. p # q \/ indexof(u, Levels) # i
      <4> SUFFICES ASSUME p = q, indexof(u, Levels) = i PROVE FALSE
        OBVIOUS
      <4>1. o = r /\ Pre(u, Levels) = Pre(v, Levels)
        BY <1>1, <2>2
      <4>2. /\ Pre(u, Levels + 1) = Pre(u, Levels) * NIndex + indexof(u, Levels)
            /\ Pre(v, Levels + 1) = Pre(v, Levels) * NIndex + indexof(v, Levels)
        BY <2>1, UserDigits
      <4>3. Pre(u, Levels + 1) = u /\ Pre(v, Levels + 1) = v
        BY <1>1, <2>1, Digits
      <4>4. u = v
        BY <4>1, <4>2, <4>3
      <4> QED
        BY <1>5, <4>1, <4>4
    <3> HIDE DEF i
    <3> QED
      BY <1>1, <1>3, <2>1, <3>1
  <2>3. \A p : p \in Lasts(n, U, t, o, u) <=> p \in Lasts(m, U, t, o, u)
    BY <2>2 DEF Lasts
  <2>4. \A p \in Lasts(m, U, t, o, u) : n[p][indexof(u, Levels)] = m[p][indexof(u, Levels)]
    BY <2>2 DEF Lasts
  <2> QED
    BY <2>3, <2>4, SeenSame
<1> QED
  BY <1>4, <1>5 DEF n

-----------------------------------------------------------------------------
(* protect *)

\* The memory after protect with new root n, and the labels.
Rooted(m, n) ==
  [Zeroed(m, {n}) EXCEPT
     ![n] = [i \in Index |-> IF i \in {indexof(v, 1) : v \in KernelPage} THEN m[kpt][i] ELSE Absent]]

Named(t, n) == [p \in Pool |-> IF p = n THEN <<n, 1, 0>> ELSE t[p]]

\* The root entries of the kernel are those that protect copies.
LEMMA SharedIs == {indexof(v, 1) : v \in KernelPage} = KT(2)
<1>1. NIndex \in Nat \ {0} /\ Levels \in Nat \ {0} /\ 1 \in 1..Levels
  BY MmuAssumption
<1>2. ASSUME NEW v \in KernelPage PROVE Pre(v, 2) = indexof(v, 1)
  <2>1. /\ v \in Page /\ Pre(v, 1) = 0 /\ indexof(v, 1) \in 0..(NIndex - 1)
        /\ Pre(v, 1 + 1) = Pre(v, 1) * NIndex + indexof(v, 1)
    BY <1>1, Areas, Digits DEF Index
  <2>2. 0 * NIndex + indexof(v, 1) = indexof(v, 1) /\ 1 + 1 = 2
    BY <1>1, <2>1
  <2> QED
    BY <2>1, <2>2
<1> QED
  BY <1>2 DEF KT

\* protect writes the new page only.
LEMMA RootedIs ==
  ASSUME NEW m, Memory(m), NEW n \in Pool, kpt \in Pool
  PROVE  /\ Memory(Rooted(m, n))
         /\ \A p \in Pool : p # n => Rooted(m, n)[p] = m[p]
         /\ \A i \in Index : Rooted(m, n)[n][i] = IF i \in KT(2) THEN m[kpt][i] ELSE Absent
<1> DEFINE new == [i \in Index |-> IF i \in KT(2) THEN m[kpt][i] ELSE Absent]
<1>1. Rooted(m, n) = [Zeroed(m, {n}) EXCEPT ![n] = new]
  BY SharedIs DEF Rooted
<1>2. new \in [Index -> Entry] /\ \A i \in Index : new[i] = IF i \in KT(2) THEN m[kpt][i] ELSE Absent
  BY DEF Memory, Absent, Entry, NULL
<1> HIDE DEF new
<1>3. [i \in Index |-> Absent] \in [Index -> Entry]
  BY DEF Absent, Entry, NULL
<1>4. Memory(Zeroed(m, {n})) /\ \A p \in Pool : p # n => Zeroed(m, {n})[p] = m[p]
  BY <1>3 DEF Memory, Zeroed
<1>5. Memory(Rooted(m, n)) /\ Rooted(m, n)[n] = new
  BY <1>1, <1>2, <1>4 DEF Memory
<1>6. \A p \in Pool : p # n => Rooted(m, n)[p] = m[p]
  BY <1>1, <1>4 DEF Memory
<1> QED
  BY <1>2, <1>5, <1>6

\* protect keeps the trees and adds one.
LEMMA ProtectTree ==
  ASSUME NEW R, NEW t, Tree(table, used, t, kpt, R), NEW n \in Pool \ used
  PROVE  Tree(Rooted(table, n), used \cup {n}, Named(t, n), kpt, R \cup {n})
<1> DEFINE w == Rooted(table, n)
           U == used \cup {n}
           g == Named(t, n)
<1>1. /\ Levels \in Nat \ {0} /\ NIndex \in Nat \ {0} /\ used \subseteq Pool /\ kpt \in used
      /\ R \subseteq used \ {kpt} /\ n \notin R \cup {kpt} /\ Memory(table) /\ kpt \in Pool
  BY MmuAssumption DEF Tree, Labels
<1>2. /\ Memory(w) /\ \A p \in used : w[p] = table[p]
      /\ \A i \in Index : w[n][i] = IF i \in KT(2) THEN table[kpt][i] ELSE Absent
  BY <1>1, RootedIs
<1>3. g[n] = <<n, 1, 0>> /\ \A p \in used : g[p] = t[p]
  BY <1>1 DEF Named
<1> HIDE DEF w, g
<1>4. Labels(used, t, kpt, R)
  BY DEF Tree
<1>5. \A p \in used : \A k, x : t[p] # <<n, k, x>>
  BY <1>1, <1>4, LabelOf
<1>6. Labels(U, g, kpt, R \cup {n})
  <2>1. U \subseteq Pool /\ kpt \in U /\ R \cup {n} \subseteq U \ {kpt}
    BY <1>1
  <2>2. ASSUME NEW p \in U
        PROVE  \E r \in (R \cup {n}) \cup {kpt}, k \in 1..Levels, x \in Nat :
                 g[p] = <<r, k, x>> /\ x \in (IF r = kpt THEN KT(k) ELSE UT(k))
    <3>1. CASE p = n
      <4>1. 1 \in 1..Levels /\ 0 \in UT(1) /\ 0 \in Nat /\ n # kpt
        BY <1>1, Split
      <4> QED
        BY <1>3, <3>1, <4>1
    <3>2. CASE p \in used
      <4>1. PICK r \in R \cup {kpt}, k \in 1..Levels, x \in Nat :
              t[p] = <<r, k, x>> /\ x \in (IF r = kpt THEN KT(k) ELSE UT(k))
        BY <1>4, <3>2 DEF Labels
      <4> QED
        BY <1>3, <3>2, <4>1
    <3> QED
      BY <3>1, <3>2
  <2>3. ASSUME NEW p \in U, NEW q \in U, g[p] = g[q] PROVE p = q
    <3>1. CASE p \in used /\ q \in used
      BY <1>3, <1>4, <2>3, <3>1 DEF Labels
    <3>2. \A o \in used : g[o] # g[n]
      BY <1>3, <1>5
    <3> QED
      BY <2>3, <3>1, <3>2
  <2>4. \A r \in (R \cup {n}) \cup {kpt} : g[r] = <<r, 1, 0>>
    BY <1>1, <1>3, <1>4 DEF Labels
  <2>5. \A k \in 1..Levels : \A x \in KT(k) : \E p \in U : g[p] = <<kpt, k, x>>
    BY <1>3, <1>4 DEF Labels
  <2> QED
    BY <2>1, <2>2, <2>3, <2>4, <2>5 DEF Labels
<1>7. Parents(w, U, g)
  <2> SUFFICES ASSUME NEW p \in U, NEW k \in 1..(Levels - 1), NEW o, NEW x, g[p] = <<o, k + 1, x>>
               PROVE  HasParent(w, U, g, p, o, k, x)
    BY DEF Parents
  <2>1. p \in used
    <3>1. k + 1 # 1
      BY <1>1
    <3> QED
      BY <1>3, <3>1
  <2>2. HasParent(table, used, t, p, o, k, x)
    BY <1>3, <2>1 DEF Tree, Parents
  <2> QED
    BY <1>2, <1>3, <2>2 DEF HasParent
<1>8. Entries(w, U, g, kpt)
  <2> SUFFICES ASSUME NEW p \in U, NEW i \in Index, NEW k \in 1..Levels, NEW x \in Nat, NEW o,
                      g[p] = <<o, k, x>>
               PROVE  EntryOK(w[p][i], U, g, kpt, o, k, x * NIndex + i)
    BY DEF Entries
  <2>1. CASE p \in used
    <3>1. EntryOK(table[p][i], used, t, kpt, o, k, x * NIndex + i)
      BY <1>3, <2>1, EntryAt
    <3>2. EntryOK(table[p][i], U, g, kpt, o, k, x * NIndex + i)
      BY <1>3, <3>1, EntryStays
    <3> QED
      BY <1>2, <2>1, <3>2
  <2>2. CASE p = n
    <3>1. o = n /\ k = 1 /\ x = 0 /\ x * NIndex + i = i /\ 1 \in 1..Levels
      <4>1. o = n /\ k = 1 /\ x = 0
        BY <1>3, <2>2
      <4>2. 0 * NIndex + i = i
        BY <1>1 DEF Index
      <4> QED
        BY <1>1, <4>1, <4>2
    <3>2. CASE i \in KT(2)
      <4>1. t[kpt] = <<kpt, 1, 0>> /\ 0 \in Nat
        BY <1>4 DEF Labels
      <4>2. EntryOK(table[kpt][i], used, t, kpt, kpt, 1, 0 * NIndex + i)
        BY <1>1, <3>1, <4>1, EntryAt
      <4>3. EntryOK(table[kpt][i], U, g, kpt, kpt, 1, i)
        BY <1>3, <3>1, <4>2, EntryStays
      <4>4. 1 + 1 = 2
        OBVIOUS
      <4>5. EntryOK(table[kpt][i], U, g, kpt, n, 1, i)
        BY <3>2, <4>3, <4>4 DEF EntryOK
      <4> QED
        BY <1>2, <2>2, <3>1, <3>2, <4>5
    <3>3. CASE i \notin KT(2)
      <4>1. w[n][i] = Absent /\ 1 + 1 = 2
        BY <1>2, <3>3
      <4>2. EntryOK(Absent, U, g, kpt, n, 1, i)
        BY <3>3, <4>1 DEF EntryOK, Absent
      <4> QED
        BY <2>2, <3>1, <4>1, <4>2
    <3> QED
      BY <3>2, <3>3
  <2> QED
    BY <2>1, <2>2
<1> QED
  BY <1>2, <1>6, <1>7, <1>8 DEF Tree, w, g

\* The new space is empty, and the others look as before.
LEMMA ProtectSeen ==
  ASSUME NEW R, NEW t, Tree(table, used, t, kpt, R), NEW n \in Pool \ used, NEW u \in UserPage
  PROVE  /\ Seen(Rooted(table, n), used \cup {n}, Named(t, n), n, u) = {}
         /\ \A o \in R : Seen(Rooted(table, n), used \cup {n}, Named(t, n), o, u)
                           = Seen(table, used, t, o, u)
<1> DEFINE w == Rooted(table, n)
           U == used \cup {n}
           g == Named(t, n)
           i == indexof(u, Levels)
<1>1. /\ Levels \in Nat \ {0} /\ NIndex \in Nat \ {0} /\ used \subseteq Pool /\ kpt \in used
      /\ R \subseteq used \ {kpt} /\ n \notin R \cup {kpt} /\ Memory(table) /\ kpt \in Pool
      /\ Labels(used, t, kpt, R)
  BY MmuAssumption DEF Tree, Labels
<1>2. /\ \A p \in used : w[p] = table[p]
      /\ \A j \in Index : w[n][j] = IF j \in KT(2) THEN table[kpt][j] ELSE Absent
  BY <1>1, RootedIs
<1>3. g[n] = <<n, 1, 0>> /\ \A p \in used : g[p] = t[p]
  BY <1>1 DEF Named
<1>4. \A p \in used : \A k, x : t[p] # <<n, k, x>>
  BY <1>1, LabelOf
<1> HIDE DEF w, g
<1>5. Lasts(w, U, g, n, u) = {}
  <2> SUFFICES ASSUME NEW p \in Lasts(w, U, g, n, u) PROVE FALSE
    OBVIOUS
  <2>1. p \in U /\ g[p] = <<n, Levels, Pre(u, Levels)>> /\ "P" \in w[p][i].flags
    BY DEF Lasts
  <2>2. p = n
    BY <1>3, <1>4, <2>1
  <2>3. Levels = 1 /\ Pre(u, Levels) = 0
    BY <1>3, <2>1, <2>2
  <2>4. /\ 1 \in 1..Levels /\ indexof(u, 1) \in Index
        /\ Pre(u, 1 + 1) = Pre(u, 1) * NIndex + indexof(u, 1) /\ Pre(u, 1 + 1) \notin KT(1 + 1)
    BY <1>1, UserDigits
  <2>5. 1 + 1 = 2 /\ 0 * NIndex + indexof(u, 1) = indexof(u, 1)
    BY <1>1, <2>4 DEF Index
  <2>6. indexof(u, 1) \notin KT(2)
    BY <2>3, <2>4, <2>5
  <2>7. w[n][i] = Absent
    BY <1>2, <2>3, <2>4, <2>6
  <2> QED
    BY <2>1, <2>2, <2>7 DEF Absent
<1>6. Seen(w, U, g, n, u) = {}
  <2>1. Seen(w, U, g, n, u) = {[frame |-> w[p][i].to, write |-> "W" \in w[p][i].flags] : p \in Lasts(w, U, g, n, u)}
    BY Zenon DEF Seen, Lasts
  <2> QED
    BY <1>5, <2>1
<1>7. ASSUME NEW o \in R PROVE Seen(w, U, g, o, u) = Seen(table, used, t, o, u)
  <2>1. \A p : p \in Lasts(w, U, g, o, u) <=> p \in Lasts(table, used, t, o, u)
    BY <1>1, <1>2, <1>3 DEF Lasts
  <2>2. \A p \in Lasts(table, used, t, o, u) : w[p][i] = table[p][i]
    BY <1>2 DEF Lasts
  <2> QED
    BY <2>1, <2>2, SeenSame
<1> QED
  BY <1>6, <1>7 DEF w, g

-----------------------------------------------------------------------------
(* unprotect *)

\* The tables of the tree at r.
OwnPages(t, r) == {p \in used : \E k, x : t[p] = <<r, k, x>>}

\* On each level teardown visits the tables of the space.
LEMMA TornTables ==
  ASSUME NEW R, NEW t, Tree(table, used, t, kpt, R), NEW r \in R, NEW k \in 1..Levels
  PROVE  \A p : p \in Torn(table, r)[k] <=> p \in used /\ \E x : t[p] = <<r, k, x>>
<1> DEFINE F == Torn(table, r)
           Full(j) == \A p : p \in F[j] <=> p \in used /\ \E x : t[p] = <<r, j, x>>
           T == {j \in 1..Levels : Full(j)}
<1>1. Levels \in Nat \ {0} /\ r # kpt /\ r \in used /\ t[r] = <<r, 1, 0>> /\ Labels(used, t, kpt, R)
  BY MmuAssumption DEF Tree, Labels
<1>2. F[1] = {r}
  BY TornIs
<1>3. \A j \in 1..(Levels - 1) : \A q :
        q \in F[j + 1] <=>
          \E p \in F[j] : \E i \in Index : {"P", "U"} \subseteq table[p][i].flags /\ q = table[p][i].to
  BY TornIs
<1> HIDE DEF F
<1>4. 1 \in T
  <2>1. ASSUME NEW p \in used, NEW x, t[p] = <<r, 1, x>> PROVE p = r
    <3>1. x \in UT(1)
      BY <1>1, <2>1, LabelOf
    <3>2. t[p] = t[r]
      BY <1>1, <2>1, <3>1, Split
    <3> QED
      BY <1>1, <3>2 DEF Labels
  <2>2. 1 \in 1..Levels
    BY <1>1
  <2>3. Full(1)
    BY <1>1, <1>2, <2>1
  <2> QED
    BY <2>2, <2>3
<1>5. ASSUME NEW j \in 1..(Levels - 1), j \in T PROVE j + 1 \in T
  <2>1. j \in 1..Levels /\ j # Levels /\ j + 1 \in 1..Levels
    BY <1>1
  <2>2. Full(j)
    BY <1>5
  <2>3. ASSUME NEW p \in used, NEW x, t[p] = <<r, j, x>>, NEW i \in Index
        PROVE  EntryOK(table[p][i], used, t, kpt, r, j, x * NIndex + i)
    <3>1. x \in Nat
      BY <1>1, <2>3, LabelOf
    <3> QED
      BY <2>1, <2>3, <3>1, EntryAt
  <2>4. ASSUME NEW q \in F[j + 1] PROVE q \in used /\ \E x : t[q] = <<r, j + 1, x>>
    <3>1. PICK p \in F[j], i \in Index : {"P", "U"} \subseteq table[p][i].flags /\ q = table[p][i].to
      BY <1>3, <2>4
    <3>2. p \in used
      BY <2>2
    <3>3. PICK x : t[p] = <<r, j, x>>
      BY <2>2
    <3>4. EntryOK(table[p][i], used, t, kpt, r, j, x * NIndex + i)
      BY <2>3, <3>2, <3>3
    <3> QED
      BY <2>1, <3>1, <3>4 DEF EntryOK
  <2>5. ASSUME NEW q \in used, NEW x, t[q] = <<r, j + 1, x>> PROVE q \in F[j + 1]
    <3>1. HasParent(table, used, t, q, r, j, x)
      BY <2>5 DEF Tree, Parents
    <3>2. PICK p \in used, i \in Index, y \in Nat :
            /\ t[p] = <<r, j, y>> /\ x = y * NIndex + i
            /\ table[p][i].to = q /\ "P" \in table[p][i].flags
      BY <3>1 DEF HasParent
    <3>3. EntryOK(table[p][i], used, t, kpt, r, j, y * NIndex + i)
      BY <2>3, <3>2
    <3>4. t[q] # <<kpt, j + 1, y * NIndex + i>>
      BY <1>1, <2>5
    <3>5. {"P", "U"} \subseteq table[p][i].flags
      BY <2>1, <3>2, <3>3, <3>4 DEF EntryOK
    <3>6. p \in F[j]
      BY <2>2, <3>2
    <3> QED
      BY <1>3, <3>2, <3>5, <3>6
  <2>6. Full(j + 1)
    BY <2>4, <2>5
  <2> HIDE DEF Full
  <2> QED
    BY <2>1, <2>6
<1> HIDE DEF T
<1>6. k \in T
  BY <1>1, <1>4, <1>5, Ladder
<1> QED
  BY <1>6 DEF T, F

\* What teardown gives back is the tables of the space, all of them and no other.
LEMMA TeardownIs ==
  ASSUME NEW R, NEW t, Tree(table, used, t, kpt, R), NEW r \in R
  PROVE  teardown(table, r) = OwnPages(t, r)
<1>1. \A k \in 1..Levels : \A p : p \in Torn(table, r)[k] <=> p \in used /\ \E x : t[p] = <<r, k, x>>
  BY TornTables
<1>2. \A p \in used : \A k, x : t[p] = <<r, k, x>> => k \in 1..Levels
  BY LabelOf DEF Tree
<1>3. \A p : p \in teardown(table, r) <=> \E k \in 1..Levels : p \in Torn(table, r)[k]
  BY DEF teardown
<1>4. \A p : p \in teardown(table, r) <=> p \in OwnPages(t, r)
  BY <1>1, <1>2, <1>3 DEF OwnPages
<1> QED
  BY <1>4

\* The memory after unprotect.
Dropped(m, D) == [p \in Pool |-> IF p \in D THEN [i \in Index |-> Leftover] ELSE m[p]]

\* unprotect writes the pages it gives back only.
LEMMA DroppedIs ==
  ASSUME NEW m, Memory(m), NEW D
  PROVE  Memory(Dropped(m, D)) /\ \A p \in Pool : p \notin D => Dropped(m, D)[p] = m[p]
<1>1. [i \in Index |-> Leftover] \in [Index -> Entry]
  BY DEF Leftover, Entry, NULL
<1> QED
  BY <1>1 DEF Memory, Dropped

\* unprotect keeps the trees of the other spaces and of the kernel.
LEMMA UnprotectTree ==
  ASSUME NEW R, NEW t, Tree(table, used, t, kpt, R), NEW r \in R
  PROVE  Tree(Dropped(table, OwnPages(t, r)), used \ OwnPages(t, r), t, kpt, R \ {r})
<1> DEFINE D == OwnPages(t, r)
           U == used \ D
           w == Dropped(table, D)
<1>1. /\ Levels \in Nat \ {0} /\ used \subseteq Pool /\ kpt \in used /\ r # kpt
      /\ R \subseteq used \ {kpt} /\ Memory(table) /\ Labels(used, t, kpt, R)
  BY MmuAssumption DEF Tree, Labels
<1>2. Memory(w) /\ \A p \in U : w[p] = table[p]
  BY <1>1, DroppedIs
<1>3. ASSUME NEW p \in used, NEW o, NEW k, NEW x, t[p] = <<o, k, x>> PROVE o # r => p \in U
  BY <1>3 DEF OwnPages
<1>4. ASSUME NEW p \in U, NEW o, NEW k, NEW x, t[p] = <<o, k, x>> PROVE o # r
  BY <1>4 DEF OwnPages
<1> HIDE DEF D, w
<1>5. U \subseteq used
  OBVIOUS
<1> HIDE DEF U
<1>6. Labels(U, t, kpt, R \ {r})
  <2>1. \A o \in R \cup {kpt} : t[o] = <<o, 1, 0>>
    BY <1>1 DEF Labels
  <2>2. U \subseteq Pool /\ kpt \in U /\ R \ {r} \subseteq U \ {kpt}
    BY <1>1, <1>3, <1>5, <2>1
  <2>3. ASSUME NEW p \in U
        PROVE  \E o \in (R \ {r}) \cup {kpt}, k \in 1..Levels, x \in Nat :
                 t[p] = <<o, k, x>> /\ x \in (IF o = kpt THEN KT(k) ELSE UT(k))
    <3>1. PICK o \in R \cup {kpt}, k \in 1..Levels, x \in Nat :
            t[p] = <<o, k, x>> /\ x \in (IF o = kpt THEN KT(k) ELSE UT(k))
      BY <1>1, <1>5 DEF Labels
    <3>2. o # r
      BY <1>4, <3>1
    <3> QED
      BY <3>1, <3>2
  <2>4. \A p, q \in U : t[p] = t[q] => p = q
    BY <1>1, <1>5 DEF Labels
  <2>5. ASSUME NEW k \in 1..Levels, NEW x \in KT(k) PROVE \E p \in U : t[p] = <<kpt, k, x>>
    <3>1. PICK p \in used : t[p] = <<kpt, k, x>>
      BY <1>1 DEF Labels
    <3> QED
      BY <1>1, <1>3, <3>1
  <2> QED
    BY <2>1, <2>2, <2>3, <2>4, <2>5 DEF Labels
<1>7. Parents(w, U, t)
  <2> SUFFICES ASSUME NEW p \in U, NEW k \in 1..(Levels - 1), NEW o, NEW x, t[p] = <<o, k + 1, x>>
               PROVE  HasParent(w, U, t, p, o, k, x)
    BY DEF Parents
  <2>1. HasParent(table, used, t, p, o, k, x)
    BY <1>5 DEF Tree, Parents
  <2>2. PICK q \in used, i \in Index, y \in Nat :
          /\ t[q] = <<o, k, y>> /\ x = y * NIndex + i
          /\ table[q][i].to = p /\ "P" \in table[q][i].flags
    BY <2>1 DEF HasParent
  <2>3. q \in U
    BY <1>3, <1>4, <2>2
  <2> QED
    BY <1>2, <2>2, <2>3 DEF HasParent
<1>8. Entries(w, U, t, kpt)
  <2> SUFFICES ASSUME NEW p \in U, NEW i \in Index, NEW k \in 1..Levels, NEW x \in Nat, NEW o,
                      t[p] = <<o, k, x>>
               PROVE  EntryOK(w[p][i], U, t, kpt, o, k, x * NIndex + i)
    BY DEF Entries
  <2>1. PICK y : y = x * NIndex + i
    OBVIOUS
  <2>2. EntryOK(table[p][i], used, t, kpt, o, k, y)
    BY <1>5, <2>1, EntryAt
  <2>3. \A q \in used : \A a, b : t[q] = <<kpt, a, b>> \/ t[q] = <<o, a, b>> => q \in U
    BY <1>1, <1>3, <1>4
  <2>4. EntryOK(table[p][i], U, t, kpt, o, k, y)
    BY <2>2, <2>3 DEF EntryOK
  <2> QED
    BY <1>2, <2>1, <2>4
<1> QED
  BY <1>2, <1>6, <1>7, <1>8 DEF Tree, w, U, D

\* The other spaces look as before.
LEMMA UnprotectSeen ==
  ASSUME NEW R, NEW t, Tree(table, used, t, kpt, R), NEW r \in R, NEW o \in R \ {r}, NEW u \in UserPage
  PROVE  Seen(Dropped(table, OwnPages(t, r)), used \ OwnPages(t, r), t, o, u) = Seen(table, used, t, o, u)
<1> DEFINE D == OwnPages(t, r)
           U == used \ D
           w == Dropped(table, D)
           i == indexof(u, Levels)
<1>1. used \subseteq Pool /\ Memory(table)
  BY DEF Tree, Labels
<1>2. \A p \in U : w[p] = table[p]
  BY <1>1, DroppedIs
<1>3. \A p \in used : \A k, x : t[p] = <<o, k, x>> => p \in U
  BY DEF OwnPages
<1>4. U \subseteq used
  OBVIOUS
<1> HIDE DEF D, w, U
<1>5. \A p : p \in Lasts(w, U, t, o, u) <=> p \in Lasts(table, used, t, o, u)
  BY <1>2, <1>3, <1>4 DEF Lasts
<1>6. \A p \in Lasts(table, used, t, o, u) : w[p][i] = table[p][i]
  BY <1>2, <1>3 DEF Lasts
<1>7. Seen(w, U, t, o, u) = Seen(table, used, t, o, u)
  BY <1>5, <1>6, SeenSame
<1> QED
  BY <1>7 DEF w, U, D

-----------------------------------------------------------------------------
(* vme_init *)

\* The tables of the kernel, by level and leading digits.
LEMMA KernelTableIs ==
  /\ \A k, y : <<k, y>> \in KernelTable <=> k \in 1..Levels /\ y \in KT(k)
  /\ \A x \in KernelTable : /\ x = <<x[1], x[2]>> /\ x[1] \in 1..Levels
                            /\ x[2] \in Nat /\ x[2] \in KT(x[1])
  /\ IsFiniteSet(KernelTable)
<1>1. Levels \in Nat \ {0} /\ Reach(0) \in Nat \ {0}
  BY MmuAssumption, Bounds
<1>2. KernelTable = {<<k, Pre(v, k)>> : k \in 1..Levels, v \in KernelPage}
  BY DEF KernelTable, Pre
<1>3. ASSUME NEW k \in 1..Levels, NEW v \in KernelPage PROVE Pre(v, k) \in 0..(Reach(0) - 1)
  <2>1. PICK r \in Nat \ {0}, n \in Nat : r = Reach(k - 1) /\ n = v /\ n < Reach(0)
    <3>1. k - 1 \in 0..Levels
      BY <1>1
    <3>2. v \in Nat /\ v < Reach(0)
      BY <1>1, Areas DEF Page
    <3> QED
      BY <3>1, <3>2, Spans
  <2>2. n \div r \in Nat /\ n \div r <= n
    OBVIOUS
  <2>3. Pre(v, k) = n \div r
    BY <2>1 DEF Pre
  <2> QED
    BY <1>1, <2>1, <2>2, <2>3
<1>4. \A k, y : <<k, y>> \in KernelTable <=> k \in 1..Levels /\ y \in KT(k)
  BY <1>2 DEF KT
<1>5. ASSUME NEW x \in KernelTable
      PROVE  /\ x = <<x[1], x[2]>> /\ x[1] \in 1..Levels /\ x[2] \in KT(x[1])
             /\ x[2] \in 0..(Reach(0) - 1)
  <2>1. PICK k \in 1..Levels, v \in KernelPage : x = <<k, Pre(v, k)>>
    BY <1>2
  <2>2. x[1] = k /\ x[2] = Pre(v, k)
    BY <2>1
  <2> QED
    BY <1>3, <2>1, <2>2 DEF KT
<1>6. IsFiniteSet(KernelTable)
  <2>1. IsFiniteSet(1..Levels) /\ IsFiniteSet(0..(Reach(0) - 1))
    BY <1>1, FS_Interval
  <2>2. IsFiniteSet((1..Levels) \X (0..(Reach(0) - 1)))
    BY <2>1, FS_Product
  <2>3. KernelTable \in SUBSET ((1..Levels) \X (0..(Reach(0) - 1)))
    BY <1>5
  <2> QED
    BY <2>2, <2>3, FS_Subset
<1>7. \A x \in KernelTable : x[2] \in Nat
  BY <1>1, <1>5
<1> QED
  BY <1>4, <1>5, <1>6, <1>7

\* The tables up to x, level by level, and how many they are.
Upto(x) == {y \in KernelTable : y[1] < x[1] \/ (y[1] = x[1] /\ y[2] <= x[2])}
Rank(x) == Cardinality(Upto(x))

\* No two tables of the kernel have the same rank.
LEMMA RankIs ==
  ASSUME NEW x \in KernelTable
  PROVE  /\ Rank(x) \in 1..Cardinality(KernelTable)
         /\ \A y \in KernelTable : Rank(x) = Rank(y) => x = y
<1>1. \A y \in KernelTable : y = <<y[1], y[2]>> /\ y[1] \in Int /\ y[2] \in Int
  BY KernelTableIs, MmuAssumption
<1>2. \A y : Upto(y) \in SUBSET KernelTable
  BY DEF Upto
<1>3. \A y : IsFiniteSet(Upto(y)) /\ Rank(y) \in Nat /\ Rank(y) <= Cardinality(KernelTable)
  BY <1>2, KernelTableIs, FS_Subset, FS_CardinalityType DEF Rank
<1>4. \A y \in KernelTable : y \in Upto(y)
  BY <1>1 DEF Upto
<1>5. Rank(x) # 0
  BY <1>3, <1>4, FS_EmptySet DEF Rank
<1>6. ASSUME NEW y \in KernelTable, NEW z \in KernelTable, Rank(y) = Rank(z),
             y[1] < z[1] \/ (y[1] = z[1] /\ y[2] <= z[2])
      PROVE  y = z
  <2>1. Upto(y) \subseteq Upto(z)
    BY <1>1, <1>6 DEF Upto
  <2>2. Upto(y) = Upto(z)
    BY <1>3, <1>6, <2>1, FS_Subset DEF Rank
  <2>3. z \in Upto(y)
    BY <1>4, <2>2
  <2>4. y[1] = z[1] /\ y[2] = z[2]
    BY <1>1, <1>6, <2>3 DEF Upto
  <2> QED
    BY <1>1, <2>4
<1>7. ASSUME NEW y \in KernelTable, Rank(x) = Rank(y) PROVE x = y
  <2>1. \/ x[1] < y[1] \/ (x[1] = y[1] /\ x[2] <= y[2])
        \/ y[1] < x[1] \/ (y[1] = x[1] /\ y[2] <= x[2])
    BY <1>1
  <2> QED
    BY <1>6, <1>7, <2>1
<1>8. Cardinality(KernelTable) \in Nat
  BY KernelTableIs, FS_CardinalityType
<1> QED
  BY <1>3, <1>5, <1>7, <1>8

\* vme_init puts every table of the kernel in a page of its own.
LEMMA TableAtIs ==
  ASSUME used = {}, NEW x \in KernelTable
  PROVE  /\ TableAt(x) \in Pool
         /\ \A y \in KernelTable : TableAt(x) = TableAt(y) => x = y
<1>1. \A y : TableAt(y) = NewPage(Rank(y))
  BY DEF TableAt, Rank, Upto
<1>2. IsFiniteSet(Pool) /\ Cardinality(Pool) \in Nat /\ Cardinality(KernelTable) \in Nat /\ Pool \ used = Pool
  BY AreaAssumption, KernelTableIs, FS_CardinalityType
<1>3. \A y \in KernelTable : Rank(y) \in Nat \ {0} /\ HasFree(Rank(y))
  BY <1>2, RankIs, PoolAssumption DEF HasFree
<1>4. used \subseteq Pool
  OBVIOUS
<1>5. TableAt(x) \in Pool
  BY <1>1, <1>3, <1>4, NewPageIs
<1>6. ASSUME NEW y \in KernelTable, TableAt(x) = TableAt(y) PROVE x = y
  <2>1. Rank(x) = Rank(y)
    BY <1>1, <1>3, <1>4, <1>6, NewPagesDiffer
  <2> QED
    BY <2>1, RankIs
<1> QED
  BY <1>5, <1>6

\* The memory after vme_init, the pages in use and their labels.
Booted(m) ==
  [p \in Pool |->
     IF \E x \in KernelTable : TableAt(x) = p
       THEN [i \in Index |-> KernelEntry(CHOOSE x \in KernelTable : TableAt(x) = p, i)]
       ELSE m[p]]

KernelPages == {TableAt(x) : x \in KernelTable}

KernelLabels ==
  [p \in Pool |-> LET x == CHOOSE y \in KernelTable : TableAt(y) = p
                  IN  <<TableAt(<<1, 0>>), x[1], x[2]>>]

\* An entry of a table of the kernel: a page, the next table or nothing.
LEMMA KernelEntryIs ==
  ASSUME used = {}, NEW k \in 1..Levels, NEW y \in Nat, NEW i \in Index, NEW z, z = y * NIndex + i
  PROVE  /\ KernelEntry(<<k, y>>, i) \in Entry
         /\ \/ /\ z \in KT(k + 1) /\ KernelEntry(<<k, y>>, i).flags = {"P", "W"}
               /\ KernelEntry(<<k, y>>, i).to = IF k = Levels THEN z ELSE TableAt(<<k + 1, z>>)
            \/ z \notin KT(k + 1) /\ KernelEntry(<<k, y>>, i) = Absent
         /\ k # Levels /\ z \in KT(k + 1) => <<k + 1, z>> \in KernelTable
<1>1. Levels \in Nat \ {0} /\ NIndex \in Nat \ {0} /\ z \in Nat
  BY MmuAssumption DEF Index
<1>2. KT(Levels + 1) = KernelPage
  BY Split
<1>3. \A j, u : <<j, u>> \in KernelTable <=> j \in 1..Levels /\ u \in KT(j)
  BY KernelTableIs
<1>4. k # Levels => k + 1 \in 1..Levels
  BY <1>1
<1>5. ~(Levels + 1 \in 1..Levels)
  BY <1>1
<1>6. KernelEntry(<<k, y>>, i) =
        IF k = Levels /\ z \in KernelPage THEN [to |-> z, flags |-> {"P", "W"}]
        ELSE IF <<k + 1, z>> \in KernelTable THEN [to |-> TableAt(<<k + 1, z>>), flags |-> {"P", "W"}]
        ELSE Absent
  BY DEF KernelEntry
<1>7. \A u : <<k + 1, u>> \in KernelTable => TableAt(<<k + 1, u>>) \in Nat
  BY TableAtIs, AreaAssumption
<1>8. CASE k = Levels
  <2>1. CASE z \in KernelPage
    <3>1. KernelEntry(<<k, y>>, i) = [to |-> z, flags |-> {"P", "W"}]
      BY <1>6, <1>8, <2>1
    <3> QED
      BY <1>1, <1>2, <1>8, <2>1, <3>1 DEF Entry
  <2>2. CASE z \notin KernelPage
    <3>1. KernelEntry(<<k, y>>, i) = Absent
      BY <1>3, <1>5, <1>6, <1>8, <2>2
    <3> QED
      BY <1>2, <1>8, <2>2, <3>1 DEF Entry, Absent, NULL
  <2> QED
    BY <2>1, <2>2
<1>9. CASE k # Levels
  <2>1. <<k + 1, z>> \in KernelTable <=> z \in KT(k + 1)
    BY <1>3, <1>4, <1>9
  <2>2. CASE z \in KT(k + 1)
    <3>1. KernelEntry(<<k, y>>, i) = [to |-> TableAt(<<k + 1, z>>), flags |-> {"P", "W"}]
      BY <1>6, <1>9, <2>1, <2>2
    <3>2. TableAt(<<k + 1, z>>) \in Nat
      BY <1>7, <2>1, <2>2
    <3> QED
      BY <1>9, <2>1, <2>2, <3>1, <3>2 DEF Entry
  <2>3. CASE z \notin KT(k + 1)
    <3>1. KernelEntry(<<k, y>>, i) = Absent
      BY <1>6, <1>9, <2>1, <2>3
    <3> QED
      BY <2>3, <3>1 DEF Entry, Absent, NULL
  <2> QED
    BY <2>2, <2>3
<1> QED
  BY <1>8, <1>9

\* vme_init builds the kernel's tree.
LEMMA InitTree ==
  ASSUME used = {}, Memory(table)
  PROVE  Tree(Booted(table), KernelPages, KernelLabels, TableAt(<<1, 0>>), {})
<1> DEFINE w == Booted(table)
           U == KernelPages
           g == KernelLabels
           kr == TableAt(<<1, 0>>)
<1>1. Levels \in Nat \ {0} /\ NIndex \in Nat \ {0} /\ 1 \in 1..Levels
  BY MmuAssumption
<1>2. ASSUME NEW x \in KernelTable
      PROVE  /\ TableAt(x) \in U /\ TableAt(x) \in Pool
             /\ g[TableAt(x)] = <<kr, x[1], x[2]>>
             /\ w[TableAt(x)] = [i \in Index |-> KernelEntry(x, i)]
  <2>1. TableAt(x) \in Pool /\ \A y \in KernelTable : TableAt(y) = TableAt(x) => y = x
    BY TableAtIs
  <2>2. (CHOOSE y \in KernelTable : TableAt(y) = TableAt(x)) = x
    BY <2>1
  <2>3. g[TableAt(x)] = <<kr, x[1], x[2]>>
    BY <2>1, <2>2 DEF KernelLabels
  <2>4. w[TableAt(x)] = [i \in Index |-> KernelEntry(CHOOSE y \in KernelTable : TableAt(y) = TableAt(x), i)]
    BY <2>1 DEF Booted
  <2>5. w[TableAt(x)] = [i \in Index |-> KernelEntry(x, i)]
    BY <2>2, <2>4
  <2> QED
    BY <2>1, <2>3, <2>5 DEF KernelPages
<1>3. /\ \A k, y : <<k, y>> \in KernelTable <=> k \in 1..Levels /\ y \in KT(k)
      /\ \A x \in KernelTable : /\ x = <<x[1], x[2]>> /\ x[1] \in 1..Levels
                                /\ x[2] \in Nat /\ x[2] \in KT(x[1])
  BY KernelTableIs
<1>4. \A p \in U : \E x \in KernelTable : p = TableAt(x)
  BY DEF KernelPages
<1>5. ASSUME NEW p \in Pool, ~\E x \in KernelTable : TableAt(x) = p PROVE w[p] = table[p]
  BY <1>5 DEF Booted
<1>6. DOMAIN w = Pool /\ w = [p \in Pool |-> w[p]]
  BY DEF Booted
<1> HIDE DEF w, U, g
<1>7. \A x \in KernelTable, i \in Index : w[TableAt(x)][i] = KernelEntry(x, i)
  BY <1>2
<1>8. ASSUME NEW p \in U
      PROVE  \E k \in 1..Levels, y \in Nat :
               /\ <<k, y>> \in KernelTable /\ y \in KT(k) /\ p = TableAt(<<k, y>>)
               /\ g[p] = <<kr, k, y>>
  <2>1. PICK x \in KernelTable : p = TableAt(x)
    BY <1>4
  <2>2. x = <<x[1], x[2]>> /\ x[1] \in 1..Levels /\ x[2] \in Nat /\ x[2] \in KT(x[1])
    BY <1>3
  <2>3. <<x[1], x[2]>> \in KernelTable /\ p = TableAt(<<x[1], x[2]>>)
    BY <2>1, <2>2
  <2>4. g[p] = <<kr, x[1], x[2]>>
    BY <1>2, <2>1
  <2> QED
    BY <2>2, <2>3, <2>4
<1>9. Memory(w)
  <2>1. ASSUME NEW p \in Pool PROVE w[p] \in [Index -> Entry]
    <3>1. CASE \E x \in KernelTable : TableAt(x) = p
      <4>1. PICK x \in KernelTable : p = TableAt(x)
        BY <3>1
      <4>2. PICK k \in 1..Levels, y \in Nat : x = <<k, y>>
        BY <1>3
      <4>3. \A i \in Index : KernelEntry(<<k, y>>, i) \in Entry
        BY KernelEntryIs
      <4>4. w[p] = [i \in Index |-> KernelEntry(<<k, y>>, i)]
        BY <1>2, <4>1, <4>2
      <4> QED
        BY <4>3, <4>4
    <3>2. CASE ~\E x \in KernelTable : TableAt(x) = p
      BY <1>5, <3>2 DEF Memory
    <3> QED
      BY <3>1, <3>2
  <2> QED
    BY <1>6, <2>1 DEF Memory
<1> HIDE DEF kr
<1>10. <<1, 0>> \in KernelTable
  BY <1>1, <1>3, Split
<1>11. Labels(U, g, kr, {})
  <2>1. U \subseteq Pool /\ kr \in U /\ g[kr] = <<kr, 1, 0>>
    <3>1. <<1, 0>>[1] = 1 /\ <<1, 0>>[2] = 0
      OBVIOUS
    <3> QED
      BY <1>2, <1>4, <1>10, <3>1 DEF kr
  <2>2. ASSUME NEW p \in U
        PROVE  \E o \in {} \cup {kr}, k \in 1..Levels, x \in Nat :
                 g[p] = <<o, k, x>> /\ x \in (IF o = kr THEN KT(k) ELSE UT(k))
    BY <1>8
  <2>3. ASSUME NEW p \in U, NEW q \in U, g[p] = g[q] PROVE p = q
    <3>1. PICK k \in 1..Levels, y \in Nat : p = TableAt(<<k, y>>) /\ g[p] = <<kr, k, y>>
      BY <1>8
    <3>2. PICK j \in 1..Levels, z \in Nat : q = TableAt(<<j, z>>) /\ g[q] = <<kr, j, z>>
      BY <1>8
    <3>3. k = j /\ y = z
      BY <2>3, <3>1, <3>2
    <3> QED
      BY <3>1, <3>2, <3>3
  <2>4. ASSUME NEW k \in 1..Levels, NEW y \in KT(k) PROVE \E p \in U : g[p] = <<kr, k, y>>
    <3>1. <<k, y>> \in KernelTable /\ <<k, y>>[1] = k /\ <<k, y>>[2] = y
      BY <1>3
    <3> QED
      BY <1>2, <3>1 DEF kr
  <2> QED
    BY <2>1, <2>2, <2>3, <2>4 DEF Labels
<1>12. Parents(w, U, g)
  <2> SUFFICES ASSUME NEW p \in U, NEW k \in 1..(Levels - 1), NEW o, NEW x, g[p] = <<o, k + 1, x>>
               PROVE  HasParent(w, U, g, p, o, k, x)
    BY DEF Parents
  <2>1. k \in 1..Levels /\ k # Levels
    BY <1>1
  <2>2. o = kr /\ x \in KT(k + 1) /\ p = TableAt(<<k + 1, x>>)
    <3>1. PICK j \in 1..Levels, y \in Nat : y \in KT(j) /\ p = TableAt(<<j, y>>) /\ g[p] = <<kr, j, y>>
      BY <1>8
    <3>2. j = k + 1 /\ y = x /\ o = kr
      BY <3>1
    <3> QED
      BY <3>1, <3>2
  <2>3. PICK v \in KernelPage : x = Pre(v, k + 1)
    BY <2>2 DEF KT
  <2>4. v \in Page
    BY Areas
  <2>5. PICK y \in Nat, i \in Index : y = Pre(v, k) /\ x = y * NIndex + i
    <3>1. k \in 1..(Levels + 1)
      BY <1>1, <2>1
    <3> QED
      BY <2>1, <2>3, <2>4, <3>1, Digits
  <2>6. <<k, y>> \in KernelTable /\ <<k, y>>[1] = k /\ <<k, y>>[2] = y
    BY <1>3, <2>1, <2>5 DEF KT
  <2>7. KernelEntry(<<k, y>>, i).flags = {"P", "W"} /\ KernelEntry(<<k, y>>, i).to = TableAt(<<k + 1, x>>)
    BY <2>1, <2>2, <2>5, KernelEntryIs
  <2>8. w[TableAt(<<k, y>>)][i] = KernelEntry(<<k, y>>, i)
    BY <1>7, <2>6
  <2>9. TableAt(<<k, y>>) \in U /\ g[TableAt(<<k, y>>)] = <<kr, k, y>>
    BY <1>2, <2>6 DEF kr
  <2> QED
    BY <2>2, <2>5, <2>7, <2>8, <2>9 DEF HasParent
<1>13. Entries(w, U, g, kr)
  <2> SUFFICES ASSUME NEW p \in U, NEW i \in Index, NEW k \in 1..Levels, NEW x \in Nat, NEW o,
                      g[p] = <<o, k, x>>
               PROVE  EntryOK(w[p][i], U, g, kr, o, k, x * NIndex + i)
    BY DEF Entries
  <2>1. o = kr /\ <<k, x>> \in KernelTable /\ p = TableAt(<<k, x>>)
    <3>1. PICK j \in 1..Levels, y \in Nat :
            <<j, y>> \in KernelTable /\ p = TableAt(<<j, y>>) /\ g[p] = <<kr, j, y>>
      BY <1>8
    <3>2. j = k /\ y = x /\ o = kr
      BY <3>1
    <3> QED
      BY <3>1, <3>2
  <2>2. PICK z : z = x * NIndex + i
    OBVIOUS
  <2>3. PICK e : e = KernelEntry(<<k, x>>, i)
    OBVIOUS
  <2>4. w[p][i] = e
    BY <1>7, <2>1, <2>3
  <2>5. /\ \/ /\ z \in KT(k + 1) /\ e.flags = {"P", "W"}
              /\ e.to = IF k = Levels THEN z ELSE TableAt(<<k + 1, z>>)
           \/ z \notin KT(k + 1) /\ e = Absent
        /\ k # Levels /\ z \in KT(k + 1) => <<k + 1, z>> \in KernelTable
    BY <2>2, <2>3, KernelEntryIs
  <2>6. k # Levels /\ z \in KT(k + 1) =>
          TableAt(<<k + 1, z>>) \in U /\ g[TableAt(<<k + 1, z>>)] = <<kr, k + 1, z>>
    BY <1>2, <2>5 DEF kr
  <2>7. EntryOK(e, U, g, kr, kr, k, z)
    BY <2>5, <2>6 DEF EntryOK, Absent
  <2> QED
    BY <2>1, <2>2, <2>4, <2>7
<1> QED
  BY <1>9, <1>11, <1>12, <1>13 DEF Tree, w, U, g, kr

-----------------------------------------------------------------------------
(* The steps *)

\* The roots of the address spaces.
Roots == {root[s] : s \in Space} \ {NULL}

\* The pages in use are the tables of the kernel's tree and of one tree per space.
Inv ==
  /\ Memory(table) /\ panicked \in BOOLEAN
  /\ root \in [Space -> Nat]
  /\ \A s, o \in Space : root[s] = root[o] /\ root[s] # NULL => s = o
  /\ kpt = NULL => used = {} /\ Roots = {}
  /\ kpt # NULL => \E t : Tree(table, used, t, kpt, Roots)

\* A table shows of a page what its entry for it shows.
LEMMA LastShows ==
  ASSUME NEW m, NEW U, NEW t, NEW kr, NEW R, Labels(U, t, kr, R), NEW r, NEW v, NEW q,
         LastTable(q, U, t, r, v)
  PROVE  Seen(m, U, t, r, v) = Shows(m[q][indexof(v, Levels)])
<1> DEFINE i == indexof(v, Levels)
           e == m[q][i]
<1>1. q \in U /\ t[q] = <<r, Levels, Pre(v, Levels)>> /\ \A p \in U : t[p] = t[q] => p = q
  BY DEF Labels, LastTable
<1>2. Seen(m, U, t, r, v) = {[frame |-> m[p][i].to, write |-> "W" \in m[p][i].flags] : p \in Lasts(m, U, t, r, v)}
  BY Zenon DEF Seen, Lasts
<1>3. CASE "P" \in e.flags
  <2>1. \A p : p \in Lasts(m, U, t, r, v) <=> p = q
    BY <1>1, <1>3 DEF Lasts
  <2>2. Lasts(m, U, t, r, v) = {q}
    BY <2>1
  <2>3. Seen(m, U, t, r, v) = {[frame |-> e.to, write |-> "W" \in e.flags]}
    BY <1>2, <2>2
  <2> QED
    BY <1>3, <2>3 DEF Shows
<1>4. CASE "P" \notin e.flags
  <2>1. \A p : p \notin Lasts(m, U, t, r, v)
    BY <1>1, <1>4 DEF Lasts
  <2>2. Lasts(m, U, t, r, v) = {}
    BY <2>1
  <2> QED
    BY <1>2, <1>4, <2>2 DEF Shows
<1> QED
  BY <1>3, <1>4

\* The walk of map, as a way and the memory after it.
LEMMA WalkedIs ==
  ASSUME NEW s, NEW v \in UserPage, NEW t, Tree(table, used, t, kpt, Roots), root[s] \in Roots,
         HasFree(Needs(s, v)), NEW r, r = root[s], NEW F, F = FullPath(table, r, v),
         NEW M, M = Missing(table, r, v)
  PROVE  /\ Way(F, M, r, v, t)
         /\ Walked(s, v) = Walk(table, F, M, v)
         /\ used \cup NewPages(Needs(s, v)) = Kept(F, M)
         /\ LastTable(F[Levels], Kept(F, M), Grown(t, F, M, r, v), r, v)
<1>1. Way(F, M, r, v, t) /\ NewPages(Needs(s, v)) = {F[k] : k \in M}
  BY FullPathIs DEF Needs
<1>2. Walked(s, v) = Walk(table, F, M, v)
  <2>1. Walked(s, v) = ptwalk(table, r, v, {"W", "U"})
    BY DEF Walked
  <2>2. ptwalk(table, r, v, {"W", "U"}) = Walk(table, FullPath(table, r, v), Missing(table, r, v), v)
    BY Zenon DEF ptwalk, Walk
  <2> QED
    BY <2>1, <2>2
<1>3. Levels \in 1..Levels /\ used \subseteq Pool
  BY MmuAssumption DEF Tree, Labels
<1>4. LastTable(F[Levels], Kept(F, M), Grown(t, F, M, r, v), r, v)
  BY <1>1, <1>3, GrownIs DEF LastTable
<1> QED
  BY <1>1, <1>2, <1>4 DEF Kept

\* A step keeps the trees, with labels t2 for t, and does not write a table of the
\* kernel.
Evolves(t, t2) ==
  /\ Tree(table', used', t2, kpt, Roots')
  /\ \A p \in used : \A k, x : t[p] = <<kpt, k, x>> => p \in used' /\ table'[p] = table[p]

\* The spaces look as before, but for page v of space s, of which X is seen.
Sees(t, t2, s, v, X) ==
  /\ Seen(table', used', t2, root[s], v) = X
  /\ \A o \in Space, u \in UserPage :
       root[o] # NULL /\ (o # s \/ u # v) =>
         Seen(table', used', t2, root[o], u) = Seen(table, used, t, root[o], u)

\* The walk of map or of a panic.
LEMMA WalkStep ==
  ASSUME Inv, NEW s \in Space, root[s] # NULL, NEW v \in UserPage, HasFree(Needs(s, v)),
         NEW t, Tree(table, used, t, kpt, Roots),
         table' = Walked(s, v), used' = used \cup NewPages(Needs(s, v)), UNCHANGED <<kpt, root>>
  PROVE  \E t2 : Evolves(t, t2) /\ Sees(t, t2, s, v, Seen(table, used, t, root[s], v))
<1>1. PICK r, F, M, R : r = root[s] /\ F = FullPath(table, r, v) /\ M = Missing(table, r, v) /\ R = Roots
  OBVIOUS
<1>2. r \in R /\ r # kpt /\ R = Roots' /\ Tree(table, used, t, kpt, R)
  BY <1>1 DEF Roots, Tree, Labels
<1>3. Way(F, M, r, v, t) /\ table' = Walk(table, F, M, v) /\ used' = Kept(F, M)
  BY <1>1, <1>2, WalkedIs
<1> DEFINE g == Grown(t, F, M, r, v)
<1>4. Tree(table', used', g, kpt, R)
  BY <1>2, <1>3, WalkTree
<1>5. ASSUME NEW p \in used, NEW k, NEW x, t[p] = <<kpt, k, x>> PROVE p \in used' /\ table'[p] = table[p]
  BY <1>2, <1>3, <1>5, WalkElsewhere DEF Kept
<1>6. \A o : \A u \in UserPage : Seen(table', used', g, o, u) = Seen(table, used, t, o, u)
  BY <1>2, <1>3, WalkSeen
<1> HIDE DEF g
<1>7. Evolves(t, g)
  BY <1>2, <1>4, <1>5 DEF Evolves
<1>8. Sees(t, g, s, v, Seen(table, used, t, root[s], v))
  BY <1>6 DEF Sees
<1> QED
  BY <1>7, <1>8

\* The walk and the store of map and unmap.
LEMMA MapStep ==
  ASSUME Inv, NEW s \in Space, root[s] # NULL, NEW v \in UserPage, HasFree(Needs(s, v)),
         NEW t, Tree(table, used, t, kpt, Roots), NEW e, UserEntry(e),
         table' = SetLeaf(Walked(s, v), root[s], v, e), used' = used \cup NewPages(Needs(s, v)),
         UNCHANGED <<kpt, root>>
  PROVE  /\ \E t2 : Evolves(t, t2) /\ Sees(t, t2, s, v, Shows(e))
         /\ Seen(table, used, t, root[s], v) = Shows(Leaf(Walked(s, v), root[s], v))
<1>1. PICK r, F, M, R, w, U, g, q :
        /\ r = root[s] /\ F = FullPath(table, r, v) /\ M = Missing(table, r, v) /\ R = Roots
        /\ w = Walk(table, F, M, v) /\ U = Kept(F, M) /\ g = Grown(t, F, M, r, v) /\ q = F[Levels]
  OBVIOUS
<1>2. r \in R /\ r # kpt /\ R = Roots' /\ Tree(table, used, t, kpt, R) /\ v \in Page
  <2>1. v \in Page
    BY Areas
  <2>2. r \in R /\ R = Roots' /\ Tree(table, used, t, kpt, R)
    BY <1>1 DEF Roots
  <2>3. r # kpt
    BY <2>2 DEF Tree, Labels
  <2> QED
    BY <2>1, <2>2, <2>3
<1>3. Way(F, M, r, v, t) /\ Walked(s, v) = w /\ used' = U /\ LastTable(q, U, g, r, v)
  BY <1>1, <1>2, WalkedIs
<1>4. table' = Store(w, q, v, e)
  BY <1>1, <1>3 DEF SetLeaf, Store
<1>5. Tree(w, U, g, kpt, R)
  BY <1>1, <1>2, <1>3, WalkTree
<1>6. Tree(table', used', g, kpt, R)
  BY <1>2, <1>3, <1>4, <1>5, StoreTree
<1>7. \A o : \A u \in UserPage : Seen(w, U, g, o, u) = Seen(table, used, t, o, u)
  BY <1>1, <1>2, <1>3, WalkSeen
<1>8. /\ Seen(table', used', g, r, v) = Shows(e)
      /\ \A o : \A u \in UserPage : o # r \/ u # v => Seen(table', used', g, o, u) = Seen(w, U, g, o, u)
  <2>1. /\ Seen(Store(w, q, v, e), U, g, r, v) = Shows(e)
        /\ \A o : \A u \in UserPage :
             o # r \/ u # v => Seen(Store(w, q, v, e), U, g, o, u) = Seen(w, U, g, o, u)
    BY ONLY <1>2, <1>3, <1>5, UserEntry(e), v \in UserPage, StoreSeen
  <2> QED
    BY ONLY <1>3, <1>4, <2>1
<1>9. ASSUME NEW p \in used, NEW k, NEW x, t[p] = <<kpt, k, x>> PROVE p \in used' /\ table'[p] = table[p]
  <2>1. p \in U /\ w[p] = table[p]
    <3>1. Walk(table, F, M, v)[p] = table[p]
      BY <1>2, <1>3, <1>9, WalkElsewhere
    <3> QED
      BY <1>1, <3>1 DEF Kept
  <2>2. p # q
    <3>1. g[p] = t[p]
      BY <1>1, <1>2, <1>3, GrownIs DEF Tree, Labels
    <3> QED
      BY <1>2, <1>3, <1>9, <3>1 DEF LastTable
  <2>3. Memory(w) /\ p \in Pool /\ q \in Pool /\ e \in Entry
    BY <1>3, <1>5, <2>1 DEF Tree, Labels, LastTable, UserEntry
  <2>4. Store(w, q, v, e)[p] = w[p]
    BY <1>2, <2>2, <2>3, StoreElsewhere
  <2> QED
    BY <1>3, <1>4, <2>1, <2>4
<1>10. Evolves(t, g)
  BY <1>2, <1>6, <1>9 DEF Evolves
<1>11. Sees(t, g, s, v, Shows(e))
  <2>1. \A o \in Space : o # s /\ root[o] # NULL => root[o] # r
    BY <1>1 DEF Inv
  <2> QED
    BY <1>1, <1>7, <1>8, <2>1 DEF Sees
<1>12. Seen(table, used, t, root[s], v) = Shows(Leaf(Walked(s, v), root[s], v))
  <2>1. Labels(U, g, kpt, R)
    BY <1>5 DEF Tree
  <2>2. Seen(w, U, g, r, v) = Shows(w[q][indexof(v, Levels)])
    BY <1>3, <2>1, LastShows
  <2> QED
    BY <1>1, <1>3, <1>7, <2>2 DEF Leaf
<1> QED
  BY <1>10, <1>11, <1>12

\* What protect leaves: a tree for the new space, in which nothing is seen.
LEMMA ProtectStep ==
  ASSUME Inv, NEW s \in Space, NEW t, Tree(table, used, t, kpt, Roots), protect(s)
  PROVE  /\ NewPage(1) \in Pool \ used
         /\ \E t2 : /\ Evolves(t, t2)
                    /\ \A u \in UserPage :
                         /\ Seen(table', used', t2, root'[s], u) = {}
                         /\ \A o \in Space : root[o] # NULL =>
                              Seen(table', used', t2, root'[o], u) = Seen(table, used, t, root[o], u)
<1>1. PICK n, R : n = NewPage(1) /\ R = Roots
  OBVIOUS
<1>2. used \subseteq Pool /\ 1 \in Nat \ {0} /\ HasFree(1) /\ Tree(table, used, t, kpt, R)
  BY <1>1 DEF Tree, Labels, protect
<1>3. n \in Pool \ used
  BY <1>1, <1>2, NewPageIs
<1>4. NewPages(1) = {n}
  <2>1. 1..1 = {1}
    OBVIOUS
  <2> QED
    BY <1>1, <2>1 DEF NewPages
<1>5. table' = Rooted(table, n)
  BY <1>1, <1>4 DEF protect, Rooted
<1>6. /\ used' = used \cup {n} /\ root' = [root EXCEPT ![s] = n] /\ root[s] = NULL /\ kpt' = kpt
      /\ root \in [Space -> Nat]
  BY <1>1, <1>4 DEF protect, Inv
<1>7. root'[s] = n /\ \A o \in Space : root[o] # NULL => root'[o] = root[o] /\ root[o] \in R
  BY <1>1, <1>6 DEF Roots
<1>8. Roots' = R \cup {n}
  <2>1. n # NULL
    BY <1>3, AreaAssumption DEF NULL
  <2>2. \A x : x \in Roots' <=> x # NULL /\ \E o \in Space : x = root'[o]
    BY DEF Roots
  <2>3. \A x : x \in R <=> x # NULL /\ \E o \in Space : x = root[o]
    BY <1>1 DEF Roots
  <2>4. \A o \in Space : root'[o] = IF o = s THEN n ELSE root[o]
    BY <1>6
  <2>5. \A x : x \in Roots' <=> x \in R \cup {n}
    BY <1>6, <2>1, <2>2, <2>3, <2>4
  <2> QED
    BY <2>5
<1> DEFINE g == Named(t, n)
<1>9. Tree(table', used', g, kpt, Roots')
  BY <1>2, <1>3, <1>5, <1>6, <1>8, ProtectTree
<1>10. \A p \in used : p \in used' /\ table'[p] = table[p]
  <2>1. Memory(table) /\ kpt \in Pool
    BY <1>2 DEF Tree, Labels
  <2> QED
    BY <1>2, <1>3, <1>5, <1>6, <2>1, RootedIs
<1>11. \A u \in UserPage :
         /\ Seen(table', used', g, n, u) = {}
         /\ \A o \in R : Seen(table', used', g, o, u) = Seen(table, used, t, o, u)
  BY <1>2, <1>3, <1>5, <1>6, ProtectSeen
<1> HIDE DEF g
<1>12. Evolves(t, g)
  BY <1>9, <1>10 DEF Evolves
<1>13. \A u \in UserPage :
         /\ Seen(table', used', g, root'[s], u) = {}
         /\ \A o \in Space : root[o] # NULL =>
              Seen(table', used', g, root'[o], u) = Seen(table, used, t, root[o], u)
  BY <1>7, <1>11
<1> QED
  BY <1>1, <1>3, <1>12, <1>13

\* What unprotect leaves: the trees of the kernel and of the other spaces.
LEMMA UnprotectStep ==
  ASSUME Inv, NEW s \in Space, NEW t, Tree(table, used, t, kpt, Roots), unprotect(s)
  PROVE  /\ Evolves(t, t)
         /\ \A u \in UserPage, o \in Space : root[o] # NULL /\ o # s =>
              Seen(table', used', t, root[o], u) = Seen(table, used, t, root[o], u)
<1>1. PICK r, R : r = root[s] /\ R = Roots
  OBVIOUS
<1>2. /\ root[s] # NULL /\ root' = [root EXCEPT ![s] = NULL] /\ kpt' = kpt /\ root \in [Space -> Nat]
      /\ \A o \in Space : root[s] = root[o] /\ root[s] # NULL => s = o
  BY DEF unprotect, Inv
<1>3. r \in R /\ Tree(table, used, t, kpt, R)
  BY <1>1, <1>2 DEF Roots
<1> DEFINE D == OwnPages(t, r)
<1>4. teardown(table, r) = D
  BY <1>3, TeardownIs
<1> HIDE DEF D
<1>5. used' = used \ D /\ table' = Dropped(table, D)
  BY <1>1, <1>4 DEF unprotect, Dropped
<1>6. Roots' = R \ {r}
  <2>1. \A x : x \in Roots' <=> x # NULL /\ \E o \in Space : x = root'[o]
    BY DEF Roots
  <2>2. \A x : x \in R <=> x # NULL /\ \E o \in Space : x = root[o]
    BY <1>1 DEF Roots
  <2>3. \A o \in Space : root'[o] = IF o = s THEN NULL ELSE root[o]
    BY <1>2
  <2>4. \A x : x \in Roots' <=> x \in R \ {r}
    BY <1>1, <1>2, <2>1, <2>2, <2>3
  <2> QED
    BY <2>4
<1>7. Tree(table', used', t, kpt, Roots')
  BY <1>3, <1>5, <1>6, UnprotectTree DEF D
<1>8. ASSUME NEW p \in used, NEW k, NEW x, t[p] = <<kpt, k, x>> PROVE p \in used' /\ table'[p] = table[p]
  <2>1. r # kpt /\ used \subseteq Pool /\ Memory(table)
    BY <1>3 DEF Tree, Labels
  <2>2. p \notin D
    BY <1>8, <2>1 DEF D, OwnPages
  <2> QED
    BY <1>5, <2>1, <2>2, DroppedIs
<1>9. \A u \in UserPage, o \in R \ {r} : Seen(table', used', t, o, u) = Seen(table, used, t, o, u)
  BY <1>3, <1>5, UnprotectSeen DEF D
<1>10. \A o \in Space : root[o] # NULL /\ o # s => root[o] \in R \ {r}
  BY <1>1, <1>2 DEF Roots
<1> QED
  BY <1>7, <1>8, <1>9, <1>10 DEF Evolves

\* The entries that map and unmap store.
LEMMA StoredEntries ==
  /\ \A f \in Frame, write \in BOOLEAN :
       /\ UserEntry(Pte(f, write))
       /\ Shows(Pte(f, write)) = {[frame |-> f, write |-> write]}
  /\ UserEntry(Absent) /\ Shows(Absent) = {}
<1>1. ASSUME NEW f \in Frame, NEW write \in BOOLEAN
      PROVE  /\ UserEntry(Pte(f, write))
             /\ Shows(Pte(f, write)) = {[frame |-> f, write |-> write]}
  <2>1. f \in Nat
    BY AreaAssumption
  <2>2. CASE write = TRUE
    <3>1. Pte(f, write).to = f /\ Pte(f, write).flags = {"P", "U", "W"} /\ Pte(f, write) \in Entry
      BY <2>1, <2>2 DEF Pte, Entry
    <3>2. ("W" \in Pte(f, write).flags) = write
      BY <2>2, <3>1
    <3> QED
      BY <3>1, <3>2 DEF UserEntry, Shows
  <2>3. CASE write = FALSE
    <3>1. Pte(f, write).to = f /\ Pte(f, write).flags = {"P", "U"} /\ Pte(f, write) \in Entry
      BY <2>1, <2>3 DEF Pte, Entry
    <3>2. ("W" \in Pte(f, write).flags) = write
      BY <2>3, <3>1
    <3> QED
      BY <3>1, <3>2 DEF UserEntry, Shows
  <2> QED
    BY <2>2, <2>3
<1>2. UserEntry(Absent) /\ Shows(Absent) = {}
  BY DEF UserEntry, Absent, Entry, Shows, NULL
<1> QED
  BY <1>1, <1>2

\* Once the kernel has its tables, every step keeps the trees.
LEMMA NextEvolves ==
  ASSUME Inv, kpt # NULL, NEW t, Tree(table, used, t, kpt, Roots), [Next]_vars
  PROVE  \E t2 : Evolves(t, t2)
<1>1. ASSUME UNCHANGED <<table, used, kpt, root>> PROVE \E t2 : Evolves(t, t2)
  <2>1. Roots' = Roots
    BY <1>1 DEF Roots
  <2> QED
    BY <1>1, <2>1 DEF Evolves
<1>2. ASSUME NEW s \in Space, protect(s) PROVE \E t2 : Evolves(t, t2)
  BY <1>2, ProtectStep
<1>3. ASSUME NEW s \in Space, map(s) PROVE \E t2 : Evolves(t, t2)
  <2>1. PICK v \in ClientPage \cap UserPage, f \in Frame, write \in BOOLEAN :
          /\ root[s] # NULL /\ HasFree(Needs(s, v))
          /\ table' = SetLeaf(Walked(s, v), root[s], v, Pte(f, write))
          /\ used' = used \cup NewPages(Needs(s, v)) /\ UNCHANGED <<kpt, root>>
    BY <1>3 DEF map
  <2>2. UserEntry(Pte(f, write)) /\ v \in UserPage
    BY StoredEntries
  <2> QED
    BY <2>1, <2>2, MapStep
<1>4. ASSUME NEW s \in Space, unmap(s) PROVE \E t2 : Evolves(t, t2)
  <2>1. PICK v \in ClientPage \cap UserPage :
          /\ root[s] # NULL /\ HasFree(Needs(s, v))
          /\ table' = SetLeaf(Walked(s, v), root[s], v, Absent)
          /\ used' = used \cup NewPages(Needs(s, v)) /\ UNCHANGED <<kpt, root>>
    BY <1>4 DEF unmap
  <2>2. UserEntry(Absent) /\ v \in UserPage
    BY StoredEntries
  <2> QED
    BY <2>1, <2>2, MapStep
<1>5. ASSUME NEW s \in Space, unprotect(s) PROVE \E t2 : Evolves(t, t2)
  BY <1>5, UnprotectStep
<1>6. ASSUME NEW s \in Space, vme_panic(s) PROVE \E t2 : Evolves(t, t2)
  <2>1. UNCHANGED <<kpt, root>>
    BY <1>6 DEF vme_panic
  <2>2. CASE UNCHANGED <<table, used>>
    BY <1>1, <2>1, <2>2
  <2>3. CASE ~UNCHANGED <<table, used>>
    <3>1. PICK v \in ClientPage :
            /\ root[s] # NULL /\ v \in UserPage /\ HasFree(Needs(s, v))
            /\ table' = Walked(s, v) /\ used' = used \cup NewPages(Needs(s, v))
      BY <1>6, <2>3 DEF vme_panic
    <3> QED
      BY <2>1, <3>1, WalkStep
  <2> QED
    BY <2>2, <2>3
<1>7. ~vme_init
  BY DEF vme_init
<1>8. CASE UNCHANGED vars
  BY <1>1, <1>8 DEF vars
<1> QED
  BY <1>2, <1>3, <1>4, <1>5, <1>6, <1>7, <1>8 DEF Next

\* The invariant holds in the initial state.
LEMMA InitInv == Init => Inv
<1> SUFFICES ASSUME Init PROVE Inv
  OBVIOUS
<1>1. Leftover \in Entry
  BY DEF Leftover, Entry, NULL
<1>2. Memory(table)
  BY <1>1 DEF Init, Memory
<1>3. root \in [Space -> Nat] /\ \A s \in Space : root[s] = NULL
  BY DEF Init, NULL
<1>4. Roots = {}
  BY <1>3 DEF Roots
<1> QED
  BY <1>2, <1>3, <1>4 DEF Init, Inv

\* What a step does to the roots.
LEMMA NextRoots ==
  ASSUME Inv, [Next]_vars
  PROVE  /\ root' \in [Space -> Nat] /\ panicked' \in BOOLEAN
         /\ \A s, o \in Space : root'[s] = root'[o] /\ root'[s] # NULL => s = o
         /\ kpt # NULL => kpt' = kpt
<1>1. /\ root \in [Space -> Nat] /\ panicked \in BOOLEAN
      /\ \A s, o \in Space : root[s] = root[o] /\ root[s] # NULL => s = o
  BY DEF Inv
<1>2. CASE UNCHANGED vars
  BY <1>1, <1>2 DEF vars
<1>3. CASE vme_init
  BY <1>1, <1>3 DEF vme_init
<1>4. ASSUME NEW s \in Space, map(s) \/ unmap(s) \/ vme_panic(s)
      PROVE  root' = root /\ kpt' = kpt /\ panicked' \in BOOLEAN
  BY <1>1, <1>4 DEF map, unmap, vme_panic
<1>5. ASSUME NEW s \in Space, unprotect(s)
      PROVE  root' = [root EXCEPT ![s] = NULL] /\ kpt' = kpt /\ panicked' = panicked
  BY <1>5 DEF unprotect
<1>6. ASSUME NEW s \in Space, protect(s)
      PROVE  /\ root' = [root EXCEPT ![s] = NewPage(1)] /\ kpt' = kpt /\ panicked' = panicked
             /\ NewPage(1) \in Nat /\ \A o \in Space : root[o] # NewPage(1)
  <2>1. /\ root' = [root EXCEPT ![s] = NewPage(1)] /\ kpt' = kpt /\ panicked' = panicked /\ kpt # NULL
    BY <1>6 DEF protect
  <2>2. PICK t : Tree(table, used, t, kpt, Roots)
    BY <2>1 DEF Inv
  <2>3. NewPage(1) \in Pool \ used
    BY <1>6, <2>2, ProtectStep
  <2>4. Roots \subseteq used
    BY <2>2 DEF Tree, Labels
  <2>5. NewPage(1) \in Nat /\ NewPage(1) # NULL
    BY <2>3, AreaAssumption DEF NULL
  <2>6. \A o \in Space : root[o] \in Roots \/ root[o] = NULL
    BY DEF Roots
  <2> QED
    BY <2>1, <2>3, <2>4, <2>5, <2>6
<1>7. ASSUME NEW s \in Space, unprotect(s)
      PROVE  /\ root' \in [Space -> Nat]
             /\ \A a, o \in Space : root'[a] = root'[o] /\ root'[a] # NULL => a = o
  <2>1. \A o \in Space : root'[o] = IF o = s THEN NULL ELSE root[o]
    BY <1>1, <1>5, <1>7
  <2> QED
    BY <1>1, <1>5, <1>7, <2>1 DEF NULL
<1>8. ASSUME NEW s \in Space, protect(s)
      PROVE  /\ root' \in [Space -> Nat]
             /\ \A a, o \in Space : root'[a] = root'[o] /\ root'[a] # NULL => a = o
  <2>1. \A o \in Space : root'[o] = IF o = s THEN NewPage(1) ELSE root[o]
    BY <1>1, <1>6, <1>8
  <2>2. root' \in [Space -> Nat]
    BY <1>1, <1>6, <1>8
  <2>3. \A o \in Space : root[o] # NewPage(1)
    BY <1>6, <1>8
  <2> QED
    BY <1>1, <2>1, <2>2, <2>3
<1> QED
  BY <1>1, <1>2, <1>3, <1>4, <1>5, <1>6, <1>7, <1>8 DEF Next

\* Every step keeps the invariant.
LEMMA NextInv == Inv /\ [Next]_vars => Inv'
<1> SUFFICES ASSUME Inv, [Next]_vars PROVE Inv'
  OBVIOUS
<1>1. /\ root' \in [Space -> Nat] /\ panicked' \in BOOLEAN
      /\ \A s, o \in Space : root'[s] = root'[o] /\ root'[s] # NULL => s = o
      /\ kpt # NULL => kpt' = kpt
  BY NextRoots
<1>2. CASE kpt # NULL
  <2>1. PICK t : Tree(table, used, t, kpt, Roots)
    BY <1>2 DEF Inv
  <2>2. PICK t2 : Evolves(t, t2)
    BY <1>2, <2>1, NextEvolves
  <2>3. Tree(table', used', t2, kpt', Roots') /\ Memory(table')
    BY <1>1, <1>2, <2>2 DEF Evolves, Tree
  <2> QED
    BY <1>1, <1>2, <2>3 DEF Inv
<1>3. CASE kpt = NULL
  <2>1. used = {} /\ Roots = {} /\ Memory(table)
    BY <1>3 DEF Inv
  <2>2. \A s \in Space : root[s] = NULL
    BY <2>1 DEF Roots
  <2>3. CASE vme_init
    <3>1. /\ table' = Booted(table) /\ used' = KernelPages /\ kpt' = TableAt(<<1, 0>>) /\ root' = root
      BY <2>1, <2>3 DEF vme_init, Booted, KernelPages
    <3>2. Tree(Booted(table), KernelPages, KernelLabels, TableAt(<<1, 0>>), {})
      BY <2>1, InitTree
    <3>3. Roots' = {}
      BY <2>1, <3>1 DEF Roots
    <3>4. PICK t : t = KernelLabels
      OBVIOUS
    <3>5. Tree(table', used', t, kpt', Roots')
      BY <3>1, <3>2, <3>3, <3>4
    <3>6. kpt' # NULL /\ Memory(table')
      BY <3>5, AreaAssumption DEF Tree, Labels, NULL
    <3> QED
      BY <1>1, <3>5, <3>6 DEF Inv
  <2>4. CASE UNCHANGED vars
    <3>1. Roots' = Roots
      BY <2>4 DEF Roots, vars
    <3> QED
      BY <1>1, <1>3, <2>1, <2>4, <3>1 DEF Inv, vars
  <2>5. ASSUME NEW s \in Space, protect(s) \/ map(s) \/ unmap(s) \/ unprotect(s) \/ vme_panic(s)
        PROVE  FALSE
    BY <1>3, <2>2, <2>5 DEF protect, map, unmap, unprotect, vme_panic
  <2> QED
    BY <2>3, <2>4, <2>5 DEF Next
<1> QED
  BY <1>2, <1>3

-----------------------------------------------------------------------------
(* The theorems *)

(* In every state there is a labelling of the pages in use as the tables of the
   kernel's tree and of one tree per address space, whatever the number of levels
   and entries, the areas, the pool and the clients' calls. *)
THEOREM Invariance == Spec => []Inv
<1>1. Init => Inv
  BY InitInv
<1>2. Inv /\ [Next]_vars => Inv'
  BY NextInv
<1> QED
  BY <1>1, <1>2, PTL DEF Spec

\* The invariant gives the types.
LEMMA InvType == Inv => TypeOK
<1> SUFFICES ASSUME Inv PROVE TypeOK
  OBVIOUS
<1>1. \A s \in Space : root[s] \in Roots \/ root[s] = NULL
  BY DEF Roots
<1>2. used \subseteq Pool /\ kpt \in used \cup {NULL} /\ Roots \subseteq used
  <2>1. CASE kpt = NULL
    BY <2>1 DEF Inv
  <2>2. CASE kpt # NULL
    BY <2>2 DEF Inv, Tree, Labels
  <2> QED
    BY <2>1, <2>2
<1>3. root \in [Space -> used \cup {NULL}]
  BY <1>1, <1>2 DEF Inv
<1> QED
  BY <1>2, <1>3 DEF Inv, Memory, TypeOK

(* Every variable keeps its type: tables hold entries, and the kernel's table and
   the roots are pages that pgalloc handed out. *)
THEOREM TypeCorrect == Spec => []TypeOK
BY Invariance, InvType, PTL

(* KernelMapped: in every address space the pages of the kernel's areas are mapped
   to themselves, for the kernel only, at any number of levels. *)
THEOREM KernelStaysMapped == Spec => []KernelMapped
<1>1. Inv => KernelMapped
  <2> SUFFICES ASSUME Inv, NEW s \in Space, root[s] # NULL, NEW v \in KernelPage
               PROVE  Translate(root[s], v) = {[to |-> v, user |-> FALSE, write |-> TRUE]}
    BY DEF KernelMapped
  <2>1. root[s] \in Roots
    BY DEF Roots
  <2>2. PICK t : Tree(table, used, t, kpt, Roots)
    BY <2>1 DEF Inv
  <2>3. PICK r, R : r = root[s] /\ R = Roots
    OBVIOUS
  <2>4. Translate(r, v) = {[to |-> v, user |-> FALSE, write |-> TRUE]}
    BY <2>1, <2>2, <2>3, KernelSeen
  <2> QED
    BY <2>3, <2>4
<1> QED
  BY <1>1, Invariance, PTL

(* TablesAccounted: the pages in use are exactly the tables of the kernel and of the
   live address spaces, and no two spaces share one of their own. *)
THEOREM NoTableLost == Spec => []TablesAccounted
<1>1. Inv => TablesAccounted
  <2> SUFFICES ASSUME Inv
               PROVE  /\ used = Tables(kpt) \cup UNION {Own(s) : s \in Space}
                      /\ \A s, o \in Space : s # o => Own(s) \cap Own(o) = {}
    BY DEF TablesAccounted
  <2>1. \A s \in Space : root[s] = NULL => Own(s) = {}
    BY DEF Own, Tables
  <2>2. CASE kpt = NULL
    <3>1. \A s \in Space : root[s] = NULL
      BY <2>2 DEF Inv, Roots
    <3>2. used = {} /\ Tables(kpt) = {}
      BY <2>2 DEF Inv, Tables
    <3> QED
      BY <2>1, <3>1, <3>2
  <2>3. CASE kpt # NULL
    <3>1. PICK t : Tree(table, used, t, kpt, Roots)
      BY <2>3 DEF Inv
    <3>2. PICK R : R = Roots
      OBVIOUS
    <3>3. Labels(used, t, kpt, R) /\ Tree(table, used, t, kpt, R)
      BY <3>1, <3>2 DEF Tree
    <3>4. Tables(kpt) = {p \in used : \E k, x : t[p] = <<kpt, k, x>>}
      BY <3>3, KernelTables
    <3>5. ASSUME NEW s \in Space, root[s] # NULL
          PROVE  root[s] \in R /\ Own(s) = {p \in used : \E k, x : t[p] = <<root[s], k, x>>}
      <4>1. PICK r : r = root[s]
        OBVIOUS
      <4>2. r \in R
        BY <3>2, <3>5, <4>1 DEF Roots
      <4>3. Tables(r) \ Tables(kpt) = {p \in used : \E k, x : t[p] = <<r, k, x>>}
        BY <3>3, <4>2, OwnTables
      <4> QED
        BY <4>1, <4>2, <4>3 DEF Own
    <3>6. ASSUME NEW p \in used PROVE p \in Tables(kpt) \/ \E s \in Space : p \in Own(s)
      <4>1. PICK r \in R \cup {kpt}, k \in 1..Levels, x \in Nat : t[p] = <<r, k, x>>
        BY <3>3 DEF Labels
      <4>2. CASE r = kpt
        BY <3>4, <4>1, <4>2
      <4>3. CASE r # kpt
        <5>1. PICK s \in Space : r = root[s] /\ root[s] # NULL
          BY <3>2, <4>3 DEF Roots
        <5> QED
          BY <3>5, <4>1, <5>1
      <4> QED
        BY <4>2, <4>3
    <3>7. ASSUME NEW s \in Space PROVE Own(s) \subseteq used
      BY <2>1, <3>5
    <3>8. used = Tables(kpt) \cup UNION {Own(s) : s \in Space}
      BY <3>4, <3>6, <3>7
    <3>9. ASSUME NEW s \in Space, NEW o \in Space, s # o, NEW p, p \in Own(s), p \in Own(o)
          PROVE  FALSE
      <4>1. root[s] # NULL /\ root[o] # NULL
        BY <2>1, <3>9
      <4>2. root[s] # root[o]
        BY <3>9, <4>1 DEF Inv
      <4>3. PICK k, x : t[p] = <<root[s], k, x>>
        BY <3>5, <3>9, <4>1
      <4>4. PICK j, y : t[p] = <<root[o], j, y>>
        BY <3>5, <3>9, <4>1
      <4> QED
        BY <4>2, <4>3, <4>4
    <3> QED
      BY <3>8, <3>9
  <2> QED
    BY <2>2, <2>3
<1> QED
  BY <1>1, Invariance, PTL

(* KernelTablesFixed: no operation on an address space writes or frees a table of
   the kernel, which all spaces share. *)
THEOREM KernelTablesUntouched == Spec => KernelTablesFixed
<1>1. Inv /\ [Next]_vars => [kpt # NULL => \A p \in Tables(kpt) : table'[p] = table[p] /\ p \in used']_vars
  <2> SUFFICES ASSUME Inv, [Next]_vars, kpt # NULL, NEW p \in Tables(kpt)
               PROVE  table'[p] = table[p] /\ p \in used'
    OBVIOUS
  <2>1. PICK t : Tree(table, used, t, kpt, Roots)
    BY DEF Inv
  <2>2. PICK R : R = Roots
    OBVIOUS
  <2>3. Tables(kpt) = {q \in used : \E k, x : t[q] = <<kpt, k, x>>}
    BY <2>1, <2>2, KernelTables
  <2>4. PICK t2 : Evolves(t, t2)
    BY <2>1, NextEvolves
  <2> QED
    BY <2>3, <2>4 DEF Evolves
<1> QED
  BY <1>1, Invariance, PTL DEF Spec, KernelTablesFixed

-----------------------------------------------------------------------------
(* The refinement *)

\* What a user program sees of page v of space s, by the labels t.
SeenIn(t, s, v) == IF root[s] = NULL THEN {} ELSE Seen(table, used, t, root[s], v)

\* The view of a user program is what the labelled tables show, and nothing before
\* the kernel has its tables.
ViewRule ==
  /\ \A t : Tree(table, used, t, kpt, Roots) =>
       \A s \in Space, v \in UserPage : UserView(s, v) = SeenIn(t, s, v)
  /\ \A s \in Space, v \in UserPage : root[s] = NULL => UserView(s, v) = {}

LEMMA ViewRuleHolds == ViewRule
<1>1. ASSUME NEW s \in Space, NEW v \in UserPage, root[s] = NULL PROVE UserView(s, v) = {}
  <2>1. Translate(root[s], v) = {}
    BY <1>1 DEF Translate
  <2> QED
    BY <2>1 DEF UserView
<1>2. ASSUME NEW t, Tree(table, used, t, kpt, Roots), NEW s \in Space, NEW v \in UserPage, root[s] # NULL
      PROVE  UserView(s, v) = Seen(table, used, t, root[s], v)
  <2>1. PICK R : R = Roots
    OBVIOUS
  <2>2. root[s] \in R
    BY <1>2, <2>1 DEF Roots
  <2> QED
    BY <1>2, <2>1, <2>2, ViewIs
<1> QED
  BY <1>1, <1>2 DEF ViewRule, SeenIn

\* It holds after a step too.
LEMMA ViewRuleNext == ViewRule'
BY ViewRuleHolds, PTL

\* The abstract state: the spaces in use and what their programs see.
Live == {s \in Space : root[s] # NULL}
Shown == [s \in Space |-> [v \in UserPage |-> UserView(s, v)]]

\* Views that are equal page by page are equal.
LEMMA ShownSame ==
  ASSUME \A o \in Space, u \in UserPage : UserView(o, u)' = UserView(o, u)
  PROVE  Shown' = Shown
BY DEF Shown

\* One page of one space changes.
LEMMA ShownChange ==
  ASSUME NEW s \in Space, NEW v \in UserPage, NEW X, UserView(s, v)' = X,
         \A o \in Space, u \in UserPage : o # s \/ u # v => UserView(o, u)' = UserView(o, u)
  PROVE  Shown'[s][v] = X /\ Shown' = [Shown EXCEPT ![s][v] = X]
<1> DEFINE a == Shown
           b == Shown'
<1>1. /\ a = [o \in Space |-> a[o]] /\ \A o \in Space : a[o] = [u \in UserPage |-> a[o][u]]
      /\ \A o \in Space, u \in UserPage : a[o][u] = UserView(o, u)
  BY DEF Shown
<1>2. /\ b = [o \in Space |-> b[o]] /\ \A o \in Space : b[o] = [u \in UserPage |-> b[o][u]]
      /\ \A o \in Space, u \in UserPage : b[o][u] = UserView(o, u)'
  BY DEF Shown
<1> HIDE DEF a, b
<1>3. b[s][v] = X
  BY <1>2
<1>4. b[s] = [a[s] EXCEPT ![v] = X]
  BY <1>1, <1>2
<1>5. \A o \in Space : o # s => b[o] = a[o]
  <2> SUFFICES ASSUME NEW o \in Space, o # s PROVE b[o] = a[o]
    OBVIOUS
  <2>1. \A u \in UserPage : b[o][u] = a[o][u]
    BY <1>1, <1>2
  <2>2. a[o] = [u \in UserPage |-> a[o][u]] /\ b[o] = [u \in UserPage |-> b[o][u]]
    BY <1>1, <1>2
  <2>3. [u \in UserPage |-> a[o][u]] = [u \in UserPage |-> b[o][u]]
    BY <2>1
  <2> QED
    BY <2>2, <2>3
<1>6. b = [a EXCEPT ![s] = [a[s] EXCEPT ![v] = X]]
  BY <1>1, <1>2, <1>4, <1>5
<1> QED
  BY <1>3, <1>6 DEF a, b

\* A space becomes empty.
LEMMA ShownEmpty ==
  ASSUME NEW s \in Space, \A u \in UserPage : UserView(s, u)' = {},
         \A o \in Space, u \in UserPage : o # s => UserView(o, u)' = UserView(o, u)
  PROVE  Shown' = [Shown EXCEPT ![s] = [v \in UserPage |-> {}]]
BY DEF Shown

\* What is seen before and after a step that keeps the trees.
LEMMA ViewsBy ==
  ASSUME NEW t, Tree(table, used, t, kpt, Roots), NEW t2, Evolves(t, t2), kpt' = kpt,
         NEW s \in Space, NEW v \in UserPage
  PROVE  /\ UserView(s, v) = IF root[s] = NULL THEN {} ELSE Seen(table, used, t, root[s], v)
         /\ UserView(s, v)' = IF root'[s] = NULL THEN {} ELSE Seen(table', used', t2, root'[s], v)
<1>1. UserView(s, v) = IF root[s] = NULL THEN {} ELSE Seen(table, used, t, root[s], v)
  BY ViewRuleHolds DEF ViewRule, SeenIn
<1>2. Tree(table', used', t2, kpt', Roots')
  BY DEF Evolves
<1>3. UserView(s, v)' = IF root'[s] = NULL THEN {} ELSE Seen(table', used', t2, root'[s], v)
  BY <1>2, ViewRuleNext DEF ViewRule, SeenIn
<1> QED
  BY <1>1, <1>3

\* map changes what is seen of one page, of which nothing was.
LEMMA MapView ==
  ASSUME Inv, NEW s \in Space, map(s)
  PROVE  View!Map(s)
<1>1. PICK v \in ClientPage \cap UserPage, f \in Frame, write \in BOOLEAN :
        /\ root[s] # NULL /\ HasFree(Needs(s, v))
        /\ "P" \notin Leaf(Walked(s, v), root[s], v).flags
        /\ table' = SetLeaf(Walked(s, v), root[s], v, Pte(f, write))
        /\ used' = used \cup NewPages(Needs(s, v)) /\ UNCHANGED <<kpt, root>>
  BY DEF map
<1>2. UserEntry(Pte(f, write)) /\ v \in UserPage /\ Shows(Pte(f, write)) = {[frame |-> f, write |-> write]}
  BY StoredEntries
<1>3. root[s] \in Roots
  BY <1>1 DEF Roots
<1>4. PICK t : Tree(table, used, t, kpt, Roots)
  BY <1>3 DEF Inv
<1>5. PICK t2 : Evolves(t, t2) /\ Sees(t, t2, s, v, Shows(Pte(f, write)))
  BY <1>1, <1>2, <1>4, MapStep
<1>6. Seen(table, used, t, root[s], v) = {}
  <2>1. Seen(table, used, t, root[s], v) = Shows(Leaf(Walked(s, v), root[s], v))
    BY <1>1, <1>2, <1>4, MapStep
  <2> QED
    BY <1>1, <2>1 DEF Shows
<1>7. \A o \in Space, u \in UserPage :
        /\ UserView(o, u) = IF root[o] = NULL THEN {} ELSE Seen(table, used, t, root[o], u)
        /\ UserView(o, u)' = IF root'[o] = NULL THEN {} ELSE Seen(table', used', t2, root'[o], u)
  <2>1. kpt' = kpt /\ Evolves(t, t2)
    BY <1>1, <1>5
  <2> QED
    BY ONLY <1>4, <2>1, ViewsBy
<1>8. PICK X : X = {[frame |-> f, write |-> write]}
  OBVIOUS
<1>9. UserView(s, v) = {} /\ UserView(s, v)' = X
  BY <1>1, <1>2, <1>5, <1>6, <1>7, <1>8 DEF Sees
<1>10. \A o \in Space, u \in UserPage : o # s \/ u # v => UserView(o, u)' = UserView(o, u)
  <2>1. root' = root
    BY <1>1
  <2>2. \A o \in Space, u \in UserPage :
          root[o] # NULL /\ (o # s \/ u # v) =>
            Seen(table', used', t2, root[o], u) = Seen(table, used, t, root[o], u)
    BY <1>5 DEF Sees
  <2> QED
    BY ONLY <1>7, <2>1, <2>2
<1>11. Shown'[s][v] = X /\ Shown' = [Shown EXCEPT ![s][v] = X]
  BY <1>2, <1>9, <1>10, ShownChange
<1>12. Shown[s][v] = {} /\ s \in Live /\ Live' = Live
  BY <1>1, <1>2, <1>9 DEF Shown, Live
<1>13. View!Becomes(s, v, {[frame |-> f, write |-> write]})
  BY <1>8, <1>11, <1>12, Zenon DEF View!Becomes, Live, Shown
<1>14. \E u \in UserPage, e \in Frame, w \in BOOLEAN :
         s \in Live /\ Shown[s][u] = {} /\ View!Becomes(s, u, {[frame |-> e, write |-> w]})
  BY <1>2, <1>12, <1>13
<1> QED
  BY <1>14, Zenon DEF View!Map, Live, Shown

\* unmap makes one page empty, of which something was seen.
LEMMA UnmapView ==
  ASSUME Inv, NEW s \in Space, unmap(s)
  PROVE  View!Unmap(s)
<1>1. PICK v \in ClientPage \cap UserPage :
        /\ root[s] # NULL /\ HasFree(Needs(s, v))
        /\ "P" \in Leaf(Walked(s, v), root[s], v).flags
        /\ table' = SetLeaf(Walked(s, v), root[s], v, Absent)
        /\ used' = used \cup NewPages(Needs(s, v)) /\ UNCHANGED <<kpt, root>>
  BY DEF unmap
<1>2. UserEntry(Absent) /\ v \in UserPage /\ Shows(Absent) = {}
  BY StoredEntries
<1>3. root[s] \in Roots
  BY <1>1 DEF Roots
<1>4. PICK t : Tree(table, used, t, kpt, Roots)
  BY <1>3 DEF Inv
<1>5. PICK t2 : Evolves(t, t2) /\ Sees(t, t2, s, v, Shows(Absent))
  BY <1>1, <1>2, <1>4, MapStep
<1>6. Seen(table, used, t, root[s], v) # {}
  <2>1. Seen(table, used, t, root[s], v) = Shows(Leaf(Walked(s, v), root[s], v))
    BY <1>1, <1>2, <1>4, MapStep
  <2> QED
    BY <1>1, <2>1 DEF Shows
<1>7. \A o \in Space, u \in UserPage :
        /\ UserView(o, u) = IF root[o] = NULL THEN {} ELSE Seen(table, used, t, root[o], u)
        /\ UserView(o, u)' = IF root'[o] = NULL THEN {} ELSE Seen(table', used', t2, root'[o], u)
  <2>1. kpt' = kpt /\ Evolves(t, t2)
    BY <1>1, <1>5
  <2> QED
    BY ONLY <1>4, <2>1, ViewsBy
<1>8. UserView(s, v) # {} /\ UserView(s, v)' = {}
  BY <1>1, <1>2, <1>5, <1>6, <1>7 DEF Sees
<1>9. \A o \in Space, u \in UserPage : o # s \/ u # v => UserView(o, u)' = UserView(o, u)
  <2>1. root' = root
    BY <1>1
  <2>2. \A o \in Space, u \in UserPage :
          root[o] # NULL /\ (o # s \/ u # v) =>
            Seen(table', used', t2, root[o], u) = Seen(table, used, t, root[o], u)
    BY <1>5 DEF Sees
  <2> QED
    BY ONLY <1>7, <2>1, <2>2
<1>10. Shown'[s][v] = {} /\ Shown' = [Shown EXCEPT ![s][v] = {}]
  BY <1>2, <1>8, <1>9, ShownChange
<1>11. Shown[s][v] # {} /\ s \in Live /\ Live' = Live
  BY <1>1, <1>2, <1>8 DEF Shown, Live
<1>12. View!Becomes(s, v, {})
  BY <1>10, <1>11, Zenon DEF View!Becomes, Live, Shown
<1>13. \E u \in UserPage : s \in Live /\ Shown[s][u] # {} /\ View!Becomes(s, u, {})
  BY <1>2, <1>11, <1>12
<1> QED
  BY <1>13, Zenon DEF View!Unmap, Live, Shown

\* protect makes a space live, and it is empty.
LEMMA ProtectView ==
  ASSUME Inv, NEW s \in Space, protect(s)
  PROVE  View!Protect(s)
<1>1. kpt # NULL /\ root[s] = NULL /\ root' = [root EXCEPT ![s] = NewPage(1)] /\ kpt' = kpt
      /\ root \in [Space -> Nat]
  BY DEF protect, Inv
<1>2. PICK t : Tree(table, used, t, kpt, Roots)
  BY <1>1 DEF Inv
<1>3. PICK t2 :
        /\ Evolves(t, t2)
        /\ \A u \in UserPage :
             /\ Seen(table', used', t2, root'[s], u) = {}
             /\ \A o \in Space : root[o] # NULL =>
                  Seen(table', used', t2, root'[o], u) = Seen(table, used, t, root[o], u)
  BY <1>2, ProtectStep
<1>4. NewPage(1) # NULL
  <2>1. NewPage(1) \in Pool \ used
    BY <1>2, ProtectStep
  <2> QED
    BY <2>1, AreaAssumption DEF NULL
<1>5. \A o \in Space : root'[o] = IF o = s THEN NewPage(1) ELSE root[o]
  BY <1>1
<1>6. \A o \in Space, u \in UserPage :
        /\ UserView(o, u) = IF root[o] = NULL THEN {} ELSE Seen(table, used, t, root[o], u)
        /\ UserView(o, u)' = IF root'[o] = NULL THEN {} ELSE Seen(table', used', t2, root'[o], u)
  BY <1>1, <1>2, <1>3, ViewsBy
<1>7. \A o \in Space, u \in UserPage : UserView(o, u)' = UserView(o, u)
  BY <1>1, <1>3, <1>4, <1>5, <1>6
<1>8. Shown' = Shown
  BY <1>7, ShownSame
<1>9. s \notin Live /\ Live' = Live \cup {s}
  BY <1>1, <1>4, <1>5 DEF Live
<1> QED
  BY <1>8, <1>9, Zenon DEF View!Protect, Live, Shown

\* unprotect makes a space empty and gives it up.
LEMMA UnprotectView ==
  ASSUME Inv, NEW s \in Space, unprotect(s)
  PROVE  View!Unprotect(s)
<1>1. root[s] # NULL /\ root' = [root EXCEPT ![s] = NULL] /\ kpt' = kpt /\ root \in [Space -> Nat]
  BY DEF unprotect, Inv
<1>2. root[s] \in Roots
  BY <1>1 DEF Roots
<1>3. PICK t : Tree(table, used, t, kpt, Roots)
  BY <1>2 DEF Inv
<1>4. /\ Evolves(t, t)
      /\ \A u \in UserPage, o \in Space : root[o] # NULL /\ o # s =>
           Seen(table', used', t, root[o], u) = Seen(table, used, t, root[o], u)
  BY <1>3, UnprotectStep
<1>5. \A o \in Space : root'[o] = IF o = s THEN NULL ELSE root[o]
  BY <1>1
<1>6. \A o \in Space, u \in UserPage :
        /\ UserView(o, u) = IF root[o] = NULL THEN {} ELSE Seen(table, used, t, root[o], u)
        /\ UserView(o, u)' = IF root'[o] = NULL THEN {} ELSE Seen(table', used', t, root'[o], u)
  BY <1>1, <1>3, <1>4, ViewsBy
<1>7. /\ \A u \in UserPage : UserView(s, u)' = {}
      /\ \A o \in Space, u \in UserPage : o # s => UserView(o, u)' = UserView(o, u)
  BY <1>4, <1>5, <1>6
<1>8. Shown' = [Shown EXCEPT ![s] = View!Nothing]
  BY <1>7, ShownEmpty DEF View!Nothing
<1>9. s \in Live /\ Live' = Live \ {s}
  BY <1>1, <1>5 DEF Live
<1> QED
  BY <1>8, <1>9, Zenon DEF View!Unprotect, Live, Shown

\* vme_init, a panic and a step of something else change nothing that is seen.
LEMMA SilentView ==
  ASSUME Inv, vme_init \/ UNCHANGED vars \/ \E s \in Space : vme_panic(s)
  PROVE  Live' = Live /\ Shown' = Shown
<1>1. root' = root
  BY DEF vme_init, vme_panic, vars
<1>2. Live' = Live
  BY <1>1 DEF Live
<1>3. CASE kpt = NULL
  <2>1. \A o \in Space : root[o] = NULL
    BY <1>3 DEF Inv, Roots
  <2>2. \A o \in Space, u \in UserPage : UserView(o, u) = {}
    BY <2>1, ViewRuleHolds DEF ViewRule
  <2>3. \A o \in Space, u \in UserPage : UserView(o, u)' = {}
    BY <1>1, <2>1, ViewRuleNext DEF ViewRule
  <2> QED
    BY <1>2, <2>2, <2>3, ShownSame
<1>4. CASE kpt # NULL
  <2>1. PICK t : Tree(table, used, t, kpt, Roots)
    BY <1>4 DEF Inv
  <2>2. kpt' = kpt
    BY <1>4 DEF vme_init, vme_panic, vars
  <2>3. \E t2 : /\ Evolves(t, t2)
                /\ \A o \in Space, u \in UserPage : root[o] # NULL =>
                     Seen(table', used', t2, root[o], u) = Seen(table, used, t, root[o], u)
    <3>1. CASE UNCHANGED <<table, used>>
      <4>1. Roots' = Roots
        BY <1>1 DEF Roots
      <4>2. Evolves(t, t)
        BY <2>1, <3>1, <4>1 DEF Evolves
      <4> QED
        BY <3>1, <4>2
    <3>2. CASE ~UNCHANGED <<table, used>>
      <4>1. PICK s \in Space : vme_panic(s)
        BY <1>4, <3>2 DEF vme_init, vars
      <4>2. PICK v \in ClientPage :
              /\ root[s] # NULL /\ v \in UserPage /\ HasFree(Needs(s, v))
              /\ table' = Walked(s, v) /\ used' = used \cup NewPages(Needs(s, v))
        BY <3>2, <4>1 DEF vme_panic
      <4>3. \E t2 : Evolves(t, t2) /\ Sees(t, t2, s, v, Seen(table, used, t, root[s], v))
        BY <1>1, <2>1, <2>2, <4>2, WalkStep
      <4> QED
        BY <4>3 DEF Sees
    <3> QED
      BY <3>1, <3>2
  <2>4. PICK t2 : /\ Evolves(t, t2)
                  /\ \A o \in Space, u \in UserPage : root[o] # NULL =>
                       Seen(table', used', t2, root[o], u) = Seen(table, used, t, root[o], u)
    BY <2>3
  <2>5. \A o \in Space, u \in UserPage :
          /\ UserView(o, u) = IF root[o] = NULL THEN {} ELSE Seen(table, used, t, root[o], u)
          /\ UserView(o, u)' = IF root'[o] = NULL THEN {} ELSE Seen(table', used', t2, root'[o], u)
    BY <2>1, <2>2, <2>4, ViewsBy
  <2>6. \A o \in Space, u \in UserPage : UserView(o, u)' = UserView(o, u)
    BY <1>1, <2>4, <2>5
  <2> QED
    BY <1>2, <2>6, ShownSame
<1> QED
  BY <1>3, <1>4

(* ImplementsView: a user program sees exactly what the client mapped into its
   space: the trees of tables implement one partial function per space, at any
   number of levels and whatever pages were left behind by earlier spaces. *)
THEOREM TablesImplementView == Spec => ImplementsView
<1>1. Init => View!Init
  <2> SUFFICES ASSUME Init PROVE View!Init
    OBVIOUS
  <2>1. \A s \in Space : root[s] = NULL
    BY DEF Init
  <2>2. \A s \in Space, v \in UserPage : UserView(s, v) = {}
    BY <2>1, ViewRuleHolds DEF ViewRule
  <2>3. Live = {} /\ Shown = [s \in Space |-> View!Nothing]
    BY <2>1, <2>2 DEF Live, Shown, View!Nothing
  <2> QED
    BY <2>3, Zenon DEF View!Init, Live, Shown
<1>2. Inv /\ [Next]_vars => [View!Next]_View!vars
  <2> SUFFICES ASSUME Inv, [Next]_vars PROVE [View!Next]_View!vars
    OBVIOUS
  <2>1. ASSUME NEW s \in Space, protect(s) \/ map(s) \/ unmap(s) \/ unprotect(s) PROVE View!Next
    BY <2>1, ProtectView, MapView, UnmapView, UnprotectView DEF View!Next
  <2>2. ASSUME vme_init \/ UNCHANGED vars \/ \E s \in Space : vme_panic(s)
        PROVE  UNCHANGED View!vars
    <3>1. Live' = Live /\ Shown' = Shown
      BY <2>2, SilentView
    <3> QED
      BY <3>1 DEF View!vars, Live, Shown
  <2> QED
    BY <2>1, <2>2 DEF Next
<1> QED
  BY <1>1, <1>2, Invariance, PTL DEF Spec, ImplementsView, View!Spec
=============================================================================
