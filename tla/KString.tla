------------------------------ MODULE KString ------------------------------
(***************************************************************************)
(* klib/src/string.c: the byte and string routines of klib, each as the    *)
(* memory it leaves and the value it returns.  A memory m is a function    *)
(* from addresses to signed chars; the loops read the memory as the        *)
(* previous iterations left it, which is what overlapping operands are     *)
(* about.  `ok' says that the assertions of the routine hold.              *)
(***************************************************************************)
EXTENDS Integers, Sequences, SequencesExt

NULL == 0
NUL  == 0

strlen(m, s) ==
  IF s = NULL THEN 0
  ELSE CHOOSE k \in 0..Cardinality(DOMAIN m) :
         m[s + k] = NUL /\ \A j \in 0..k-1 : m[s + j] # NUL

\* The copy loop of strcpy, strncpy and strcat: at most `left' chars and then
\* the terminator.
RECURSIVE copyString(_, _, _, _)
copyString(m, d, s, left) ==
  IF m[s] = NUL \/ left = 0 THEN [m EXCEPT ![d] = NUL]
  ELSE copyString([m EXCEPT ![d] = m[s]], d + 1, s + 1, left - 1)

unlimited(m) == Cardinality(DOMAIN m)

strcpy(m, dst, src) ==
  LET m2 == copyString(m, dst, src, unlimited(m))
  IN  [mem |-> m2, ret |-> dst, ok |-> strlen(m2, dst) = strlen(m2, src)]

strncpy(m, dst, src, n) ==
  LET m2  == copyString(m, dst, src, n)
      cnt == IF strlen(m, src) < n THEN strlen(m, src) ELSE n
  IN  [mem |-> m2, ret |-> dst, ok |-> strlen(m2, dst) = cnt]

strcat(m, dst, src) ==
  LET left == strlen(m, dst)
      m2   == IF src = NULL THEN m
              ELSE copyString(m, dst + left, src, unlimited(m))
  IN  [mem |-> m2, ret |-> dst,
       ok |-> src = NULL \/ strlen(m2, dst) = strlen(m2, src) + left]

\* A plausible bug: a string equals each of its prefixes.
byLength_Prefix(m, s1, s2) == 0

\* Where one string has ended: by the lengths of what is left.
byLength(m, s1, s2) == CASE strlen(m, s2) > strlen(m, s1) -> -1
                         [] strlen(m, s2) < strlen(m, s1) -> 1
                         [] OTHER -> 0

RECURSIVE strcmp(_, _, _)
strcmp(m, s1, s2) ==
  CASE m[s1] = NUL \/ m[s2] = NUL -> byLength(m, s1, s2)
    [] m[s1] # NUL /\ m[s2] # NUL /\ m[s1] < m[s2] -> -1
    [] m[s1] # NUL /\ m[s2] # NUL /\ m[s1] > m[s2] -> 1
    [] OTHER -> strcmp(m, s1 + 1, s2 + 1)

RECURSIVE strncmp(_, _, _, _)
strncmp(m, s1, s2, n) ==
  CASE n = 0 -> 0
    [] n > 0 /\ (m[s1] = NUL \/ m[s2] = NUL) -> byLength(m, s1, s2)
    [] n > 0 /\ m[s1] # NUL /\ m[s2] # NUL /\ m[s1] < m[s2] -> -1
    [] n > 0 /\ m[s1] # NUL /\ m[s2] # NUL /\ m[s1] > m[s2] -> 1
    [] OTHER -> strncmp(m, s1 + 1, s2 + 1, n - 1)

upward(n)   == [i \in 1..n |-> i - 1]
downward(n) == [i \in 1..n |-> n - i]

\* One byte at a time, in the order of the offsets.
copyBytes(m, d, s, offsets) ==
  FoldLeft(LAMBDA mm, k : [mm EXCEPT ![d + k] = mm[s + k]], m, offsets)

memset(m, s, c, n) ==
  [mem |-> FoldLeft(LAMBDA mm, k : [mm EXCEPT ![s + k] = c], m, upward(n)),
   ret |-> s, ok |-> TRUE]

\* A plausible bug: always copies upward.
memmove_Up(m, dst, src, n) ==
  [mem |-> copyBytes(m, dst, src, upward(n)), ret |-> dst, ok |-> TRUE]

memmove(m, dst, src, n) ==
  [mem |-> copyBytes(m, dst, src, IF dst <= src THEN upward(n) ELSE downward(n)),
   ret |-> dst, ok |-> TRUE]

\* Returns the end of what it wrote.
memcpy(m, out, in, n) ==
  [mem |-> copyBytes(m, out, in, upward(n)), ret |-> out + n, ok |-> TRUE]

RECURSIVE memcmp(_, _, _, _)
memcmp(m, s1, s2, n) ==
  CASE n = 0 -> 0
    [] n > 0 /\ m[s1] # m[s2] -> (m[s1] % 256) - (m[s2] % 256)
    [] OTHER -> memcmp(m, s1 + 1, s2 + 1, n - 1)
===========================================================================
