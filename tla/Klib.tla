-------------------------------- MODULE Klib --------------------------------
(***************************************************************************)
(* klib called by a client: one call at a time, on every argument the C    *)
(* contract of the routine allows, over every content of a small memory.   *)
(* The routines are the operators of KInt64, KString and KStdio; `call'    *)
(* records the routine, its arguments and what it returned.  The pure      *)
(* routines do not look at the memory and are called on the cleared one.   *)
(***************************************************************************)
EXTENDS KString, KStdio, FiniteSets

CONSTANTS MemSize,       \* addresses 1..MemSize
          Chars,         \* contents of a cell, bytes 0..255 as numbers
          EdgeWords,     \* words whose dwords the wide division is tried on
          FmtChars,      \* character codes formats are made of
          MaxFmt,        \* longest format given to all three printers
          MaxN           \* largest n of vsnprintf

ASSUME KlibAssumption ==
  /\ {MemSize, MaxFmt, MaxN, IntBits, LongBits} \subseteq Nat
  /\ IntBits <= LongBits
  /\ {0, 1} \subseteq Chars /\ 0 \notin FmtChars

VARIABLES mem, call
vars == <<mem, call>>

\* Division over all dwords of two 4-bit words, and over dwords of 8-bit words
\* next to the limits of a word.
Narrow == INSTANCE KInt64 WITH LogW <- 2
Wide   == INSTANCE KInt64 WITH LogW <- 3

Addr    == 1..MemSize
Cells   == {ToChar(c) : c \in Chars}
Cleared == [a \in Addr |-> NUL]
Idle    == [fn |-> "none"]

Init == mem \in [Addr -> Cells] /\ call = Idle

span(s, n) == s..(s + n - 1)
isString(s) == \E k \in Addr : k >= s /\ mem[k] = NUL
apart(s1, n1, s2, n2) == span(s1, n1) \cap span(s2, n2) = {}

(***************************************************************************)
(* Calls that write memory.                                                *)
(***************************************************************************)
Stores(fn, dst, src, n, res) ==
  /\ mem' = res.mem
  /\ call' = [fn |-> fn, dst |-> dst, src |-> src, n |-> n,
              ret |-> res.ret, ok |-> res.ok]

Memset ==
  /\ call = Idle
  /\ \E s \in Addr, n \in 0..MemSize, c \in Cells :
       /\ span(s, n) \subseteq Addr
       /\ Stores("memset", s, c, n, memset(mem, s, c, n))

Memmove ==
  /\ call = Idle
  /\ \E d, s \in Addr, n \in 0..MemSize :
       /\ span(d, n) \cup span(s, n) \subseteq Addr
       /\ Stores("memmove", d, s, n, memmove(mem, d, s, n))

\* The C contract of memcpy forbids overlap.
Memcpy ==
  /\ call = Idle
  /\ \E d, s \in Addr, n \in 0..MemSize :
       /\ span(d, n) \cup span(s, n) \subseteq Addr
       /\ apart(d, n, s, n)
       /\ Stores("memcpy", d, s, n, memcpy(mem, d, s, n))

Strcpy ==
  /\ call = Idle
  /\ \E d, s \in Addr :
       /\ isString(s)
       /\ LET k == strlen(mem, s) + 1
          IN  span(d, k) \subseteq Addr /\ apart(d, k, s, k)
       /\ Stores("strcpy", d, s, 0, strcpy(mem, d, s))

Strncpy ==
  /\ call = Idle
  /\ \E d, s \in Addr, n \in 0..MemSize :
       /\ isString(s)
       /\ LET k == strlen(mem, s) + 1
              w == IF k <= n THEN k ELSE n + 1
          IN  span(d, w) \subseteq Addr /\ apart(d, w, s, k)
       /\ Stores("strncpy", d, s, n, strncpy(mem, d, s, n))

Strcat ==
  /\ call = Idle
  /\ \E d \in Addr, s \in Addr \cup {NULL} :
       /\ isString(d) /\ (s # NULL => isString(s))
       /\ LET k == strlen(mem, s) + 1
              w == strlen(mem, d) + k
          IN  s # NULL => span(d, w) \subseteq Addr /\ apart(d, w, s, k)
       /\ Stores("strcat", d, s, 0, strcat(mem, d, s))

(***************************************************************************)
(* Calls that only return a value.                                         *)
(***************************************************************************)
Returns(rec) == call' = rec /\ UNCHANGED mem

Strcmp ==
  /\ call = Idle
  /\ \E s1, s2 \in Addr, n \in 0..MemSize :
       /\ isString(s1) /\ isString(s2)
       /\ Returns([fn |-> "strcmp", s1 |-> s1, s2 |-> s2, n |-> n,
                   ret |-> strcmp(mem, s1, s2),
                   retn |-> strncmp(mem, s1, s2, n)])

Memcmp ==
  /\ call = Idle
  /\ \E s1, s2 \in Addr, n \in 0..MemSize :
       /\ span(s1, n) \cup span(s2, n) \subseteq Addr
       /\ Returns([fn |-> "memcmp", s1 |-> s1, s2 |-> s2, n |-> n,
                   ret |-> memcmp(mem, s1, s2, n)])

EdgeDwords == {Wide!dword(h, l) : h, l \in EdgeWords}

Divide ==
  /\ call = Idle /\ mem = Cleared
  /\ \/ \E a, b \in 0..Narrow!D-1 :
          b # 0 /\ Returns([fn |-> "div", a |-> a, b |-> b, size |-> Narrow!D,
                            u |-> Narrow!udivmoddi4(a, b),
                            s |-> LET x == Narrow!toSigned(a)
                                      y == Narrow!toSigned(b)
                                  IN  Narrow!divmoddi4(x, y)])
     \/ \E a, b \in EdgeDwords :
          b # 0 /\ Returns([fn |-> "div", a |-> a, b |-> b, size |-> Wide!D,
                            u |-> [q |-> Wide!udivdi3(a, b),
                                   r |-> Wide!umoddi3(a, b)],
                            s |-> LET x == Wide!toSigned(a)
                                      y == Wide!toSigned(b)
                                  IN  [q |-> Wide!divdi3(x, y),
                                       r |-> Wide!moddi3(x, y)]])

Count == /\ call = Idle /\ mem = Cleared
         /\ \E a \in 1..Wide!D-1 :
              Returns([fn |-> "count", a |-> a, clz |-> Wide!clzdi2(a),
                       ctz |-> Wide!ctzdi2(a)])

Ints == -(2^(IntBits - 1) - 1) .. (2^(IntBits - 1) - 1)

Digits == /\ call = Idle /\ mem = Cleared
          /\ \E v \in Ints :
               Returns([fn |-> "digits", v |-> v, d |-> convD(v), b |-> convB(v),
                        x |-> convX(ULong(v)), i |-> atoi(convD(v))])

Args == [d : {0, -12}, c : {0, 107}, s : {<<>>, <<65, 66>>}, x : {171}, b : {5}]

Format == /\ call = Idle /\ mem = Cleared
          /\ \E k \in 0..MaxFmt : \E fmt \in [1..k -> FmtChars], args \in Args,
                                     n \in 0..MaxN :
               Returns([fn |-> "format", fmt |-> fmt, n |-> n,
                        vs |-> vsprintf(fmt, args),
                        vsn |-> vsnprintf(n, fmt, args),
                        pr |-> printf(fmt, args)])

Return == call # Idle /\ call' = Idle /\ UNCHANGED mem

Next == \/ Memset \/ Memmove \/ Memcpy \/ Strcpy \/ Strncpy \/ Strcat
        \/ Strcmp \/ Memcmp \/ Divide \/ Count \/ Digits \/ Format \/ Return

Spec == Init /\ [][Next]_vars
-----------------------------------------------------------------------------
(***************************************************************************)
(* Properties.                                                             *)
(***************************************************************************)
Least(x, y)  == IF x < y THEN x ELSE y
Magnitude(x) == IF x < 0 THEN -x ELSE x
SignedOf(u)  == IF u >= call.size \div 2 THEN u - call.size ELSE u

\* __udivmoddi4 and the signed routines over it divide: the quotient and the
\* remainder are those of the integers, the signed ones truncate towards zero,
\* and the one quotient that does not fit, MIN / -1, wraps to MIN with
\* remainder 0.
DivisionExact ==
  call.fn = "div" =>
    LET x == SignedOf(call.a)
        y == SignedOf(call.b)
        q == Magnitude(x) \div Magnitude(y)
        s == IF (x < 0) # (y < 0) THEN -q ELSE q
    IN  /\ call.u = [q |-> call.a \div call.b, r |-> call.a % call.b]
        /\ call.s = [q |-> SignedOf(s % call.size), r |-> x - s * y]

\* __clzdi2 and __ctzdi2 find the highest and the lowest set bit of every
\* nonzero dword, also where the answer is in the other word.
BitCountsExact ==
  call.fn = "count" =>
    /\ 2^(15 - call.clz) <= call.a /\ call.a < 2^(16 - call.clz)
    /\ call.a % 2^call.ctz = 0 /\ (call.a \div 2^call.ctz) % 2 = 1

\* The bytes the routine fn should leave at dst, taken from the old memory.
Wanted(fn, dst, src, n) ==
  LET chars(s, k) == [i \in 1..k |-> mem[s + i - 1]]
      string(s)   == chars(s, strlen(mem, s))
      end == <<NUL>>
  IN  CASE fn = "memset" -> [i \in 1..n |-> src]
        [] fn \in {"memmove", "memcpy"} -> chars(src, n)
        [] fn = "strcpy"  -> string(src) \o end
        [] fn = "strncpy" -> chars(src, Least(n, strlen(mem, src))) \o end
        [] fn = "strcat"  -> string(dst)
                               \o (IF src = NULL THEN end ELSE string(src) \o end)

\* Every routine that writes leaves exactly the bytes it promises, computed
\* from the memory before the call, and touches no other cell: memmove under
\* every overlap of its operands, the string copies with their terminator and
\* with their own assertions true.
StoresExact ==
  [][call'.fn \in {"memset", "memmove", "memcpy", "strcpy", "strncpy", "strcat"} =>
       LET want == Wanted(call'.fn, call'.dst, call'.src, call'.n)
       IN  /\ call'.ok
           /\ \A a \in Addr :
                mem'[a] = IF a \in span(call'.dst, Len(want))
                          THEN want[a - call'.dst + 1] ELSE mem[a]]_vars

\* A char of a string as the comparisons see it: the end is below every char.
Place(s, k) == IF mem[s + k] = NUL THEN -1000 ELSE mem[s + k]

\* -1, 0 or 1 by the first of n positions where val differs.
FirstDiff(val(_, _), s1, s2, n) ==
  LET diff == {k \in 0..n-1 : val(s1, k) # val(s2, k)}
      k    == CHOOSE k \in diff : \A j \in diff : k <= j
  IN  IF diff = {} THEN 0 ELSE IF val(s1, k) < val(s2, k) THEN -1 ELSE 1

\* strcmp, strncmp and memcmp order their operands by the first position
\* where they differ, chars being signed for the first two and unsigned for
\* memcmp, with the end of a string below every char; 0 means equal.
OrderAgrees ==
  /\ call.fn = "strcmp" =>
       LET end == 1 + Least(strlen(mem, call.s1), strlen(mem, call.s2))
       IN  /\ call.ret  = FirstDiff(Place, call.s1, call.s2, end)
           /\ call.retn = FirstDiff(Place, call.s1, call.s2,
                                    Least(call.n, end))
  /\ call.fn = "memcmp" =>
       LET sign == FirstDiff(LAMBDA s, k : mem[s + k] % 256,
                             call.s1, call.s2, call.n)
       IN  /\ sign = 0 => call.ret = 0
           /\ sign # 0 => call.ret * sign > 0

\* The number a sequence of digit characters denotes.
Value(s, base) ==
  FoldLeft(LAMBDA v, ch : v * base + (IF ch >= ChrA THEN (ch - ChrA) + 10
                                                    ELSE ch - Chr0), 0, s)

\* What the digit loops print denotes the argument: %d for every int with a
\* negation, %x for every unsigned long, %b for every int that is not
\* negative, in digit characters without leading zeros; and atoi reads back
\* what %d printed.
DigitsDenote ==
  call.fn = "digits" =>
    LET num == IF call.v < 0 THEN Tail(call.d) ELSE call.d
        shown == {num, call.x} \cup (IF call.v < 0 THEN {} ELSE {call.b})
    IN  /\ Value(num, 10) = Magnitude(call.v)
        /\ call.v < 0 => Head(call.d) = 45
        /\ Value(call.x, 16) = call.v % 2^LongBits
        /\ call.v >= 0 => Value(call.b, 2) = call.v /\ call.i = call.v
        /\ \A s \in shown : \A i \in DOMAIN s :
             /\ s[i] \in Chr0..(Chr0 + 9) \cup ChrA..(ChrA + 5)
             /\ s[1] = Chr0 => Len(s) = 1

\* vsnprintf stores what vsprintf would, cut at n: it never writes past
\* out[n], and the output ends in a terminator exactly when it was not cut.
\* Where nothing is cut the two return the same and assert the same.
BoundedPrefix ==
  call.fn = "format" =>
    LET full == call.vs.out
    IN  IF Len(full) > call.n + 1
        THEN call.vsn.out = SubSeq(full, 1, call.n) /\ call.vsn.ret = call.n
        ELSE /\ call.vsn.out = full
             /\ call.vsn.ret = call.vs.ret /\ call.vsn.ok = call.vs.ok

\* A format in which every % starts one of %d %c %s and an ordinary character
\* follows the conversion.
Separated(fmt) == \A i \in DOMAIN fmt : fmt[i] = Pct =>
                    /\ i + 2 <= Len(fmt)
                    /\ fmt[i + 1] \in {99, 100, 115} /\ fmt[i + 2] # Pct

\* On separated formats printf shows what vsprintf stores and neither leaves
\* the format string, although printf falls out of each conversion into its
\* default case.
PrintfAgrees ==
  call.fn = "format" /\ Separated(call.fmt) =>
    /\ ~call.pr.over /\ ~call.vs.over
    /\ Append(call.pr.text, 0) = call.vs.out
=============================================================================
