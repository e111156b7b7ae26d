------------------------------- MODULE KStdio -------------------------------
(***************************************************************************)
(* klib/src/stdio.c and atoi of klib/src/stdlib.c.                         *)
(*                                                                         *)
(* A format is a sequence of character codes without its terminator; a     *)
(* read just behind it sees the terminator, and a routine that steps over  *)
(* the terminator has left the string (`over').  args holds the argument   *)
(* of each kind of conversion: all the %d of one call print args.d.  The   *)
(* widths of int and of unsigned long are parameters, and the conversions  *)
(* between them wrap and extend the sign as in the code.                   *)
(***************************************************************************)
EXTENDS Integers, Sequences, SequencesExt

CONSTANTS IntBits, LongBits

ULong(v)  == v % 2^LongBits
ToInt(u)  == LET w == u % 2^IntBits
             IN  IF w >= 2^(IntBits - 1) THEN w - 2^IntBits ELSE w
ToChar(v) == LET w == v % 256 IN IF w >= 128 THEN w - 256 ELSE w

Pct == 37   \* '%'
Tab == 9
Chr0 == 48  \* '0'
ChrA == 65  \* 'A'

at(fmt, i) == IF i <= Len(fmt) THEN fmt[i] ELSE 0

m_pow_n(m, n) == FoldLeft(LAMBDA ret, i : ULong(ret * m), 1, [i \in 1..n |-> i])

\* A plausible bug: a value equal to the base counts one digit.
RECURSIVE digitCount_Short(_, _)
digitCount_Short(val_seg, base) ==
  IF val_seg <= base THEN 1 ELSE 1 + digitCount_Short(val_seg \div base, base)

\* The counting loop: divisions by the base until nothing is left; 0 has one
\* digit.
RECURSIVE digitCount(_, _)
digitCount(val_seg, base) ==
  IF val_seg < base THEN 1 ELSE 1 + digitCount(val_seg \div base, base)

\* The printing loop of %d and %b: the value is an int, the powers are
\* unsigned longs, and what is left goes back into the int.
RECURSIVE intDigits(_, _, _)
intDigits(val, base, cnt) ==
  IF cnt = 0 THEN <<>>
  ELSE LET p == m_pow_n(base, cnt - 1)
       IN  <<ToChar(Chr0 + (ULong(val) \div p))>>
             \o intDigits(ToInt(ULong(val) % p), base, cnt - 1)

RECURSIVE hexDigits(_, _)
hexDigits(val, cnt) ==
  IF cnt = 0 THEN <<>>
  ELSE LET p   == m_pow_n(16, cnt - 1)
           seg == val \div p
       IN  <<IF seg <= 9 THEN seg + Chr0 ELSE (seg - 10) + ChrA>>
             \o hexDigits(val % p, cnt - 1)

convD(v) == LET a == IF v < 0 THEN ToInt(-v) ELSE v
            IN  (IF v < 0 THEN <<45>> ELSE <<>>)
                  \o intDigits(a, 10, digitCount(ULong(a), 10))
convB(v) == intDigits(v, 2, digitCount(ULong(v), 2))
convX(u) == hexDigits(u, digitCount(u, 16))

\* What a conversion letter writes; a letter the switch does not know writes
\* nothing.  c d s % are common to all, x and b are printf's alone.
known(c)  == c \in {Pct, 99, 100, 115}
pknown(c) == known(c) \/ c \in {98, 120}
conversion(c, args) == CASE c = Pct -> <<Pct>>
                         [] c = 100 -> convD(args.d)
                         [] c = 99  -> <<args.c>>
                         [] c = 115 -> args.s
                         [] c = 98  -> convB(args.b)
                         [] c = 120 -> convX(args.x)
                         [] OTHER   -> <<>>

joined(text, rest) == [rest EXCEPT !.text = text \o @]

\* The loop of vsprintf and vsnprintf from position i: the characters it
\* produces, in order.
RECURSIVE vscan(_, _, _)
vscan(fmt, i, args) ==
  CASE at(fmt, i) = 0 -> [text |-> <<>>, over |-> FALSE]
    [] at(fmt, i) = Pct /\ at(fmt, i + 1) = 0 -> [text |-> <<>>, over |-> TRUE]
    [] at(fmt, i) = Pct /\ at(fmt, i + 1) # 0 ->
         joined(IF known(fmt[i + 1]) THEN conversion(fmt[i + 1], args) ELSE <<>>,
                vscan(fmt, i + 2, args))
    [] OTHER -> joined(<<fmt[i]>>, vscan(fmt, i + 1, args))

\* strlen(out) after the terminator was stored: a %c of 0 ends it early.
outLength(text) == CHOOSE k \in 0..Len(text) :
                     /\ at(text, k + 1) = 0
                     /\ \A j \in 1..k : text[j] # 0

\* assert(ret_num = strlen(out)) assigns: it fails when the output is empty.
vsprintf(fmt, args) ==
  LET s == vscan(fmt, 1, args)
  IN  [out |-> Append(s.text, 0), over |-> s.over,
       ret |-> outLength(s.text), ok |-> outLength(s.text) # 0]

\* A plausible bug: the limit is checked after the store.
put_Late(n, st, ch) ==
  IF st.full \/ Len(st.out) > n THEN [st EXCEPT !.full = TRUE]
  ELSE [st EXCEPT !.out = Append(@, ch)]

\* One store of vsnprintf: when the buffer is full it returns at once, with
\* no terminator.
put(n, st, ch) ==
  IF st.full \/ Len(st.out) + 1 > n THEN [st EXCEPT !.full = TRUE]
  ELSE [st EXCEPT !.out = Append(@, ch)]

vsnprintf(n, fmt, args) ==
  LET s == vscan(fmt, 1, args)
      e == FoldLeft(LAMBDA st, ch : put(n, st, ch),
                    [out |-> <<>>, full |-> FALSE], s.text)
      k == outLength(e.out)
  IN  IF e.full
      THEN [out |-> e.out, over |-> FALSE, ret |-> Len(e.out), ok |-> TRUE]
      ELSE [out |-> Append(e.out, 0), over |-> s.over, ret |-> k,
            ok |-> k # 0 /\ k <= n]

(***************************************************************************)
(* printf has no break after its inner switch: a conversion falls into the *)
(* default case, which puts the character behind it raw, whatever it is.   *)
(* When that character is the terminator the loop steps over it.  A tab    *)
(* the outer switch sees counts four.                                      *)
(***************************************************************************)
\* A plausible bug: leaves the switch after a conversion, with the pointer already moved.
RECURSIVE pscan_Skips(_, _, _)
pscan_Skips(fmt, i, args) ==
  LET c == at(fmt, i)
      k == at(fmt, i + 1)
      conv == c = Pct /\ pknown(k)
      text == IF conv THEN conversion(k, args) ELSE <<c>>
      rest == pscan_Skips(fmt, IF conv THEN i + 3 ELSE i + 1, args)
  IN  IF c = 0 THEN [text |-> <<>>, over |-> FALSE, ret |-> 0]
      ELSE [joined(text, rest) EXCEPT !.ret = Len(text) + @]

RECURSIVE pscan(_, _, _)
pscan(fmt, i, args) ==
  LET c == at(fmt, i)
      k == at(fmt, i + 1)
      j == IF c # Pct THEN i ELSE IF pknown(k) THEN i + 2 ELSE i + 1
      text == (IF c = Pct /\ pknown(k) THEN conversion(k, args) ELSE <<>>)
                \o <<at(fmt, j)>>
      num  == IF c = Tab THEN 4 ELSE Len(text)
      rest == pscan(fmt, j + 1, args)
  IN  CASE c = 0 -> [text |-> <<>>, over |-> FALSE, ret |-> 0]
        [] c # 0 /\ at(fmt, j) = 0 -> [text |-> text, over |-> TRUE, ret |-> num]
        [] OTHER -> [joined(text, rest) EXCEPT !.ret = num + @]

printf(fmt, args) == pscan(fmt, 1, args)

\* atoi: spaces, then decimal digits up to the first other character; no sign.
RECURSIVE atoiFrom(_, _, _)
atoiFrom(s, i, x) ==
  IF at(s, i) \in Chr0..(Chr0 + 9)
  THEN atoiFrom(s, i + 1, ToInt(x * 10 + (s[i] - Chr0)))
  ELSE x

atoi(s) == LET first == CHOOSE i \in 1..(Len(s) + 1) :
                          at(s, i) # 32 /\ \A j \in 1..i-1 : s[j] = 32
           IN  atoiFrom(s, first, 0)
=============================================================================
