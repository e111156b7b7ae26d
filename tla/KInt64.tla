------------------------------ MODULE KInt64 ------------------------------
(***************************************************************************)
(* klib/src/int64.c: the 64-bit division and bit-count routines that the   *)
(* compiler calls on targets whose registers hold half a dword.            *)
(*                                                                         *)
(* The word width is a parameter, W = 2^LogW bits (32 in the code), so     *)
(* that every pair of small dwords can be divided.  Words and unsigned     *)
(* dwords are naturals, signed dwords integers; every shift, subtraction   *)
(* and multiplication wraps as it does in the code.  The hazards are the   *)
(* shift amounts that reach the word boundary, the comparison made from a  *)
(* sign bit, and the one signed quotient that does not fit.                *)
(***************************************************************************)
EXTENDS Integers, Sequences, SequencesExt

CONSTANT LogW

W == 2^LogW
B == 2^W
D == B * B

hi(n) == n \div B
lo(n) == n % B
dword(h, l) == h * B + l
shl(x, k) == (x * 2^k) % B
shr(x, k) == x \div 2^k
isPowerOf2(x) == \E k \in 0..W-1 : x = 2^k

\* (di_int)u: the dword u read as a signed number.
toSigned(u) == IF u >= D \div 2 THEN u - D ELSE u

(***************************************************************************)
(* Bit counts: halve the word, keep the half that holds the answer, and    *)
(* add the width of the other half.  The last two bits are decoded.        *)
(***************************************************************************)
halves == [i \in 1..LogW-1 |-> W \div 2^i]

clzStep(st, s) == LET t == IF shr(st.x, s) = 0 THEN s ELSE 0
                  IN  [x |-> shr(st.x, s - t), r |-> st.r + t]

ctzStep(st, s) == LET t == IF st.x % 2^s = 0 THEN s ELSE 0
                  IN  [x |-> shr(st.x, t), r |-> st.r + t]

clzsi2(a) ==
  LET st == FoldLeft(clzStep, [x |-> a, r |-> 0], halves)
  IN  st.r + (IF st.x < 2 THEN 2 - st.x ELSE 0)

ctzsi2(a) ==
  LET st == FoldLeft(ctzStep, [x |-> a, r |-> 0], halves)
      x  == st.x % 4
  IN  st.r + (IF x % 2 = 0 THEN 2 - (x \div 2) ELSE 0)

clzdi2(a) == IF hi(a) = 0 THEN clzsi2(lo(a)) + W ELSE clzsi2(hi(a))
\* A plausible bug: the width of the low word is not added.
ctzdi2_NoWidth(a) == IF lo(a) = 0 THEN ctzsi2(hi(a)) ELSE ctzsi2(lo(a))
ctzdi2(a) == IF lo(a) = 0 THEN ctzsi2(hi(a)) + W ELSE ctzsi2(lo(a))

(***************************************************************************)
(* __udivmoddi4.  divSpecial answers the operands the loop is not for;     *)
(* divShift is the number of quotient bits left to find; divSplit sets     *)
(* q = n << (2W - sr) and r = n >> sr word by word, with no shift by a     *)
(* whole word; divStep finds one bit.                                      *)
(***************************************************************************)
QR(q, r) == [q |-> q, r |-> r]

\* clz(d) - clz(n) on the high words: negative (a large unsigned) when n < d.
highGap(n, d) == clzsi2(hi(d)) - clzsi2(hi(n))

quotientIsZero(n, d) ==
  /\ hi(d) # 0
  /\ \/ highGap(n, d) < 0
     \/ highGap(n, d) > W - (IF lo(d) = 0 THEN 2 ELSE 1)

isSpecial(n, d) ==
  \/ hi(n) = 0
  \/ lo(d) = 0 /\ (lo(n) = 0 \/ isPowerOf2(hi(d)))
  \/ hi(d) = 0 /\ isPowerOf2(lo(d))
  \/ quotientIsZero(n, d)

divSpecial(n, d) ==
  CASE hi(n) = 0 /\ hi(d) = 0 -> QR(lo(n) \div lo(d), lo(n) % lo(d))
    [] hi(n) = 0 /\ hi(d) # 0 -> QR(0, lo(n))
    [] hi(n) # 0 /\ lo(d) = 0 /\ lo(n) = 0 ->
         QR(hi(n) \div hi(d), dword(hi(n) % hi(d), 0))
    [] hi(n) # 0 /\ lo(d) = 0 /\ lo(n) # 0 /\ isPowerOf2(hi(d)) ->
         QR(shr(hi(n), ctzsi2(hi(d))), dword(hi(n) % hi(d), lo(n)))
    [] hi(n) # 0 /\ lo(d) = 1 /\ hi(d) = 0 -> QR(n, 0)
    [] hi(n) # 0 /\ lo(d) > 1 /\ hi(d) = 0 /\ isPowerOf2(lo(d)) ->
         LET sr == ctzsi2(lo(d))
         IN  QR(dword(shr(hi(n), sr), shl(hi(n), W - sr) + shr(lo(n), sr)),
                lo(n) % lo(d))
    [] OTHER -> QR(0, n)

divShift(n, d) == IF hi(d) = 0 THEN 1 + W + clzsi2(lo(d)) - clzsi2(hi(n))
                               ELSE 1 + highGap(n, d)

divSplit(n, sr) ==
  CASE sr < W -> QR(dword(shl(lo(n), W - sr), 0),
                    dword(shr(hi(n), sr), shl(hi(n), W - sr) + shr(lo(n), sr)))
    [] sr = W -> QR(dword(lo(n), 0), hi(n))
    [] sr > W -> QR(dword(shl(hi(n), 2*W - sr) + shr(lo(n), sr - W),
                          shl(lo(n), 2*W - sr)),
                    shr(hi(n), sr - W))

\* A plausible bug: compares r > d instead of r >= d.
divStep_Strict(st, d) ==
  LET r == (2 * st.r + (st.q \div (D \div 2))) % D
      s == IF (d - r) % D >= D \div 2 THEN 1 ELSE 0
  IN  [q |-> (2 * st.q + st.carry) % D, r |-> (r - d * s) % D, carry |-> s]

\* r:q shifted left by one bit with the carry, then r >= d read off the sign
\* of d - r - 1.
divStep(st, d) ==
  LET r == (2 * st.r + (st.q \div (D \div 2))) % D
      s == IF (d - r - 1) % D >= D \div 2 THEN 1 ELSE 0
  IN  [q |-> (2 * st.q + st.carry) % D, r |-> (r - d * s) % D, carry |-> s]

udivmoddi4(n, d) ==
  IF isSpecial(n, d) THEN divSpecial(n, d)
  ELSE LET sr  == divShift(n, d)
           qr  == divSplit(n, sr)
           end == FoldLeft(LAMBDA st, i : divStep(st, d),
                           [q |-> qr.q, r |-> qr.r, carry |-> 0],
                           [i \in 1..sr |-> i])
       IN  QR((2 * end.q + end.carry) % D, end.r)

udivdi3(a, b) == udivmoddi4(a, b).q
umoddi3(a, b) == udivmoddi4(a, b).r

(***************************************************************************)
(* The signed routines: (x ^ s) - s negates x when s is -1, modulo 2^2W.   *)
(***************************************************************************)
negateIf(s, x) == (IF s THEN -x ELSE x) % D

divdi3(a, b) ==
  toSigned(negateIf((a < 0) # (b < 0),
                    udivmoddi4(negateIf(a < 0, a), negateIf(b < 0, b)).q))

moddi3(a, b) ==
  toSigned(negateIf(a < 0,
                    udivmoddi4(negateIf(a < 0, a), negateIf(b < 0, b)).r))

divmoddi4(a, b) == LET d == divdi3(a, b)
                   IN  QR(d, toSigned((a - d * b) % D))
===========================================================================
