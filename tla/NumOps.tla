------------------------------- MODULE NumOps -------------------------------
(***************************************************************************)
(* The number functions of include/rockdrilla/num and the size functions   *)
(* of misc/memfun.h that are built from them, on unsigned integers of w    *)
(* bits.  Where the build has a compiler builtin (uadd, umul, popcnt) the  *)
(* fallback in the header is what is modelled.                             *)
(***************************************************************************)
EXTENDS Integers

Greater(a, b) == IF a > b THEN a ELSE b

pow2[n \in Nat] == IF n = 0 THEN 1 ELSE 2 * pow2[n - 1]

(***************************************************************************)
(* The operators &, | and >> of C on unsigned integers of w bits, the      *)
(* first two bit by bit from the lowest.                                   *)
(***************************************************************************)
and[w \in Nat] ==
  [x \in Nat |-> [y \in Nat |->
    IF w = 0 THEN 0
    ELSE (x % 2) * (y % 2) + 2 * and[w - 1][x \div 2][y \div 2]]]

or[w \in Nat] ==
  [x \in Nat |-> [y \in Nat |->
    IF w = 0 THEN 0
    ELSE Greater(x % 2, y % 2) + 2 * or[w - 1][x \div 2][y \div 2]]]

And(w, x, y) == and[w][x][y]
Or(w, x, y) == or[w][x][y]
ShiftR(x, n) == x \div pow2[n]

Wrap(w, n) == n % pow2[w]

(***************************************************************************)
(* The value of a function that returns int, half as wide as size_t, where *)
(* the caller takes it for a size_t.                                       *)
(***************************************************************************)
AsInt(w, n) ==
  LET half == pow2[w \div 2]
      low == n % half
  IN Wrap(w, IF low < half \div 2 THEN low ELSE low - half)

(***************************************************************************)
(* uadd and umul: whether the result is accepted, and the result.          *)
(***************************************************************************)
UAddStrict(w, a, b) ==  \* variant: < is <=
  [ok |-> Wrap(w, a + b) > Greater(a, b), sum |-> Wrap(w, a + b)]

UAdd(w, a, b) ==
  [ok |-> Wrap(w, a + b) >= Greater(a, b), sum |-> Wrap(w, a + b)]

UMul(w, a, b) ==
  [ok |-> Wrap(w, a * b) >= Greater(a, b), product |-> Wrap(w, a * b)]

(***************************************************************************)
(* popcnt: the sums of neighbouring bits, pairs, nibbles and bytes.        *)
(***************************************************************************)
Pairs(w, x) ==
  LET m == pow2[w] - 1 IN x - And(w, ShiftR(x, 1), m \div 3)

NibblesUnmasked(w, r) ==  \* variant: the sums of pairs may run over
  LET m == pow2[w] - 1 IN And(w, r + ShiftR(r, 2), (m \div 15) * 3)

Nibbles(w, r) ==
  LET m == pow2[w] - 1 IN
  And(w, r, (m \div 15) * 3) + And(w, ShiftR(r, 2), (m \div 15) * 3)
Bytes(w, r) ==
  LET m == pow2[w] - 1 IN And(w, r + ShiftR(r, 4), (m \div 255) * 15)
SumOfBytes(w, r) ==
  LET m == pow2[w] - 1 IN ShiftR(Wrap(w, r * (m \div 255)), w - 8)

PopCnt(w, x) == SumOfBytes(w, Bytes(w, Nibbles(w, Pairs(w, x))))

(***************************************************************************)
(* set_lower: b << 1 meets a w - 3 times, each time shifted back by one.   *)
(***************************************************************************)
LoweredUnshifted(w, v) ==  \* variant: b is v itself
  LET a[i \in Nat] ==
        IF i = 0 THEN Or(w, Or(w, v, v - 1), ShiftR(v, 1))
        ELSE ShiftR(Or(w, a[i - 1], v), 1)
  IN a

Lowered(w, v) ==
  LET b == Wrap(w, 2 * v)
      a[i \in Nat] ==
        IF i = 0 THEN Or(w, Or(w, v, v - 1), ShiftR(v, 1))
        ELSE ShiftR(Or(w, a[i - 1], b), 1)
  IN a

SetLower(w, v) == IF v = 0 THEN 0 ELSE Lowered(w, v)[w - 3]

GetMsb(w, v) == IF v = 0 THEN 0 ELSE PopCnt(w, SetLower(w, v))

SumOr0(u) == IF u.ok THEN u.sum ELSE 0
Degree2Curr(w, v) ==
  IF v = 0 THEN 0 ELSE SumOr0(UAdd(w, SetLower(w, ShiftR(v, 1)), 1))
Degree2Next(w, v) ==
  IF v = 0 THEN 1 ELSE SumOr0(UAdd(w, SetLower(w, v), 1))

(***************************************************************************)
(* roundby: up to a multiple of align, or down when that does not fit.     *)
(***************************************************************************)
Remainder(w, value, align) ==
  IF PopCnt(w, align) = 1 THEN And(w, value, align - 1) ELSE value % align

RoundByAlways(w, value, align) ==  \* variant: a multiple is rounded up too
  LET down == value - Remainder(w, value, align)
      up == UAdd(w, down, align)
  IN IF align < 2 THEN value ELSE IF up.ok THEN up.sum ELSE down

RoundBy(w, value, align) ==
  LET r == Remainder(w, value, align)
      up == UAdd(w, value - r, align)
  IN IF align < 2 \/ r = 0 THEN value ELSE IF up.ok THEN up.sum ELSE value - r

RoundByL(w, value, align) == AsInt(w, RoundBy(w, value, align))

(***************************************************************************)
(* memfun_align, for items of up to word bytes and for longer ones.        *)
(***************************************************************************)
N2dDumbShort(w, x) ==  \* variant: no shift but the first
  LET twice == Wrap(w, 2 * x) IN twice - And(w, twice, x)

N2dDumb(w, x) ==
  LET two == Or(w, x, ShiftR(x, 1))
      four == Or(w, ShiftR(x, 2), ShiftR(x, 3))
      six == Or(w, ShiftR(x, 4), ShiftR(x, 5))
      twice == Wrap(w, 2 * x)
  IN twice - And(w, twice, Or(w, Or(w, two, four), six))

MemfunAlign(w, word, length) ==
  IF length = 0 \/ PopCnt(w, length) = 1 THEN length
  ELSE IF length > word THEN RoundByL(w, length, word)
  ELSE N2dDumb(w, length)

(***************************************************************************)
(* memfun_block_align, memfun_want_realloc and the length that             *)
(* memfun_realloc_ex leaves; 0 in new means that nothing is to be done.    *)
(***************************************************************************)
BlockAlign(w, block, length) ==
  IF length = 0 THEN 0 ELSE RoundByL(w, length, block)

WantReallocRaw(w, length, extend) ==
  LET u == UAdd(w, length, extend)
  IN IF u.ok /\ u.sum > length THEN u.sum ELSE 0

WantReallocUnaligned(w, block, length, extend) ==  \* variant
  WantReallocRaw(w, length, extend)

WantRealloc(w, block, length, extend) ==
  LET a == BlockAlign(w, block, length)
      b == WantReallocRaw(w, length, extend)
      new == BlockAlign(w, block, b)
  IN IF extend = 0 \/ length > a \/ b = 0 \/ a >= b \/ b > new THEN 0 ELSE new

ReallocLength(w, block, length, extend) ==
  LET old == BlockAlign(w, block, length)
      new == WantRealloc(w, block, old, extend)
  IN IF new = 0 THEN length ELSE new

(***************************************************************************)
(* memfun_calc_growth_ex, and memfun_calc_growth with the default factor:  *)
(* what a container of such items asks for when it is full.                *)
(***************************************************************************)
CalcGrowthUnaligned(w, block, item, factor) ==  \* variant
  Greater(block, Wrap(w, item * pow2[factor]))

CalcGrowth(w, block, item, factor) ==
  IF item > block \div pow2[factor]
  THEN BlockAlign(w, block, Wrap(w, item * pow2[factor]))
  ELSE block

(***************************************************************************)
(* min_positive, of minmax.h.                                              *)
(***************************************************************************)
MinPositiveOfBoth(a, b) == IF a > b THEN b ELSE a  \* variant: no check of the sign

MinPositive(a, b) ==
  IF a < 1 THEN Greater(b, 0)
  ELSE IF b < 1 THEN Greater(a, 0)
  ELSE IF a > b THEN b ELSE a
=============================================================================
