------------------------------ MODULE Numbers ------------------------------
(***************************************************************************)
(* What the rest of the library takes for granted about the functions of   *)
(* module NumOps: the meaning of each, on words of any width that is a     *)
(* multiple of 8, as long as a byte can count their bits (popcnt.h is for  *)
(* 32 and 64), and for all arguments.                                      *)
(***************************************************************************)
EXTENDS NumOps, FiniteSets

CONSTANT Width   \* sizeof(t) * CHAR_BIT of the types t of the arguments

ASSUME WidthAssumption == Width \subseteq {8 * k : k \in 1 .. 31}

VARIABLE asked   \* a call: the kind of its arguments, and two of them

Word(w) == {n \in Nat : n < pow2[w]}
Unsigned(w) == [of : {"unsigned"}, w : {w}, x : Word(w), y : Word(w)]
Signed == [of : {"signed"}, x : Int, y : Int]

(***************************************************************************)
(* One call after the other, with any arguments.                           *)
(***************************************************************************)
Asked == asked \in Signed \/ \E w \in Width : asked \in Unsigned(w)
NumSpec == Asked /\ [][Asked']_asked

----------------------------------------------------------------------------
(***************************************************************************)
(* The meanings: the bits of a word, the highest of them, and the least    *)
(* multiple of align that is not below n.                                  *)
(***************************************************************************)
Bits(w, x) == {i \in 0 .. w - 1 : ShiftR(x, i) % 2 = 1}
Top(w, x) == CHOOSE i \in Bits(w, x) : \A j \in Bits(w, x) : j <= i
Multiple(n, align) == align * ((n + align - 1) \div align)

(***************************************************************************)
(* popcnt (popcnt.h:142-151) counts the bits that are set.                 *)
(***************************************************************************)
CountsBits(w, x) == PopCnt(w, x) = Cardinality(Bits(w, x))

(***************************************************************************)
(* "set all bits to 1 starting from most significant set bit" and what is  *)
(* built on that (setlower.h, getmsb.h, degree2.h), for values without the *)
(* top bit: v << 1 loses that one, and the result is then wrong.           *)
(***************************************************************************)
FindsTopBit(w, x) ==
  x > 0 /\ x < pow2[w - 1] =>
    /\ SetLower(w, x) = pow2[Top(w, x) + 1] - 1
    /\ GetMsb(w, x) = Top(w, x) + 1
    /\ Degree2Curr(w, x) = pow2[Top(w, x)]
    /\ Degree2Next(w, x) = pow2[Top(w, x) + 1]

(***************************************************************************)
(* The bit functions agree with their meaning.                             *)
(***************************************************************************)
BitFunctions ==
  asked.of = "unsigned" =>
    CountsBits(asked.w, asked.x) /\ FindsTopBit(asked.w, asked.x)

(***************************************************************************)
(* uadd accepts exactly the sums that fit (uadd.h:33-43).  umul (umul.h)   *)
(* gives the product of positive values that fits; it accepts others too.  *)
(***************************************************************************)
SafeArithmetic(w, x, y) ==
  /\ UAdd(w, x, y).ok <=> x + y < pow2[w]
  /\ UAdd(w, x, y).ok => UAdd(w, x, y).sum = x + y
  /\ x > 0 /\ y > 0 /\ x * y < pow2[w] =>
       UMul(w, x, y) = [ok |-> TRUE, product |-> x * y]

(***************************************************************************)
(* roundby gives the least multiple of align that is not below value, the  *)
(* greatest that is not above when that one does not fit; roundbyl returns *)
(* it as an int and is right as far as an int goes (roundby.h:28-37).      *)
(***************************************************************************)
RoundsUp(w, x, y) ==
  y > 0 =>
    LET up == Multiple(x, y) IN
    /\ RoundBy(w, x, y) = IF up < pow2[w] THEN up ELSE up - y
    /\ up < pow2[w \div 2 - 1] => RoundByL(w, x, y) = up

(***************************************************************************)
(* An alignment is a power of two that holds a short item, or a multiple   *)
(* of the word for a longer one, and never more than twice or a word above *)
(* the length (memfun.h:143-156).                                          *)
(***************************************************************************)
Aligns(w, x) ==
  x \in 1 .. pow2[w \div 2 - 1] - 8 =>
    LET a == MemfunAlign(w, 8, x) IN
    IF x > 8 THEN a = Multiple(x, 8)
    ELSE a \in {pow2[i] : i \in 0 .. 3} /\ x <= a /\ a < 2 * x

(***************************************************************************)
(* With an index as wide as size_t, fence_bits is the width of the item's  *)
(* size, so that the offset of no index up to idx_max wraps                *)
(* (base.hh:33-37, 50-52).                                                 *)
(***************************************************************************)
OffsetsFit(w, x) ==
  LET align == MemfunAlign(w, 8, x)
      fence == GetMsb(w, align)
  IN x \in 1 .. pow2[w \div 2 - 1] - 8 =>
       UMul(w, align, pow2[w - fence] - 1) =
         [ok |-> TRUE, product |-> align * (pow2[w - fence] - 1)]

(***************************************************************************)
(* memfun_realloc_ex asks for whole blocks that hold the old ones and the  *)
(* extension, as modules Vectors and StrVec have it (memfun.h:201-236,     *)
(* 296-309); memfun_calc_growth for whole blocks that hold 2^factor items, *)
(* and no block more (memfun.h:172-199): both as far as an int goes.       *)
(***************************************************************************)
Grows(w, x, y) ==
  LET new == Multiple(Multiple(x, 4) + y, 4)
      growth == CalcGrowth(w, 4, x, y)
  IN /\ y > 0 /\ new < pow2[w \div 2 - 1] => ReallocLength(w, 4, x, y) = new
     /\ y < 5 /\ x * pow2[y] < pow2[w \div 2 - 1] - 4 =>
          growth = IF x = 0 THEN 4 ELSE Multiple(x * pow2[y], 4)

(***************************************************************************)
(* min_positive gives the least of its arguments that is positive, 0 when  *)
(* none is (minmax.h:23-29).                                               *)
(***************************************************************************)
LeastPositive(a, b) ==
  LET positive == {n \in {a, b} : n > 0} IN
  IF positive = {} THEN MinPositive(a, b) = 0
  ELSE MinPositive(a, b) \in positive /\ \A n \in positive : MinPositive(a, b) <= n

(***************************************************************************)
(* What the containers take for granted about sums and sizes is so.        *)
(***************************************************************************)
SizeFunctions ==
  /\ asked.of = "signed" => LeastPositive(asked.x, asked.y)
  /\ asked.of = "unsigned" =>
       /\ Aligns(asked.w, asked.x) /\ OffsetsFit(asked.w, asked.x)
       /\ SafeArithmetic(asked.w, asked.x, asked.y)
       /\ RoundsUp(asked.w, asked.x, asked.y)
       /\ Grows(asked.w, asked.x, asked.y)
=============================================================================
