---------------------------- MODULE StrVecProof ----------------------------
(***************************************************************************)
(* The string vectors of module StrVec, for any word, block, limits and    *)
(* lengths: strings never overlap; as long as the allocator gives what it  *)
(* is asked for, every string and every offset is inside its block, and    *)
(* <program> gets argv_init and the whole batch behind it.                 *)
(***************************************************************************)
EXTENDS StrVec, TLAPS

(***************************************************************************)
(* Multiples, and the least one that is not below a length.                *)
(***************************************************************************)
LEMMA Divided ==
  ASSUME NEW n \in Nat, NEW k \in Nat \ {0}
  PROVE  /\ n \div k \in Nat /\ n % k \in 0 .. k - 1
         /\ n = (n \div k) * k + (n % k)
<1>1. n % k \in 0 .. k - 1
  OBVIOUS
<1>2. n \div k \in Nat
  OBVIOUS
<1>3. n = (n \div k) * k + (n % k)
  OBVIOUS
<1> QED
  BY <1>1, <1>2, <1>3

LEMMA Multiplied ==
  ASSUME NEW m \in Nat, NEW n \in Nat, NEW k \in Nat
  PROVE  /\ m * k \in Nat /\ (m <= n => m * k <= n * k)
         /\ (m + n) * k = m * k + n * k /\ (m + 1) * k = m * k + k
OBVIOUS

LEMMA MultipleUnique ==
  ASSUME NEW m \in Nat, NEW n \in Nat, NEW k \in Nat \ {0}, NEW r \in 0 .. k - 1,
         m * k = n * k + r
  PROVE  r = 0
<1>1. CASE m <= n
  <2>1. m * k <= n * k /\ m * k \in Nat /\ n * k \in Nat
    BY <1>1, Multiplied
  <2> QED
    BY <2>1
<1>2. CASE n < m
  <2>1. (n + 1) * k <= m * k /\ (n + 1) * k = n * k + k /\ m * k \in Nat /\ n * k \in Nat
    BY <1>2, Multiplied
  <2> QED
    BY <2>1
<1> QED
  BY <1>1, <1>2

LEMMA MultipleAligned ==
  ASSUME NEW m \in Nat, NEW k \in Nat \ {0}
  PROVE  m * k \in Aligned(k)
<1>1. m * k \in Nat
  BY Multiplied
<1>2. /\ (m * k) \div k \in Nat /\ (m * k) % k \in 0 .. k - 1
      /\ m * k = ((m * k) \div k) * k + ((m * k) % k)
  BY <1>1, Divided
<1>3. (m * k) % k = 0
  BY <1>2, MultipleUnique
<1> QED
  BY <1>1, <1>3 DEF Aligned

LEMMA AlignedMultiple ==
  ASSUME NEW k \in Nat \ {0}, NEW n \in Aligned(k)
  PROVE  n \in Nat /\ \E m \in Nat : n = m * k
<1>1. n \in Nat /\ n % k = 0
  BY DEF Aligned
<1>2. n \div k \in Nat /\ n = (n \div k) * k + (n % k)
  BY <1>1, Divided
<1>3. (n \div k) * k \in Nat
  BY <1>2, Multiplied
<1>4. n = (n \div k) * k
  BY <1>1, <1>2, <1>3
<1> QED
  BY <1>1, <1>2, <1>4

LEMMA AlignedSum ==
  ASSUME NEW k \in Nat \ {0}, NEW a \in Aligned(k), NEW b \in Aligned(k)
  PROVE  a + b \in Aligned(k) /\ (b <= a => a - b \in Aligned(k))
<1>1. PICK m \in Nat : a = m * k
  BY AlignedMultiple
<1>2. PICK n \in Nat : b = n * k
  BY AlignedMultiple
<1>3. a + b = (m + n) * k /\ m + n \in Nat
  BY <1>1, <1>2, Multiplied
<1>4. ASSUME b <= a PROVE a - b \in Aligned(k)
  <2>1. CASE n <= m
    <3>1. m - n \in Nat /\ (m - n) + n = m
      BY <2>1
    <3>2. m * k = (m - n) * k + n * k /\ (m - n) * k \in Nat /\ n * k \in Nat
      BY <3>1, Multiplied
    <3>3. a - b = (m - n) * k
      BY <3>2, <1>1, <1>2
    <3> QED
      BY <3>1, <3>3, MultipleAligned
  <2>2. CASE m < n
    <3>1. (m + 1) * k <= n * k /\ (m + 1) * k = m * k + k /\ m * k \in Nat /\ n * k \in Nat
      BY <2>2, Multiplied
    <3> QED
      BY <3>1, <1>1, <1>2, <1>4
  <2> QED
    BY <2>1, <2>2
<1> QED
  BY <1>3, <1>4, MultipleAligned

LEMMA RoundUpLeast ==
  ASSUME NEW n \in Nat, NEW k \in Nat \ {0}
  PROVE  /\ RoundUp(n, k) \in Aligned(k) /\ RoundUp(n, k) \in Nat /\ n <= RoundUp(n, k)
         /\ \A m \in Aligned(k) : n <= m => RoundUp(n, k) <= m
<1> DEFINE q == (n + k - 1) \div k
<1>1. q \in Nat /\ n + k - 1 \in Nat /\ q * k \in Nat
      /\ n + k - 1 = q * k + ((n + k - 1) % k) /\ (n + k - 1) % k \in 0 .. k - 1
  BY Divided, Multiplied, n + k - 1 \in Nat
<1>2. RoundUp(n, k) = q * k
  BY DEF RoundUp
<1> HIDE DEF q
<1>3. q * k \in Aligned(k)
  BY <1>1, MultipleAligned
<1>4. ASSUME NEW m \in Aligned(k), n <= m PROVE q * k <= m
  <2>1. PICK j \in Nat : m = j * k
    BY AlignedMultiple
  <2>2. CASE q <= j
    BY <2>1, <2>2, <1>1, Multiplied
  <2>3. CASE j < q
    <3>1. (j + 1) * k <= q * k /\ (j + 1) * k = j * k + k /\ j * k \in Nat
      BY <2>3, <1>1, Multiplied
    <3>2. q * k <= n + k - 1
      BY <1>1
    <3>3. n <= j * k
      BY <1>4, <2>1
    <3> QED
      BY <3>1, <3>2, <3>3, <1>1
  <2> QED
    BY <2>2, <2>3, <1>1
<1>5. n <= q * k
  BY <1>1
<1> QED
  BY <1>1, <1>2, <1>3, <1>4, <1>5

LEMMA RoundUpAbove ==
  ASSUME NEW k \in Nat \ {0}, NEW b \in Aligned(k), NEW n \in Nat
  PROVE  RoundUp(b + n, k) = b + RoundUp(n, k)
<1>1. b \in Nat /\ b + n \in Nat
  BY AlignedMultiple
<1> DEFINE sum == RoundUp(b + n, k)
           up == RoundUp(n, k)
<1>2. /\ sum \in Aligned(k) /\ sum \in Nat /\ b + n <= sum
      /\ \A m \in Aligned(k) : b + n <= m => sum <= m
  BY <1>1, RoundUpLeast
<1>3. /\ up \in Aligned(k) /\ up \in Nat /\ n <= up
      /\ \A m \in Aligned(k) : n <= m => up <= m
  BY RoundUpLeast
<1> HIDE DEF sum, up
<1>4. b + up \in Aligned(k) /\ b + n <= b + up
  BY <1>1, <1>3, AlignedSum
<1>5. sum - b \in Aligned(k) /\ n <= sum - b
  <2>1. b <= sum
    BY <1>1, <1>2
  <2> QED
    BY <2>1, <1>1, <1>2, AlignedSum
<1>6. sum <= b + up /\ up <= sum - b
  BY <1>2, <1>3, <1>4, <1>5
<1>7. sum = b + up
  BY <1>1, <1>2, <1>3, <1>6
<1> QED
  BY <1>7 DEF sum, up

LEMMA BlockAligned ==
  ASSUME NEW n \in Aligned(BLOCK)
  PROVE  n \in Aligned(WORD) /\ WORD <= BLOCK
<1>1. BLOCK \in Nat \ {0} /\ WORD \in Nat \ {0} /\ BLOCK \in Aligned(WORD)
  BY StoreAssumption DEF Aligned
<1>2. PICK m \in Nat : n = m * BLOCK
  BY <1>1, AlignedMultiple
<1>3. PICK w \in Nat : BLOCK = w * WORD
  BY <1>1, AlignedMultiple
<1>4. n = (m * w) * WORD /\ m * w \in Nat
  BY <1>1, <1>2, <1>3
<1>5. w # 0
  BY <1>1, <1>3
<1>6. 1 * WORD <= w * WORD
  BY <1>1, <1>5, Multiplied
<1> QED
  BY <1>1, <1>3, <1>4, <1>6, MultipleAligned

(***************************************************************************)
(* The invariant.  What the code believes of the sizes covers what is in   *)
(* use, refused memory or not; and what it believes is true when nothing   *)
(* was refused.                                                            *)
(***************************************************************************)
LaidOut(v) ==
  /\ v.used = IF v.items = <<>> THEN 0 ELSE End(v.items[Count(v)])
  /\ \A i \in 1 .. Count(v) :
       v.items[i].at = IF i = 1 THEN 0 ELSE End(v.items[i - 1])

Covered(v) ==
  /\ v.used <= v.mem.allocated
  /\ Count(v) * WORD <= v.offsets.allocated
  /\ \A i \in 1 .. Count(v) : End(v.items[i]) <= v.used

WellFormed(v) == v \in Vector /\ LaidOut(v) /\ Covered(v)

Granted(v) == v.mem.size = v.mem.allocated /\ v.offsets.size = v.offsets.allocated

Progress ==
  /\ pc = "prepare" => curr = Empty /\ next = 1
  /\ pc \in {"copy", "check", "gather", "full"} => init.used > 0
  /\ pc # "wild"
  /\ pc = "copy" =>
       next \in 1 .. Count(init) + 1 /\ curr.items = SubSeq(init.items, 1, next - 1)
  /\ pc \in {"check", "gather", "full"} => BeginsWithInit

StrInv ==
  /\ TypeOK /\ next # 0
  /\ WellFormed(init) /\ WellFormed(curr)
  /\ ~refused => Granted(init) /\ Granted(curr) /\ Progress
  /\ ListExact

(***************************************************************************)
(* A vector and its blocks.                                                *)
(***************************************************************************)
LEMMA Parts ==
  ASSUME NEW v \in Vector
  PROVE  /\ v.used \in Aligned(WORD) /\ v.used \in Nat
         /\ v.mem \in Block /\ v.mem.allocated \in Nat /\ v.mem.size \in Nat
         /\ v.offsets \in Block /\ v.offsets.allocated \in Nat /\ v.offsets.size \in Nat
         /\ v.items \in Seq(Item) /\ Count(v) \in Nat /\ Count(v) = Len(v.items)
         /\ \A i \in 1 .. Count(v) : /\ v.items[i] \in Item
                                     /\ v.items[i].at \in Nat /\ v.items[i].len \in Nat
         /\ v = [used |-> v.used, mem |-> v.mem, offsets |-> v.offsets, items |-> v.items]
<1>1. v.used \in Aligned(WORD) /\ v.mem \in Block /\ v.offsets \in Block
      /\ v.items \in Seq(Item)
      /\ v = [used |-> v.used, mem |-> v.mem, offsets |-> v.offsets, items |-> v.items]
  BY DEF Vector
<1>2. /\ v.used \in Nat
      /\ v.mem.allocated \in Nat /\ v.mem.size \in Nat
      /\ v.offsets.allocated \in Nat /\ v.offsets.size \in Nat
  BY <1>1 DEF Block, Aligned
<1>3. Count(v) \in Nat /\ Count(v) = Len(v.items)
      /\ \A i \in 1 .. Count(v) : v.items[i] \in Item
  BY <1>1 DEF Count
<1>4. \A i \in 1 .. Count(v) : v.items[i].at \in Nat /\ v.items[i].len \in Nat
  BY <1>3 DEF Item, Aligned
<1> QED
  BY <1>1, <1>2, <1>3, <1>4

LEMMA EmptyWell == WellFormed(Empty) /\ Granted(Empty) /\ Count(Empty) = 0
<1>1. /\ Empty.used = 0 /\ Empty.mem = NoBlock /\ Empty.offsets = NoBlock
      /\ Empty.items = <<>> /\ Count(Empty) = 0
      /\ Empty = [used |-> 0, mem |-> NoBlock, offsets |-> NoBlock, items |-> <<>>]
      /\ NoBlock.allocated = 0 /\ NoBlock.size = 0
  BY DEF Empty, NoBlock, Count
<1>2. 0 * WORD = 0 /\ 0 * BLOCK = 0 /\ WORD \in Nat \ {0} /\ BLOCK \in Nat \ {0}
  BY StoreAssumption
<1>3. 0 \in Aligned(WORD) /\ 0 \in Aligned(BLOCK)
  BY <1>2, MultipleAligned
<1>4. NoBlock \in Block
  BY <1>3 DEF NoBlock, Block
<1>5. <<>> \in Seq(Item)
  OBVIOUS
<1>6. Empty \in Vector
  BY <1>1, <1>3, <1>4, <1>5 DEF Vector
<1>7. LaidOut(Empty)
  BY <1>1 DEF LaidOut
<1>8. Covered(Empty)
  BY <1>1, <1>2 DEF Covered
<1>9. Granted(Empty)
  BY <1>1 DEF Granted
<1> QED
  BY <1>1, <1>6, <1>7, <1>8, <1>9 DEF WellFormed

LEMMA ReallocWell ==
  ASSUME NEW b \in Block, NEW extend \in Nat, NEW ok \in BOOLEAN
  PROVE  LET r == ReallocEx(b, extend, ok) IN
         /\ r \in Block /\ r.allocated \in Nat /\ r.allocated \in Aligned(WORD)
         /\ b.allocated + extend <= r.allocated
         /\ r.size = IF ok THEN r.allocated ELSE b.size
<1> DEFINE first == RoundUp(b.allocated, BLOCK)
           new == RoundUp(first + extend, BLOCK)
<1>1. b.allocated \in Nat /\ b.size \in Aligned(BLOCK) /\ BLOCK \in Nat \ {0}
  BY StoreAssumption DEF Block, Aligned
<1>2. first \in Nat /\ b.allocated <= first
  BY <1>1, RoundUpLeast
<1>3. first + extend \in Nat
  BY <1>2
<1>4. new \in Aligned(BLOCK) /\ new \in Nat /\ first + extend <= new
  BY <1>1, <1>3, RoundUpLeast
<1>5. ReallocEx(b, extend, ok) = [allocated |-> new, size |-> IF ok THEN new ELSE b.size]
  BY DEF ReallocEx
<1> HIDE DEF first, new
<1>6. new \in Aligned(WORD)
  BY <1>4, BlockAligned
<1>7. b.allocated + extend <= new
  BY <1>1, <1>2, <1>4
<1> QED
  BY <1>1, <1>4, <1>5, <1>6, <1>7 DEF Block

(***************************************************************************)
(* Where a string is stored.                                               *)
(***************************************************************************)
LEMMA NewUsedIs ==
  ASSUME NEW v \in Vector, NEW len \in Nat
  PROVE  /\ NewUsed(v, len) \in Aligned(WORD) /\ NewUsed(v, len) \in Nat
         /\ NewUsed(v, len) = End([at |-> v.used, len |-> len])
         /\ v.used + len + 1 <= NewUsed(v, len)
         /\ \A m \in Aligned(WORD) : v.used + len + 1 <= m => NewUsed(v, len) <= m
<1>1. v.used \in Aligned(WORD) /\ v.used \in Nat /\ WORD \in Nat \ {0}
  BY Parts, StoreAssumption
<1>2. NewUsed(v, len) = RoundUp(v.used + (len + 1), WORD) /\ v.used + (len + 1) \in Nat
      /\ v.used + (len + 1) = v.used + len + 1 /\ len + 1 \in Nat
  BY <1>1 DEF NewUsed
<1>3. NewUsed(v, len) = v.used + RoundUp(len + 1, WORD)
  BY <1>1, <1>2, RoundUpAbove
<1>4. End([at |-> v.used, len |-> len]) = v.used + RoundUp(len + 1, WORD)
  BY DEF End
<1>5. /\ NewUsed(v, len) \in Aligned(WORD) /\ NewUsed(v, len) \in Nat
      /\ v.used + (len + 1) <= NewUsed(v, len)
      /\ \A m \in Aligned(WORD) : v.used + (len + 1) <= m => NewUsed(v, len) <= m
  BY <1>1, <1>2, RoundUpLeast
<1> QED
  BY <1>2, <1>3, <1>4, <1>5

LEMMA StoredWell ==
  ASSUME NEW v, WellFormed(v), NEW len \in Nat,
         NewUsed(v, len) <= v.mem.allocated,
         (Count(v) + 1) * WORD <= v.offsets.allocated
  PROVE  LET w == Stored(v, len) IN
         /\ WellFormed(w)
         /\ w.mem = v.mem /\ w.offsets = v.offsets /\ w.used > 0
         /\ w.items = Append(v.items, [at |-> v.used, len |-> len])
<1> DEFINE item == [at |-> v.used, len |-> len]
           w == Stored(v, len)
           n == Count(v)
<1>1. /\ v \in Vector /\ v.used \in Aligned(WORD) /\ v.used \in Nat
      /\ v.mem \in Block /\ v.offsets \in Block
      /\ v.items \in Seq(Item) /\ n \in Nat /\ n = Len(v.items)
      /\ v = [used |-> v.used, mem |-> v.mem, offsets |-> v.offsets, items |-> v.items]
      /\ v.mem.allocated \in Nat
  BY Parts DEF WellFormed
<1>2. /\ NewUsed(v, len) \in Aligned(WORD) /\ NewUsed(v, len) \in Nat
      /\ NewUsed(v, len) = End(item) /\ v.used + len + 1 <= NewUsed(v, len)
  BY <1>1, NewUsedIs
<1>3. item \in Item /\ item.at = v.used /\ item.len = len
  BY <1>1 DEF Item
<1>4. /\ w.used = NewUsed(v, len) /\ w.mem = v.mem /\ w.offsets = v.offsets
      /\ w.items = Append(v.items, item)
      /\ w = [v EXCEPT !.items = Append(v.items, item), !.used = NewUsed(v, len)]
  BY <1>1 DEF Stored, Vector
<1> HIDE DEF w, item
<1>5. /\ w.items \in Seq(Item) /\ Count(w) = n + 1 /\ w.items # <<>>
      /\ \A i \in 1 .. n : w.items[i] = v.items[i]
      /\ w.items[n + 1] = item
  BY <1>1, <1>3, <1>4 DEF Count
<1> HIDE DEF n
<1>6. w \in Vector
  <2>1. Append(v.items, item) \in Seq(Item)
    BY <1>1, <1>3
  <2> QED
    BY <1>1, <1>2, <1>4, <2>1 DEF Vector
<1>7. LaidOut(w)
  <2>1. w.used = End(w.items[Count(w)])
    BY <1>2, <1>4, <1>5
  <2>2. ASSUME NEW i \in 1 .. Count(w)
        PROVE  w.items[i].at = IF i = 1 THEN 0 ELSE End(w.items[i - 1])
    <3>1. CASE i \in 1 .. n
      <4>1. i # 1 => i - 1 \in 1 .. n
        BY <3>1, <1>1
      <4>2. v.items[i].at = IF i = 1 THEN 0 ELSE End(v.items[i - 1])
        BY <3>1 DEF WellFormed, LaidOut, n
      <4> QED
        BY <3>1, <4>1, <4>2, <1>5
    <3>2. CASE i = n + 1
      <4>1. v.used = IF v.items = <<>> THEN 0 ELSE End(v.items[n])
        BY DEF WellFormed, LaidOut, n
      <4>2. v.items = <<>> <=> i = 1
        <5>1. v.items = <<>> <=> Len(v.items) = 0
          BY <1>1
        <5> QED
          BY <5>1, <3>2, <1>1
      <4>3. i # 1 => i - 1 = n /\ n \in 1 .. n
        BY <3>2, <1>1
      <4> QED
        BY <3>2, <4>1, <4>2, <4>3, <1>3, <1>5
    <3> QED
      BY <3>1, <3>2, <1>1, <1>5
  <2> QED
    BY <2>1, <2>2, <1>5 DEF LaidOut
<1>8. Covered(w)
  <2>1. v.used <= w.used
    BY <1>1, <1>2, <1>4
  <2>2. ASSUME NEW i \in 1 .. Count(w) PROVE End(w.items[i]) <= w.used
    <3>1. CASE i \in 1 .. n
      <4>1. End(v.items[i]) <= v.used /\ End(v.items[i]) \in Nat
        <5>1. v.items[i].at \in Nat /\ v.items[i].len \in Nat
          BY <3>1, <1>1, Parts DEF n
        <5>2. v.items[i].len + 1 \in Nat /\ WORD \in Nat \ {0}
          BY <5>1, StoreAssumption
        <5>3. RoundUp(v.items[i].len + 1, WORD) \in Nat
          BY <5>2, RoundUpLeast
        <5> QED
          BY <3>1, <5>1, <5>3 DEF WellFormed, Covered, n, End
      <4> QED
        BY <3>1, <4>1, <2>1, <1>1, <1>2, <1>4, <1>5
    <3>2. CASE i = n + 1
      <4>1. End(w.items[i]) = NewUsed(v, len)
        BY <3>2, <1>2, <1>5
      <4> QED
        BY <4>1, <1>2, <1>4
    <3> QED
      BY <3>1, <3>2, <1>1, <1>5
  <2>3. Count(w) * WORD <= w.offsets.allocated
    BY <1>4, <1>5 DEF n
  <2> QED
    BY <2>2, <2>3, <1>4 DEF Covered
<1>9. w.used > 0
  BY <1>1, <1>2, <1>4
<1> QED
  BY <1>4, <1>6, <1>7, <1>8, <1>9 DEF WellFormed, w, item

(***************************************************************************)
(* str::append makes room for the string, then for its offset.             *)
(***************************************************************************)
LEMMA RoomWell ==
  ASSUME NEW v, WellFormed(v), NEW len \in Nat, NEW ok \in BOOLEAN
  PROVE  LET w == WithRoom(v, len, ok) IN
         /\ WellFormed(w) /\ w.items = v.items /\ w.used = v.used
         /\ NewUsed(v, len) <= w.mem.allocated
         /\ ok /\ Granted(v) => Granted(w) /\ (NeedsRoom(v, len) => w.mem.size > 0)
<1> DEFINE w == WithRoom(v, len, ok)
           r == ReallocEx(v.mem, len + 1, ok)
<1>1. /\ v \in Vector /\ v.used \in Nat /\ v.mem \in Block /\ v.mem.allocated \in Nat
      /\ v.used <= v.mem.allocated
  BY Parts DEF WellFormed, Covered
<1>2. NewUsed(v, len) \in Nat
      /\ \A m \in Aligned(WORD) : v.used + len + 1 <= m => NewUsed(v, len) <= m
  BY <1>1, NewUsedIs
<1>3. CASE NeedsRoom(v, len)
  <2>1. w = [v EXCEPT !.mem = r]
    BY <1>3 DEF WithRoom
  <2>2. /\ r \in Block /\ r.allocated \in Nat /\ r.allocated \in Aligned(WORD)
        /\ v.mem.allocated + (len + 1) <= r.allocated
        /\ r.size = IF ok THEN r.allocated ELSE v.mem.size
    BY <1>1, ReallocWell, len + 1 \in Nat
  <2> HIDE DEF w, r
  <2>3. w \in Vector
    BY <1>1, <2>1, <2>2 DEF Vector
  <2>4. w.items = v.items /\ w.used = v.used /\ w.mem = r /\ w.offsets = v.offsets
        /\ Count(w) = Count(v)
    BY <1>1, <2>1 DEF Vector, Count
  <2>5. v.used + len + 1 <= r.allocated /\ v.used <= r.allocated /\ r.allocated > 0
    BY <1>1, <2>2
  <2>6. NewUsed(v, len) <= r.allocated
    BY <1>2, <2>2, <2>5
  <2>7. LaidOut(w)
    BY <2>4 DEF WellFormed, LaidOut
  <2>8. Covered(w)
    BY <2>4, <2>5 DEF WellFormed, Covered
  <2>9. ok /\ Granted(v) => Granted(w) /\ w.mem.size > 0
    BY <2>2, <2>4, <2>5 DEF Granted
  <2> QED
    BY <2>3, <2>4, <2>6, <2>7, <2>8, <2>9 DEF WellFormed, w
<1>4. CASE ~NeedsRoom(v, len)
  <2>1. w = v
    BY <1>4 DEF WithRoom
  <2>2. NewUsed(v, len) <= v.mem.allocated
    BY <1>1, <1>2, <1>4 DEF NeedsRoom
  <2> HIDE DEF w
  <2> QED
    BY <1>4, <2>1, <2>2 DEF w
<1> QED
  BY <1>3, <1>4

LEMMA OffsetWell ==
  ASSUME NEW v, WellFormed(v), NEW ok \in BOOLEAN
  PROVE  LET w == WithOffset(v, ok) IN
         /\ WellFormed(w) /\ w.items = v.items /\ w.used = v.used /\ w.mem = v.mem
         /\ ok /\ Granted(v) => Granted(w) /\ ~NeedsOffset(w)
<1> DEFINE w == WithOffset(v, ok)
           r == ReallocEx(v.offsets, BLOCK, ok)
           n == Count(v)
<1>1. /\ v \in Vector /\ v.offsets \in Block /\ v.offsets.allocated \in Nat /\ n \in Nat
      /\ n * WORD <= v.offsets.allocated
      /\ BLOCK \in Nat \ {0} /\ WORD \in Nat \ {0}
  BY Parts, StoreAssumption DEF WellFormed, Covered
<1>2. /\ r \in Block /\ r.allocated \in Nat
      /\ v.offsets.allocated + BLOCK <= r.allocated
      /\ r.size = IF ok THEN r.allocated ELSE v.offsets.size
  BY <1>1, ReallocWell
<1>3. (n + 1) * WORD \in Nat /\ (n + 1) * WORD <= r.allocated /\ n * WORD <= r.allocated
      /\ r.allocated > 0
  <2>1. (n + 1) * WORD = n * WORD + WORD /\ n * WORD \in Nat
    BY <1>1, Multiplied
  <2>2. WORD <= BLOCK
    <3>1. BLOCK \in Aligned(BLOCK)
      <4>1. 1 * BLOCK = BLOCK
        BY <1>1
      <4> QED
        BY <4>1, <1>1, MultipleAligned
    <3> QED
      BY <3>1, BlockAligned
  <2> QED
    BY <2>1, <2>2, <1>1, <1>2
<1>4. CASE NeedsOffset(v) /\ r.size > 0
  <2>1. w = [v EXCEPT !.offsets = r]
    BY <1>4 DEF WithOffset
  <2> HIDE DEF w, r
  <2>2. w \in Vector
    BY <1>1, <1>2, <2>1 DEF Vector
  <2>3. w.items = v.items /\ w.used = v.used /\ w.mem = v.mem /\ w.offsets = r
        /\ Count(w) = n
    BY <1>1, <2>1 DEF Vector, Count
  <2> HIDE DEF n
  <2>4. LaidOut(w)
    BY <2>3 DEF WellFormed, LaidOut, n
  <2>5. Covered(w)
    BY <2>3, <1>3 DEF WellFormed, Covered, n
  <2>6. ~NeedsOffset(w)
    BY <2>3, <1>1, <1>2, <1>3 DEF NeedsOffset
  <2>7. ok /\ Granted(v) => Granted(w)
    BY <2>3, <1>2 DEF Granted
  <2> QED
    BY <2>2, <2>3, <2>4, <2>5, <2>6, <2>7 DEF WellFormed, w
<1>5. CASE ~(NeedsOffset(v) /\ r.size > 0)
  <2>1. w = v
    BY <1>5 DEF WithOffset
  <2>2. ok => ~NeedsOffset(v)
    BY <1>2, <1>3, <1>5
  <2> HIDE DEF w
  <2> QED
    BY <2>1, <2>2 DEF w
<1> QED
  BY <1>4, <1>5

LEMMA AppendWell ==
  ASSUME NEW v, WellFormed(v), NEW len \in Nat, NEW ok1 \in BOOLEAN, NEW ok2 \in BOOLEAN
  PROVE  LET a == AppendResult(v, len, ok1, ok2) IN
         /\ WellFormed(a.vec) /\ a.result \in {"index", "invalid", "wild"}
         /\ ok1 /\ ok2 /\ Granted(v) =>
              /\ a.result = "index" /\ Granted(a.vec) /\ a.vec.used > 0
              /\ a.vec.items = Append(v.items, [at |-> v.used, len |-> len])
<1> DEFINE v1 == WithRoom(v, len, ok1)
           v2 == WithOffset(v1, ok2)
           a == AppendResult(v, len, ok1, ok2)
           n == Count(v)
<1>1. /\ WellFormed(v1) /\ v1.items = v.items /\ v1.used = v.used
      /\ NewUsed(v, len) <= v1.mem.allocated
      /\ ok1 /\ Granted(v) => Granted(v1) /\ (NeedsRoom(v, len) => v1.mem.size > 0)
  BY RoomWell
<1>2. /\ WellFormed(v2) /\ v2.items = v1.items /\ v2.used = v1.used /\ v2.mem = v1.mem
      /\ ok2 /\ Granted(v1) => Granted(v2) /\ ~NeedsOffset(v2)
  BY <1>1, OffsetWell
<1>3. a = IF NeedsRoom(v, len) /\ v1.mem.size = 0
          THEN [vec |-> v1, result |-> "invalid"]
          ELSE IF NeedsOffset(v2)
          THEN [vec |-> v2, result |-> "invalid"]
          ELSE [vec |-> Stored(v2, len),
                result |-> IF \/ len > 0 /\ v.used + len > v2.mem.size
                              \/ (n + 1) * WORD > v2.offsets.size
                           THEN "wild" ELSE "index"]
  BY DEF AppendResult
<1> HIDE DEF v1, v2, a
<1>4. /\ v \in Vector /\ v.used \in Nat /\ n \in Nat /\ Count(v2) = n
      /\ v2 \in Vector /\ v2.offsets.allocated \in Nat /\ v2.mem.allocated \in Nat
      /\ v1 \in Vector /\ v1.mem.size \in Nat
  BY <1>1, <1>2, Parts DEF WellFormed, Count
<1>5. NewUsed(v2, len) = NewUsed(v, len) /\ NewUsed(v2, len) <= v2.mem.allocated
      /\ v.used + len + 1 <= NewUsed(v, len) /\ NewUsed(v, len) \in Nat
  BY <1>1, <1>2, <1>4, NewUsedIs DEF NewUsed
<1> HIDE DEF n
<1>6. ASSUME ~NeedsOffset(v2)
      PROVE  /\ WellFormed(Stored(v2, len))
             /\ Stored(v2, len).mem = v2.mem /\ Stored(v2, len).offsets = v2.offsets
             /\ Stored(v2, len).used > 0
             /\ Stored(v2, len).items = Append(v.items, [at |-> v.used, len |-> len])
             /\ (n + 1) * WORD <= v2.offsets.allocated
  <2>1. (Count(v2) + 1) * WORD \in Nat /\ (Count(v2) + 1) * WORD <= v2.offsets.allocated
    <3>1. Count(v2) + 1 \in Nat /\ WORD \in Nat
      BY <1>4, StoreAssumption
    <3>2. (Count(v2) + 1) * WORD \in Nat
      BY <3>1, Multiplied
    <3> QED
      BY <3>2, <1>4, <1>6 DEF NeedsOffset
  <2>2. /\ WellFormed(Stored(v2, len))
        /\ Stored(v2, len).mem = v2.mem /\ Stored(v2, len).offsets = v2.offsets
        /\ Stored(v2, len).used > 0
        /\ Stored(v2, len).items = Append(v2.items, [at |-> v2.used, len |-> len])
    BY <1>2, <1>5, <2>1, StoredWell
  <2> QED
    BY <2>1, <2>2, <1>1, <1>2, <1>4
<1>7. WellFormed(a.vec) /\ a.result \in {"index", "invalid", "wild"}
  BY <1>1, <1>2, <1>3, <1>6
<1>8. ASSUME ok1, ok2, Granted(v)
      PROVE  /\ a.result = "index" /\ Granted(a.vec) /\ a.vec.used > 0
             /\ a.vec.items = Append(v.items, [at |-> v.used, len |-> len])
  <2>1. Granted(v2) /\ ~NeedsOffset(v2) /\ ~(NeedsRoom(v, len) /\ v1.mem.size = 0)
    BY <1>1, <1>2, <1>4, <1>8
  <2>2. v2.mem.size = v2.mem.allocated /\ v2.offsets.size = v2.offsets.allocated
    BY <2>1 DEF Granted
  <2>3. ~(v.used + len > v2.mem.size)
    BY <1>4, <1>5, <2>2
  <2>4. ~((n + 1) * WORD > v2.offsets.size)
    <3>1. (n + 1) * WORD <= v2.offsets.allocated /\ (n + 1) * WORD \in Nat
      BY <1>4, <1>6, <2>1, Multiplied, StoreAssumption, n + 1 \in Nat
    <3> QED
      BY <3>1, <2>2, <1>4
  <2>5. a = [vec |-> Stored(v2, len), result |-> "index"]
    BY <1>3, <2>1, <2>3, <2>4
  <2>6. Granted(Stored(v2, len))
    BY <1>6, <2>1 DEF Granted
  <2> QED
    BY <1>6, <2>1, <2>5, <2>6
<1> QED
  BY <1>7, <1>8 DEF a

(***************************************************************************)
(* Each step keeps the invariant.                                          *)
(***************************************************************************)
LEMMA StrInit == Init => StrInv
<1> SUFFICES ASSUME Init PROVE StrInv
  OBVIOUS
<1>1. /\ init = Empty /\ curr = Empty /\ pc = "prepare" /\ next = 1 /\ list = NoList
      /\ refused = FALSE
  BY DEF Init
<1>2. NoList \in [strings : Seq(Aligned(WORD)), size : Nat]
  <2>1. <<>> \in Seq(Aligned(WORD))
    OBVIOUS
  <2> QED
    BY <2>1 DEF NoList
<1>3. WellFormed(Empty) /\ Granted(Empty) /\ Empty \in Vector
  BY EmptyWell DEF WellFormed
<1>4. TypeOK
  BY <1>1, <1>2, <1>3 DEF TypeOK
<1>5. Progress /\ ListExact
  BY <1>1 DEF Progress, ListExact
<1> QED
  BY <1>1, <1>3, <1>4, <1>5 DEF StrInv

LEMMA OutcomesAre ==
  ASSUME NEW v, NEW len, NEW o \in Outcomes(v, len)
  PROVE  o[1] \in BOOLEAN /\ o[2] \in BOOLEAN
BY StoreAssumption DEF Outcomes

LEMMA PrepareKeeps ==
  ASSUME StrInv, Prepare
  PROVE  StrInv'
<1>0. PICK len \in Lens : \E o \in Outcomes(init, len) :
        /\ init' = AppendResult(init, len, o[1], o[2]).vec
        /\ pc' = IF AppendResult(init, len, o[1], o[2]).result = "wild" THEN "wild" ELSE pc
        /\ refused' = (refused \/ ~o[1] \/ ~o[2])
  BY DEF Prepare
<1>1. PICK o \in Outcomes(init, len) :
        /\ init' = AppendResult(init, len, o[1], o[2]).vec
        /\ pc' = IF AppendResult(init, len, o[1], o[2]).result = "wild" THEN "wild" ELSE pc
        /\ refused' = (refused \/ ~o[1] \/ ~o[2])
  BY <1>0
<1> DEFINE a == AppendResult(init, len, o[1], o[2])
<1>2. len \in Nat /\ o[1] \in BOOLEAN /\ o[2] \in BOOLEAN /\ WellFormed(init)
  BY StoreAssumption, OutcomesAre DEF StrInv
<1>3. /\ WellFormed(a.vec) /\ a.result \in {"index", "invalid", "wild"}
      /\ o[1] /\ o[2] /\ Granted(init) => a.result = "index" /\ Granted(a.vec)
  BY <1>2, AppendWell
<1>4. /\ init' = a.vec /\ pc' = (IF a.result = "wild" THEN "wild" ELSE pc)
      /\ refused' = (refused \/ ~o[1] \/ ~o[2])
  BY <1>1
<1> HIDE DEF a
<1>5. pc = "prepare" /\ curr' = curr /\ next' = next /\ list' = list /\ TypeOK
      /\ WellFormed(curr)
  BY DEF Prepare, StrInv
<1>6. TypeOK'
  <2>1. init' \in Vector
    BY <1>3, <1>4 DEF WellFormed
  <2>2. refused' \in BOOLEAN
    BY <1>4, <1>5 DEF TypeOK
  <2> QED
    BY <1>4, <1>5, <2>1, <2>2 DEF TypeOK
<1>7. ASSUME ~refused' PROVE Granted(init') /\ Granted(curr') /\ Progress'
  <2>1. ~refused /\ o[1] /\ o[2] /\ Granted(init) /\ Granted(curr) /\ Progress
    BY <1>4, <1>7 DEF StrInv
  <2>2. a.result = "index" /\ Granted(a.vec)
    BY <2>1, <1>3
  <2>3. pc' = "prepare" /\ curr' = Empty /\ next' = 1
    BY <2>1, <2>2, <1>4, <1>5 DEF Progress
  <2> QED
    BY <2>1, <2>2, <2>3, <1>4, <1>5 DEF Progress
<1>8. ListExact'
  BY <1>4, <1>5 DEF ListExact
<1> QED
  BY <1>3, <1>4, <1>5, <1>6, <1>7, <1>8 DEF StrInv

LEMMA RunKeeps ==
  ASSUME StrInv, Run
  PROVE  StrInv'
<1>1. /\ pc = "prepare" /\ pc' = "copy" /\ init' = init /\ curr' = curr /\ next' = next
      /\ list' = list /\ refused' = refused /\ (init.used > 0 \/ refused)
  BY DEF Run
<1>2. ASSUME ~refused PROVE Progress'
  <2>1. curr = Empty /\ next = 1 /\ init.used > 0
    BY <1>1, <1>2 DEF StrInv, Progress
  <2>2. /\ curr.items = <<>> /\ Count(init) \in Nat /\ init.items \in Seq(Item)
    BY <2>1, Parts DEF StrInv, WellFormed, Empty
  <2>3. SubSeq(init.items, 1, 0) = <<>>
    BY <2>2
  <2> QED
    BY <1>1, <2>1, <2>2, <2>3 DEF Progress
<1>3. TypeOK'
  BY <1>1 DEF StrInv, TypeOK
<1>4. ListExact'
  BY <1>1 DEF ListExact
<1> QED
  BY <1>1, <1>2, <1>3, <1>4 DEF StrInv

LEMMA SameTypes ==
  ASSUME StrInv, WellFormed(curr'), init' = init, list' = list, next' \in Nat,
         pc' \in {"prepare", "copy", "check", "gather", "fail", "wild"},
         refused' \in BOOLEAN
  PROVE  TypeOK' /\ WellFormed(init') /\ ListExact'
<1>1. TypeOK'
  BY DEF StrInv, TypeOK, WellFormed
<1> QED
  BY <1>1 DEF StrInv, ListExact

LEMMA FirstItems ==
  ASSUME NEW s \in Seq(Item), NEW t \in Seq(Item), NEW n \in 0 .. Len(s) - 1,
         t = SubSeq(s, 1, n), NEW item \in Item, item = s[n + 1]
  PROVE  Append(t, item) = SubSeq(s, 1, n + 1)
OBVIOUS

LEMMA CopyItemKeeps ==
  ASSUME StrInv, CopyItem
  PROVE  StrInv'
<1> DEFINE item == init.items[next]
<1>1. PICK o \in Outcomes(curr, item.len) :
        /\ curr' = AppendResult(curr, item.len, o[1], o[2]).vec
        /\ pc' = Goto(AppendResult(curr, item.len, o[1], o[2]).result, "copy", "check")
        /\ refused' = (refused \/ ~o[1] \/ ~o[2])
  BY DEF CopyItem
<1>2. /\ pc = "copy" /\ next <= Count(init) /\ next' = next + 1 /\ init' = init
      /\ list' = list /\ next \in Nat /\ refused \in BOOLEAN
      /\ WellFormed(init) /\ WellFormed(curr)
  BY DEF CopyItem, StrInv, TypeOK
<1>3. /\ init.items \in Seq(Item) /\ curr.items \in Seq(Item)
      /\ Count(init) = Len(init.items) /\ Count(curr) = Len(curr.items)
      /\ \A i \in 1 .. Count(init) : /\ init.items[i] \in Item
                                     /\ init.items[i].len \in Nat
  BY <1>2, Parts DEF WellFormed
<1> DEFINE a == AppendResult(curr, item.len, o[1], o[2])
<1>4. next \in 1 .. Count(init) /\ item \in Item /\ item.len \in Nat
      /\ o[1] \in BOOLEAN /\ o[2] \in BOOLEAN
  BY <1>2, <1>3, OutcomesAre DEF StrInv
<1>5. /\ WellFormed(a.vec) /\ a.result \in {"index", "invalid", "wild"}
      /\ o[1] /\ o[2] /\ Granted(curr) =>
           /\ a.result = "index" /\ Granted(a.vec)
           /\ a.vec.items = Append(curr.items, [at |-> curr.used, len |-> item.len])
  <2>1. /\ WellFormed(curr) /\ item.len \in Nat
        /\ o[1] \in BOOLEAN /\ o[2] \in BOOLEAN
    BY <1>2, <1>4
  <2> HIDE DEF item
  <2> QED
    BY <2>1, AppendWell
<1>6. /\ curr' = a.vec /\ pc' = Goto(a.result, "copy", "check")
      /\ refused' = (refused \/ ~o[1] \/ ~o[2])
  BY <1>1
<1> HIDE DEF a, item
<1>7. pc' \in {"copy", "check", "wild"} /\ refused' \in BOOLEAN /\ next' \in Nat
      /\ next' # 0 /\ WellFormed(curr')
  BY <1>2, <1>5, <1>6 DEF Goto
<1>8. TypeOK' /\ WellFormed(init') /\ ListExact'
  BY <1>2, <1>7, SameTypes
<1>9. ASSUME ~refused' PROVE Granted(init') /\ Granted(curr') /\ Progress'
  <2>1. ~refused /\ o[1] /\ o[2] /\ Granted(init) /\ Granted(curr) /\ Progress
    BY <1>6, <1>9 DEF StrInv
  <2>2. /\ Granted(curr') /\ pc' = "copy"
        /\ curr'.items = Append(curr.items, [at |-> curr.used, len |-> item.len])
    BY <2>1, <1>5, <1>6 DEF Goto
  <2>3. init.used > 0 /\ curr.items = SubSeq(init.items, 1, next - 1)
    BY <2>1, <1>2 DEF Progress
  <2>4. /\ Count(curr) = next - 1
        /\ \A i \in 1 .. next - 1 : curr.items[i] = init.items[i]
    BY <2>3, <1>3, <1>4
  <2>5. curr.used = item.at
    <3>1. curr.used = IF curr.items = <<>> THEN 0 ELSE End(curr.items[Count(curr)])
      BY <1>2 DEF WellFormed, LaidOut
    <3>2. item.at = IF next = 1 THEN 0 ELSE End(init.items[next - 1])
      BY <1>2, <1>4 DEF WellFormed, LaidOut, item
    <3>3. curr.items = <<>> <=> next = 1
      <4>1. curr.items = <<>> <=> Len(curr.items) = 0
        BY <1>3
      <4> QED
        BY <4>1, <2>4, <1>3, <1>4
    <3>4. next # 1 => next - 1 \in 1 .. next - 1
      BY <1>4
    <3> QED
      BY <3>1, <3>2, <3>3, <3>4, <2>4
  <2>6. item = [at |-> curr.used, len |-> item.len]
    BY <2>5, <1>4 DEF Item
  <2>7. curr'.items = SubSeq(init.items, 1, next)
    <3>1. next - 1 \in 0 .. Len(init.items) - 1 /\ (next - 1) + 1 = next
      BY <1>3, <1>4
    <3>2. curr'.items = Append(curr.items, item)
      BY <2>2, <2>6
    <3> QED
      BY <3>1, <3>2, <2>3, <1>3, <1>4, FirstItems DEF item
  <2>8. next' \in 1 .. Count(init) + 1 /\ next' - 1 = next
    BY <1>2, <1>3, <1>4
  <2> QED
    BY <2>1, <2>2, <2>3, <2>7, <2>8, <1>2 DEF Progress
<1> QED
  BY <1>7, <1>8, <1>9 DEF StrInv

LEMMA CopyDoneKeeps ==
  ASSUME StrInv, CopyDone
  PROVE  StrInv'
<1>1. /\ pc = "copy" /\ pc' = "check" /\ init' = init /\ curr' = curr /\ next' = next
      /\ list' = list /\ refused' = refused
      /\ (next > Count(init) \/ init.mem.size = 0)
      /\ next \in Nat /\ refused \in BOOLEAN /\ WellFormed(curr) /\ WellFormed(init)
  BY DEF CopyDone, StrInv, TypeOK
<1>2. TypeOK' /\ WellFormed(init') /\ ListExact'
  BY <1>1, SameTypes
<1>3. ASSUME ~refused PROVE Progress'
  <2>1. /\ init.used > 0 /\ Granted(init) /\ next \in 1 .. Count(init) + 1
        /\ curr.items = SubSeq(init.items, 1, next - 1)
    BY <1>1, <1>3 DEF StrInv, Progress
  <2>2. /\ init.used \in Nat /\ init.mem.size \in Nat /\ init.items \in Seq(Item)
        /\ Count(init) = Len(init.items) /\ Count(init) \in Nat
        /\ Count(curr) = Len(curr.items)
    BY <1>1, Parts DEF WellFormed
  <2>3. init.mem.size # 0
    BY <1>1, <2>1, <2>2 DEF Granted, WellFormed, Covered
  <2>4. next - 1 = Len(init.items)
    BY <1>1, <2>1, <2>2, <2>3
  <2>5. curr.items = init.items
    BY <2>1, <2>2, <2>4
  <2>6. BeginsWithInit
    BY <2>2, <2>5 DEF BeginsWithInit
  <2>7. BeginsWithInit'
    BY <2>6, <1>1 DEF BeginsWithInit, Count
  <2> QED
    BY <1>1, <2>1, <2>7 DEF Progress
<1> QED
  BY <1>1, <1>2, <1>3 DEF StrInv

LEMMA CheckKeeps ==
  ASSUME StrInv, CheckAllocated
  PROVE  StrInv'
<1>1. /\ pc = "check" /\ pc' \in {"fail", "gather"} /\ init' = init /\ curr' = curr
      /\ next' = next /\ list' = list /\ refused' = refused
      /\ next \in Nat /\ refused \in BOOLEAN /\ WellFormed(curr)
  BY DEF CheckAllocated, StrInv, TypeOK
<1>2. TypeOK' /\ WellFormed(init') /\ ListExact'
  BY <1>1, SameTypes
<1>3. ASSUME ~refused PROVE Progress'
  BY <1>1, <1>3 DEF StrInv, Progress, BeginsWithInit, Count
<1> QED
  BY <1>1, <1>2, <1>3 DEF StrInv

LEMMA BeginsStill ==
  ASSUME NEW s \in Seq(Item), NEW t \in Seq(Item), NEW item \in Item, Len(t) <= Len(s),
         SubSeq(s, 1, Len(t)) = t
  PROVE  Len(t) <= Len(Append(s, item)) /\ SubSeq(Append(s, item), 1, Len(t)) = t
OBVIOUS

LEMMA AppendArgKeeps ==
  ASSUME StrInv, AppendArg
  PROVE  StrInv'
<1>0. PICK len \in Lens : \E o \in Outcomes(curr, len) :
        /\ curr' = AppendResult(curr, len, o[1], o[2]).vec
        /\ pc' = Goto(AppendResult(curr, len, o[1], o[2]).result, "gather", "fail")
        /\ refused' = (refused \/ ~o[1] \/ ~o[2])
  BY DEF AppendArg
<1>1. PICK o \in Outcomes(curr, len) :
        /\ curr' = AppendResult(curr, len, o[1], o[2]).vec
        /\ pc' = Goto(AppendResult(curr, len, o[1], o[2]).result, "gather", "fail")
        /\ refused' = (refused \/ ~o[1] \/ ~o[2])
  BY <1>0
<1> DEFINE a == AppendResult(curr, len, o[1], o[2])
           item == [at |-> curr.used, len |-> len]
<1>2. /\ pc = "gather" /\ init' = init /\ next' = next /\ list' = list /\ next \in Nat
      /\ refused \in BOOLEAN /\ WellFormed(init) /\ WellFormed(curr)
  BY DEF AppendArg, StrInv, TypeOK
<1>3. len \in Nat /\ o[1] \in BOOLEAN /\ o[2] \in BOOLEAN
  BY StoreAssumption, OutcomesAre
<1>4. /\ WellFormed(a.vec) /\ a.result \in {"index", "invalid", "wild"}
      /\ o[1] /\ o[2] /\ Granted(curr) =>
           a.result = "index" /\ Granted(a.vec) /\ a.vec.items = Append(curr.items, item)
  BY <1>2, <1>3, AppendWell
<1>5. /\ curr' = a.vec /\ pc' = Goto(a.result, "gather", "fail")
      /\ refused' = (refused \/ ~o[1] \/ ~o[2])
  BY <1>1
<1> HIDE DEF a
<1>6. pc' \in {"gather", "fail", "wild"} /\ refused' \in BOOLEAN /\ WellFormed(curr')
  BY <1>2, <1>4, <1>5 DEF Goto
<1>7. TypeOK' /\ WellFormed(init') /\ ListExact'
  BY <1>2, <1>6, SameTypes
<1>8. ASSUME ~refused' PROVE Granted(init') /\ Granted(curr') /\ Progress'
  <2>1. /\ ~refused /\ o[1] /\ o[2] /\ Granted(init) /\ Granted(curr)
        /\ init.used > 0 /\ BeginsWithInit
    BY <1>2, <1>5, <1>8 DEF StrInv, Progress
  <2>2. Granted(curr') /\ pc' = "gather" /\ curr'.items = Append(curr.items, item)
    BY <2>1, <1>4, <1>5 DEF Goto
  <2>3. curr.items \in Seq(Item) /\ init.items \in Seq(Item) /\ item \in Item
    BY <1>2, <1>3, Parts DEF WellFormed, Item
  <2> HIDE DEF item
  <2>4. BeginsWithInit'
    BY <2>1, <2>2, <2>3, <1>2, BeginsStill DEF BeginsWithInit, Count
  <2> QED
    BY <2>1, <2>2, <2>4, <1>2 DEF Progress
<1> QED
  BY <1>2, <1>6, <1>7, <1>8 DEF StrInv

(***************************************************************************)
(* The list has all strings, and its block has room for them and for the   *)
(* null pointer.                                                           *)
(***************************************************************************)
LEMMA BatchDoneKeeps ==
  ASSUME StrInv, BatchDone
  PROVE  StrInv'
<1>1. PICK ok \in {TRUE, ~MayFail} :
        IF Count(curr) = Count(init) THEN ok /\ UNCHANGED <<list, refused>>
        ELSE list' = PtrList(curr, ok) /\ refused' = (refused \/ ~ok)
  BY DEF BatchDone
<1>2. /\ pc = "gather" /\ pc' = "full" /\ init' = init /\ curr' = curr /\ next' = next
      /\ WellFormed(init) /\ WellFormed(curr) /\ TypeOK /\ ok \in BOOLEAN
      /\ next \in Nat /\ next # 0
  BY StoreAssumption DEF BatchDone, StrInv, TypeOK
<1> DEFINE n == Count(curr)
<1>3. /\ n \in Nat /\ n = Len(curr.items) /\ curr.items \in Seq(Item)
      /\ curr.used \in Nat /\ curr.mem.size \in Nat
      /\ \A i \in 1 .. n : /\ curr.items[i] \in Item
                           /\ curr.items[i].at \in Nat /\ curr.items[i].len \in Nat
  BY <1>2, Parts DEF WellFormed
<1>4. ListSize(n) \in Nat /\ (n + 1) * WORD <= ListSize(n)
  <2>1. (n + 1) * WORD \in Nat /\ BLOCK \in Nat \ {0}
    BY <1>3, Multiplied, StoreAssumption, n + 1 \in Nat
  <2> QED
    BY <2>1, RoundUpLeast DEF ListSize
<1> HIDE DEF n
<1>5. PtrList(curr, TRUE) = [strings |-> [i \in 1 .. n |-> curr.items[i].at],
                             size |-> ListSize(n)]
  BY DEF PtrList, n
<1>6. PtrList(curr, ok) \in [strings : Seq(Aligned(WORD)), size : Nat]
  <2>1. CASE ok
    <3>1. \A i \in 1 .. n : curr.items[i].at \in Aligned(WORD)
      BY <1>3 DEF Item
    <3>2. [i \in 1 .. n |-> curr.items[i].at] \in Seq(Aligned(WORD))
      BY <3>1, <1>3
    <3>3. PtrList(curr, ok) = [strings |-> [i \in 1 .. n |-> curr.items[i].at],
                               size |-> ListSize(n)]
      BY <2>1 DEF PtrList, n
    <3> QED
      BY <3>2, <3>3, <1>4
  <2>2. CASE ~ok
    <3>1. <<>> \in Seq(Aligned(WORD))
      OBVIOUS
    <3> QED
      BY <2>2, <3>1 DEF PtrList, NoList
  <2> QED
    BY <2>1, <2>2, <1>2
<1>7. TypeOK' /\ (~refused' => ~refused /\ ok)
  <2>1. CASE Count(curr) = Count(init)
    BY <2>1, <1>1, <1>2 DEF TypeOK
  <2>2. CASE Count(curr) # Count(init)
    BY <2>2, <1>1, <1>2, <1>6 DEF TypeOK
  <2> QED
    BY <2>1, <2>2
<1>8. ASSUME ~refused'
      PROVE  Granted(init') /\ Granted(curr') /\ Progress' /\ ListExact'
  <2>1. /\ ~refused /\ ok /\ Granted(init) /\ Granted(curr) /\ init.used > 0
        /\ BeginsWithInit
    BY <1>2, <1>7, <1>8 DEF StrInv, Progress
  <2>2. BeginsWithInit'
    BY <2>1, <1>2 DEF BeginsWithInit, Count
  <2>3. Progress'
    BY <2>1, <2>2, <1>2 DEF Progress
  <2>4. ASSUME n > Count(init)
        PROVE  /\ Len(list'.strings) = n
               /\ \A i \in 1 .. n : /\ list'.strings[i] = curr.items[i].at
                                    /\ list'.strings[i] < curr.mem.size
               /\ (n + 1) * WORD <= list'.size
    <3>1. Count(init) \in Nat /\ Count(curr) # Count(init)
      BY <2>4, <1>2, <1>3, Parts DEF WellFormed, n
    <3>2. list' = [strings |-> [i \in 1 .. n |-> curr.items[i].at], size |-> ListSize(n)]
      BY <3>1, <2>1, <1>1, <1>5
    <3>3. ASSUME NEW i \in 1 .. n PROVE curr.items[i].at < curr.mem.size
      <4>1. End(curr.items[i]) <= curr.used /\ curr.used <= curr.mem.size
        BY <1>2, <2>1 DEF WellFormed, Covered, Granted, n
      <4>2. curr.items[i].at \in Nat /\ curr.items[i].len + 1 \in Nat /\ WORD \in Nat \ {0}
        BY <1>3, StoreAssumption
      <4>3. RoundUp(curr.items[i].len + 1, WORD) \in Nat
            /\ curr.items[i].len + 1 <= RoundUp(curr.items[i].len + 1, WORD)
        BY <4>2, RoundUpLeast
      <4>4. curr.items[i].len \in Nat
        BY <1>3
      <4>5. curr.items[i].at < End(curr.items[i]) /\ End(curr.items[i]) \in Nat
        BY <4>2, <4>3, <4>4 DEF End
      <4> QED
        BY <4>1, <4>2, <4>5, <1>3
    <3> QED
      BY <3>2, <3>3, <1>3, <1>4
  <2>5. ListExact'
    <3>1. Count(curr') = n /\ Count(init') = Count(init)
      BY <1>2 DEF n
    <3> QED
      BY <2>2, <2>4, <3>1, <1>2 DEF ListExact
  <2> QED
    BY <2>1, <2>3, <2>5, <1>2
<1>9. ListExact'
  <2>1. CASE ~refused'
    BY <2>1, <1>8
  <2>2. CASE refused'
    BY <2>2 DEF ListExact
  <2> QED
    BY <2>1, <2>2
<1> QED
  BY <1>2, <1>7, <1>8, <1>9 DEF StrInv

LEMMA FreeKeeps ==
  ASSUME StrInv, Free
  PROVE  StrInv'
<1>1. /\ pc = "full" /\ pc' = "copy" /\ init' = init /\ curr' = Empty /\ next' = 1
      /\ list' = NoList /\ refused' = refused /\ WellFormed(init) /\ TypeOK
  BY DEF Free, StrInv
<1>2. WellFormed(Empty) /\ Granted(Empty) /\ Empty \in Vector /\ Empty.items = <<>>
  BY EmptyWell DEF WellFormed, Empty
<1>3. NoList \in [strings : Seq(Aligned(WORD)), size : Nat]
  <2>1. <<>> \in Seq(Aligned(WORD))
    OBVIOUS
  <2> QED
    BY <2>1 DEF NoList
<1>4. TypeOK'
  BY <1>1, <1>2, <1>3 DEF TypeOK
<1>5. ASSUME ~refused PROVE Progress'
  <2>1. init.used > 0
    BY <1>1, <1>5 DEF StrInv, Progress
  <2>2. init.items \in Seq(Item) /\ Count(init) \in Nat
    BY <1>1, Parts DEF WellFormed
  <2>3. SubSeq(init.items, 1, 0) = <<>>
    BY <2>2
  <2> QED
    BY <2>1, <2>2, <2>3, <1>1, <1>2 DEF Progress
<1>6. ListExact'
  BY <1>1 DEF ListExact
<1> QED
  BY <1>1, <1>2, <1>4, <1>5, <1>6 DEF StrInv

LEMMA StrStep == StrInv /\ [Next]_vars => StrInv'
<1> SUFFICES ASSUME StrInv, [Next]_vars PROVE StrInv'
  OBVIOUS
<1>1. CASE Prepare
  BY <1>1, PrepareKeeps
<1>2. CASE Run
  BY <1>2, RunKeeps
<1>3. CASE CopyItem
  BY <1>3, CopyItemKeeps
<1>4. CASE CopyDone
  BY <1>4, CopyDoneKeeps
<1>5. CASE CheckAllocated
  BY <1>5, CheckKeeps
<1>6. CASE AppendArg
  BY <1>6, AppendArgKeeps
<1>7. CASE BatchDone
  BY <1>7, BatchDoneKeeps
<1>8. CASE Free
  BY <1>8, FreeKeeps
<1>9. CASE UNCHANGED vars
  <2>1. /\ init' = init /\ curr' = curr /\ pc' = pc /\ next' = next /\ list' = list
        /\ refused' = refused
    BY <1>9 DEF vars
  <2>2. TypeOK' /\ WellFormed(init') /\ WellFormed(curr')
    BY <2>1 DEF StrInv, TypeOK
  <2>3. Progress => Progress'
    BY <2>1 DEF Progress, BeginsWithInit, Count
  <2>4. ListExact'
    BY <2>1 DEF StrInv, ListExact, BeginsWithInit, Count
  <2> QED
    BY <2>1, <2>2, <2>3, <2>4 DEF StrInv
<1> QED
  BY <1>1, <1>2, <1>3, <1>4, <1>5, <1>6, <1>7, <1>8, <1>9 DEF Next, Ended

(***************************************************************************)
(* Whatever realloc(3) answers, both vectors of strings are laid out back  *)
(* to back within the sizes they believe in, and argv_curr has what was    *)
(* copied and appended so far (str.hh, xvp.cc:371-377, 464-496).           *)
(***************************************************************************)
THEOREM StrInvariant == Spec => []StrInv
<1> QED
  BY StrInit, StrStep, PTL DEF Spec

(***************************************************************************)
(* Every variable of StrVec keeps its type: every string begins at a       *)
(* multiple of the word, and blocks are whole.                             *)
(***************************************************************************)
THEOREM StrTypeCorrect == Spec => []TypeOK
<1>1. StrInv => TypeOK
  BY DEF StrInv
<1> QED
  BY <1>1, StrInvariant, PTL

(***************************************************************************)
(* Strings never overlap, and _used is the end of the last one, whatever   *)
(* realloc(3) refuses.                                                     *)
(***************************************************************************)
THEOREM LayoutHolds == Spec => []Layout
<1>1. StrInv => Layout
  BY DEF StrInv, WellFormed, LaidOut, Layout
<1> QED
  BY <1>1, StrInvariant, PTL

(***************************************************************************)
(* As long as nothing is refused, no string and no offset is written       *)
(* outside of its block.                                                   *)
(***************************************************************************)
THEOREM InBlockHolds == Spec => []InBlock
<1>1. StrInv => InBlock
  BY DEF StrInv, WellFormed, Covered, Granted, InBlock
<1> QED
  BY <1>1, StrInvariant, PTL

(***************************************************************************)
(* As long as nothing is refused, <program> gets the strings of argv_init  *)
(* and the batch behind them, all inside of the block, with room for the   *)
(* null pointer.                                                           *)
(***************************************************************************)
THEOREM ListExactHolds == Spec => []ListExact
<1>1. StrInv => ListExact
  BY DEF StrInv
<1> QED
  BY <1>1, StrInvariant, PTL
=============================================================================
