------------------------------ MODULE NumProof ------------------------------
(***************************************************************************)
(* The functions of module NumOps mean what module Numbers says, on words  *)
(* of every width that a byte can count and for all arguments.             *)
(***************************************************************************)
EXTENDS Numbers, WellFoundedInduction, FiniteSetTheorems, TLAPS

(***************************************************************************)
(* Induction and recursion over the natural numbers, with sets and         *)
(* functions for the predicate and the step.                               *)
(***************************************************************************)
LEMMA Induction ==
  ASSUME NEW S, 0 \in S, \A n \in Nat : n \in S => n + 1 \in S
  PROVE  \A n \in Nat : n \in S
<1> DEFINE Less == {ss \in Nat \X Nat : ss[1] < ss[2]}
<1> DEFINE R == Nat \ S
<1>1. Less = OpToRel(<, Nat)
  BY Zenon DEF OpToRel
<1>2. IsWellFoundedOn(Less, Nat)
  BY <1>1, NatLessThanWellFounded, Zenon
<1> HIDE DEF Less
<1>3. ASSUME R # {}
      PROVE  FALSE
  <2>1. R \in SUBSET Nat
    OBVIOUS
  <2>2. PICK x \in R : \A y \in R : ~(<<y, x>> \in Less)
    BY <1>2, <1>3, <2>1, WFMin
  <2>3. x \in Nat /\ x # 0 /\ x - 1 \in Nat
    BY <2>2
  <2>4. x - 1 \in S => x \in S
    BY <2>3
  <2>5. x - 1 \in R
    BY <2>2, <2>3, <2>4
  <2>6. <<x - 1, x>> \in Less
    BY <2>3 DEF Less
  <2> QED
    BY <2>2, <2>5, <2>6
<1> QED
  BY <1>3

Steps(T) == [Nat -> [T -> T]]
Unfolds(f, T, base, step) ==
  f \in [Nat -> T] /\ f[0] = base /\ \A n \in Nat : f[n + 1] = step[n][f[n]]

LEMMA Recursion ==
  ASSUME NEW T, NEW base \in T, NEW step \in Steps(T)
  PROVE  \E f : Unfolds(f, T, base, step)
<1>0. step \in [Nat -> [T -> T]]
  BY DEF Steps
<1> DEFINE Part(n, g) ==
      /\ g \in [0 .. n -> T] /\ g[0] = base
      /\ \A i \in 0 .. n - 1 : g[i + 1] = step[i][g[i]]
           S == {n \in Nat : \E g : Part(n, g)}
           part(n) == CHOOSE g : Part(n, g)
           f == [n \in Nat |-> part(n)[n]]
<1>1. Part(0, [i \in 0 .. 0 |-> base])
  OBVIOUS
<1>2. ASSUME NEW n \in Nat, NEW g, Part(n, g)
      PROVE  \E h : Part(n + 1, h)
  <2> DEFINE h == [i \in 0 .. n + 1 |-> IF i <= n THEN g[i] ELSE step[n][g[n]]]
  <2>1. g[n] \in T /\ step[n][g[n]] \in T
    BY <1>0, <1>2
  <2>2. h \in [0 .. n + 1 -> T] /\ h[0] = base
    BY <1>2, <2>1
  <2>3. ASSUME NEW i \in 0 .. n + 1 - 1
        PROVE  h[i + 1] = step[i][h[i]]
    <3>1. CASE i = n
      BY <3>1
    <3>2. CASE i # n
      BY <3>2, <1>2
    <3> QED
      BY <3>1, <3>2
  <2> HIDE DEF h
  <2> QED
    BY <2>2, <2>3
<1>3. \A n \in Nat : n \in S
  <2>1. 0 \in S
    BY <1>1
  <2>2. ASSUME NEW n \in Nat, n \in S
        PROVE  n + 1 \in S
    <3> HIDE DEF Part
    <3> QED
      BY <2>2, <1>2
  <2> HIDE DEF S
  <2> QED
    BY <2>1, <2>2, Induction
<1>4. ASSUME NEW n \in Nat, NEW g, Part(n, g), NEW h, Part(n + 1, h)
      PROVE  g[n] = h[n]
  <2> DEFINE Q == {i \in Nat : i <= n => g[i] = h[i]}
  <2>1. 0 \in Q
    BY <1>4
  <2>2. ASSUME NEW i \in Nat, i \in Q
        PROVE  i + 1 \in Q
    BY <1>4, <2>2
  <2>3. n \in Q
    <3> HIDE DEF Q
    <3> QED
      BY <2>1, <2>2, Induction
  <2> QED
    BY <2>3
<1>5. ASSUME NEW n \in Nat
      PROVE  Part(n, part(n))
  <2> HIDE DEF Part
  <2> QED
    BY <1>3
<1> HIDE DEF S, part
<1>6. f \in [Nat -> T] /\ f[0] = base
  <2>1. \A n \in Nat : part(n)[n] \in T
    BY <1>5
  <2>2. part(0)[0] = base
    BY <1>5
  <2> QED
    BY <2>1, <2>2
<1>7. ASSUME NEW n \in Nat
      PROVE  f[n + 1] = step[n][f[n]]
  <2>1. Part(n, part(n)) /\ Part(n + 1, part(n + 1))
    BY <1>5
  <2>2. part(n)[n] = part(n + 1)[n]
    <3> HIDE DEF Part
    <3> QED
      BY <2>1, <1>4
  <2>3. part(n + 1)[n + 1] = step[n][part(n + 1)[n]]
    BY <2>1
  <2> QED
    BY <2>2, <2>3
<1> QED
  <2> HIDE DEF f
  <2> QED
    BY <1>6, <1>7 DEF Unfolds

LEMMA Pow2 ==
  /\ pow2 \in [Nat -> Nat \ {0}]
  /\ pow2[0] = 1 /\ \A n \in Nat : pow2[n + 1] = 2 * pow2[n]
<1> DEFINE T == Nat \ {0}
           step == [n \in Nat |-> [v \in T |-> 2 * v]]
           Is(g) == g = [n \in Nat |-> IF n = 0 THEN 1 ELSE 2 * g[n - 1]]
<1>1. step \in [Nat -> [T -> T]] /\ 1 \in T
  OBVIOUS
<1>2. PICK f : Unfolds(f, T, 1, step)
  <2>1. step \in Steps(T)
    BY <1>1 DEF Steps
  <2> HIDE DEF step, T
  <2> QED
    BY <1>1, <2>1, Recursion
<1>3. ASSUME NEW n \in Nat
      PROVE  f[n] = IF n = 0 THEN 1 ELSE 2 * f[n - 1]
  <2>1. CASE n # 0
    <3>1. n - 1 \in Nat /\ (n - 1) + 1 = n
      BY <2>1
    <3>2. f[n] = step[n - 1][f[n - 1]] /\ f[n - 1] \in T
      <4> HIDE DEF step, T
      <4> QED
        BY <3>1, <1>2 DEF Unfolds
    <3> QED
      BY <3>1, <3>2, <2>1
  <2> QED
    BY <2>1, <1>2 DEF Unfolds
<1>4. Is(f)
  <2>1. f = [n \in Nat |-> f[n]]
    BY <1>2 DEF Unfolds
  <2> QED
    BY <2>1, <1>3
<1>5. Is(pow2)
  <2>1. pow2 = CHOOSE g : Is(g)
    BY DEF pow2
  <2> HIDE DEF Is
  <2> QED
    BY <2>1, <1>4
<1>6. ASSUME NEW n \in Nat
      PROVE  pow2[n + 1] = 2 * pow2[n]
  BY <1>5
<1>7. pow2[0] = 1
  BY <1>5
<1>8. \A n \in Nat : pow2[n] \in T
  <2> DEFINE S == {n \in Nat : pow2[n] \in T}
  <2>1. 0 \in S /\ \A n \in Nat : n \in S => n + 1 \in S
    BY <1>6, <1>7
  <2>2. \A n \in Nat : n \in S
    <3> HIDE DEF S
    <3> QED
      BY <2>1, Induction
  <2> QED
    BY <2>2
<1>9. pow2 = [n \in Nat |-> pow2[n]]
  BY <1>5
<1> QED
  BY <1>6, <1>7, <1>8, <1>9

LEMMA AndDigits ==
  /\ \A w, x, y \in Nat : and[w][x][y] \in Nat
  /\ \A x, y \in Nat : and[0][x][y] = 0
  /\ \A w \in Nat \ {0}, x, y \in Nat :
       and[w][x][y] = (x % 2) * (y % 2) + 2 * and[w - 1][x \div 2][y \div 2]
<1> DEFINE T == [Nat -> [Nat -> Nat]]
           base == [x \in Nat |-> [y \in Nat |-> 0]]
           value(g, x, y) == (x % 2) * (y % 2) + 2 * g[x \div 2][y \div 2]
           next(g) == [x \in Nat |-> [y \in Nat |-> value(g, x, y)]]
           step == [w \in Nat |-> [g \in T |-> next(g)]]
           Def(g, w) ==
             [x \in Nat |-> [y \in Nat |-> IF w = 0 THEN 0 ELSE value(g[w - 1], x, y)]]
           Is(g) == g = [w \in Nat |-> Def(g, w)]
<1>1. ASSUME NEW g \in T, NEW x \in Nat, NEW y \in Nat
      PROVE  value(g, x, y) \in Nat
  <2>1. x \div 2 \in Nat /\ y \div 2 \in Nat /\ x % 2 \in Nat /\ y % 2 \in Nat
    OBVIOUS
  <2>2. g[x \div 2][y \div 2] \in Nat
    BY <2>1
  <2>3. (x % 2) * (y % 2) \in Nat
    BY <2>1
  <2>4. ASSUME NEW a \in Nat, NEW b \in Nat
        PROVE  a + 2 * b \in Nat
    OBVIOUS
  <2> QED
    BY <2>2, <2>3, <2>4
<1> HIDE DEF value
<1>2. \A g \in T : next(g) \in T
  BY <1>1
<1>3. base \in T /\ step \in Steps(T)
  <2>1. base \in T
    OBVIOUS
  <2> HIDE DEF next, T
  <2> QED
    BY <2>1, <1>2 DEF Steps
<1>4. PICK f : Unfolds(f, T, base, step)
  <2> HIDE DEF T, base, step
  <2> QED
    BY <1>3, Recursion
<1>5. ASSUME NEW w \in Nat
      PROVE  f[w] = Def(f, w)
  <2>1. CASE w = 0
    BY <2>1, <1>4 DEF Unfolds
  <2>2. CASE w # 0
    <3>1. w - 1 \in Nat /\ (w - 1) + 1 = w
      BY <2>2
    <3>2. f[w - 1] \in T /\ f[w] = step[w - 1][f[w - 1]]
      <4> HIDE DEF T, step
      <4> QED
        BY <3>1, <1>4 DEF Unfolds
    <3>3. f[w] = next(f[w - 1])
      <4> HIDE DEF T, next
      <4> QED
        BY <3>1, <3>2
    <3>4. Def(f, w) = next(f[w - 1])
      BY <2>2
    <3> QED
      BY <3>3, <3>4
  <2> QED
    BY <2>1, <2>2
<1>6. Is(and)
  <2>1. and = CHOOSE g : Is(g)
    BY DEF and, value
  <2>2. Is(f)
    <3>1. f = [w \in Nat |-> f[w]]
      BY <1>4 DEF Unfolds
    <3> HIDE DEF Def
    <3> QED
      BY <1>5, <3>1
  <2> HIDE DEF Is
  <2> QED
    BY <2>1, <2>2
<1>7. \A w \in Nat : and[w] = Def(and, w)
  <2> HIDE DEF Def
  <2> QED
    BY <1>6
<1>8. ASSUME NEW w \in Nat \ {0}, NEW x \in Nat, NEW y \in Nat
      PROVE  and[w][x][y] = value(and[w - 1], x, y)
  <2>1. and[w] = Def(and, w)
    <3> HIDE DEF Def
    <3> QED
      BY <1>7
  <2> QED
    BY <2>1
<1>9. \A n \in Nat : and[n] \in T
  <2> DEFINE S == {n \in Nat : and[n] \in T}
  <2>1. 0 \in S
    <3>1. and[0] = Def(and, 0)
      <4> HIDE DEF Def
      <4> QED
        BY <1>7
    <3> QED
      BY <3>1
  <2>2. ASSUME NEW w \in Nat, w \in S
        PROVE  w + 1 \in S
    <3>1. w + 1 \in Nat /\ w + 1 # 0 /\ (w + 1) - 1 = w
      OBVIOUS
    <3>2. and[w + 1] = Def(and, w + 1)
      <4> HIDE DEF Def
      <4> QED
        BY <1>7, <3>1
    <3>3. and[w + 1] = next(and[w])
      BY <3>1, <3>2
    <3> HIDE DEF T, next
    <3> QED
      BY <3>3, <2>2, <1>2
  <2> HIDE DEF S
  <2>3. \A n \in Nat : n \in S
    BY <2>1, <2>2, Induction
  <2> QED
    BY <2>3 DEF S
<1>10. ASSUME NEW x \in Nat, NEW y \in Nat
       PROVE  and[0][x][y] = 0
  <2>1. and[0] = Def(and, 0)
    <3> HIDE DEF Def
    <3> QED
      BY <1>7
  <2> QED
    BY <2>1
<1>11. \A w, x, y \in Nat : and[w][x][y] \in Nat
  BY <1>9
<1>12. \A w \in Nat \ {0}, x, y \in Nat : and[w][x][y] = value(and[w - 1], x, y)
  BY <1>8
<1> QED
  BY <1>10, <1>11, <1>12 DEF value

LEMMA AndNat ==
  ASSUME NEW w \in Nat, NEW x \in Nat, NEW y \in Nat
  PROVE  and[w][x][y] \in Nat /\ and[0][x][y] = 0
BY AndDigits

LEMMA AndStep ==
  ASSUME NEW w \in Nat \ {0}, NEW x \in Nat, NEW y \in Nat
  PROVE  and[w][x][y] = (x % 2) * (y % 2) + 2 * and[w - 1][x \div 2][y \div 2]
BY AndDigits

LEMMA OrDigits ==
  /\ \A w, x, y \in Nat : or[w][x][y] \in Nat
  /\ \A x, y \in Nat : or[0][x][y] = 0
  /\ \A w \in Nat \ {0}, x, y \in Nat :
       or[w][x][y] = Greater(x % 2, y % 2) + 2 * or[w - 1][x \div 2][y \div 2]
<1> DEFINE T == [Nat -> [Nat -> Nat]]
           base == [x \in Nat |-> [y \in Nat |-> 0]]
           value(g, x, y) == Greater(x % 2, y % 2) + 2 * g[x \div 2][y \div 2]
           next(g) == [x \in Nat |-> [y \in Nat |-> value(g, x, y)]]
           step == [w \in Nat |-> [g \in T |-> next(g)]]
           Def(g, w) ==
             [x \in Nat |-> [y \in Nat |-> IF w = 0 THEN 0 ELSE value(g[w - 1], x, y)]]
           Is(g) == g = [w \in Nat |-> Def(g, w)]
<1>1. ASSUME NEW g \in T, NEW x \in Nat, NEW y \in Nat
      PROVE  value(g, x, y) \in Nat
  <2>1. x \div 2 \in Nat /\ y \div 2 \in Nat /\ x % 2 \in Nat /\ y % 2 \in Nat
    OBVIOUS
  <2>2. g[x \div 2][y \div 2] \in Nat
    BY <2>1
  <2>3. Greater(x % 2, y % 2) \in Nat
    BY <2>1 DEF Greater
  <2>4. ASSUME NEW a \in Nat, NEW b \in Nat
        PROVE  a + 2 * b \in Nat
    OBVIOUS
  <2> QED
    BY <2>2, <2>3, <2>4
<1> HIDE DEF value
<1>2. \A g \in T : next(g) \in T
  BY <1>1
<1>3. base \in T /\ step \in Steps(T)
  <2>1. base \in T
    OBVIOUS
  <2> HIDE DEF next, T
  <2> QED
    BY <2>1, <1>2 DEF Steps
<1>4. PICK f : Unfolds(f, T, base, step)
  <2> HIDE DEF T, base, step
  <2> QED
    BY <1>3, Recursion
<1>5. ASSUME NEW w \in Nat
      PROVE  f[w] = Def(f, w)
  <2>1. CASE w = 0
    BY <2>1, <1>4 DEF Unfolds
  <2>2. CASE w # 0
    <3>1. w - 1 \in Nat /\ (w - 1) + 1 = w
      BY <2>2
    <3>2. f[w - 1] \in T /\ f[w] = step[w - 1][f[w - 1]]
      <4> HIDE DEF T, step
      <4> QED
        BY <3>1, <1>4 DEF Unfolds
    <3>3. f[w] = next(f[w - 1])
      <4> HIDE DEF T, next
      <4> QED
        BY <3>1, <3>2
    <3>4. Def(f, w) = next(f[w - 1])
      BY <2>2
    <3> QED
      BY <3>3, <3>4
  <2> QED
    BY <2>1, <2>2
<1>6. Is(or)
  <2>1. or = CHOOSE g : Is(g)
    BY DEF or, value
  <2>2. Is(f)
    <3>1. f = [w \in Nat |-> f[w]]
      BY <1>4 DEF Unfolds
    <3> HIDE DEF Def
    <3> QED
      BY <1>5, <3>1
  <2> HIDE DEF Is
  <2> QED
    BY <2>1, <2>2
<1>7. \A w \in Nat : or[w] = Def(or, w)
  <2> HIDE DEF Def
  <2> QED
    BY <1>6
<1>8. ASSUME NEW w \in Nat \ {0}, NEW x \in Nat, NEW y \in Nat
      PROVE  or[w][x][y] = value(or[w - 1], x, y)
  <2>1. or[w] = Def(or, w)
    <3> HIDE DEF Def
    <3> QED
      BY <1>7
  <2> QED
    BY <2>1
<1>9. \A n \in Nat : or[n] \in T
  <2> DEFINE S == {n \in Nat : or[n] \in T}
  <2>1. 0 \in S
    <3>1. or[0] = Def(or, 0)
      <4> HIDE DEF Def
      <4> QED
        BY <1>7
    <3> QED
      BY <3>1
  <2>2. ASSUME NEW w \in Nat, w \in S
        PROVE  w + 1 \in S
    <3>1. w + 1 \in Nat /\ w + 1 # 0 /\ (w + 1) - 1 = w
      OBVIOUS
    <3>2. or[w + 1] = Def(or, w + 1)
      <4> HIDE DEF Def
      <4> QED
        BY <1>7, <3>1
    <3>3. or[w + 1] = next(or[w])
      BY <3>1, <3>2
    <3> HIDE DEF T, next
    <3> QED
      BY <3>3, <2>2, <1>2
  <2> HIDE DEF S
  <2>3. \A n \in Nat : n \in S
    BY <2>1, <2>2, Induction
  <2> QED
    BY <2>3 DEF S
<1>10. ASSUME NEW x \in Nat, NEW y \in Nat
       PROVE  or[0][x][y] = 0
  <2>1. or[0] = Def(or, 0)
    <3> HIDE DEF Def
    <3> QED
      BY <1>7
  <2> QED
    BY <2>1
<1>11. \A w, x, y \in Nat : or[w][x][y] \in Nat
  BY <1>9
<1>12. \A w \in Nat \ {0}, x, y \in Nat : or[w][x][y] = value(or[w - 1], x, y)
  BY <1>8
<1> QED
  BY <1>10, <1>11, <1>12 DEF value

LEMMA LoweredSteps ==
  ASSUME NEW w \in Nat, NEW v \in Nat \ {0}
  PROVE  LET a == Lowered(w, v) IN
         /\ \A i \in Nat : a[i] \in Nat
         /\ a[0] = Or(w, Or(w, v, v - 1), ShiftR(v, 1))
         /\ \A i \in Nat : a[i + 1] = ShiftR(Or(w, a[i], Wrap(w, 2 * v)), 1)
<1> DEFINE b == Wrap(w, 2 * v)
           base == Or(w, Or(w, v, v - 1), ShiftR(v, 1))
           next(n) == ShiftR(Or(w, n, b), 1)
           step == [i \in Nat |-> [n \in Nat |-> next(n)]]
           Is(g) == g = [i \in Nat |-> IF i = 0 THEN base ELSE next(g[i - 1])]
           a == Lowered(w, v)
<1>1. /\ base \in Nat /\ b \in Nat
      /\ \A n \in Nat : next(n) \in Nat
  <2>1. \A n, k \in Nat : ShiftR(n, k) \in Nat /\ Wrap(w, n) \in Nat
    BY Pow2 DEF ShiftR, Wrap
  <2>2. \A m, n \in Nat : Or(w, m, n) \in Nat
    BY OrDigits DEF Or
  <2>3. v - 1 \in Nat /\ 2 * v \in Nat
    OBVIOUS
  <2> QED
    BY <2>1, <2>2, <2>3
<1>2. a = CHOOSE g : Is(g)
  BY DEF Lowered
<1> HIDE DEF base, b, next, a
<1>3. PICK f : Unfolds(f, Nat, base, step)
  <2>1. step \in Steps(Nat)
    BY <1>1 DEF Steps
  <2> HIDE DEF step
  <2> QED
    BY <1>1, <2>1, Recursion
<1>4. ASSUME NEW i \in Nat
      PROVE  f[i] = IF i = 0 THEN base ELSE next(f[i - 1])
  <2>1. CASE i # 0
    <3>1. i - 1 \in Nat /\ (i - 1) + 1 = i
      BY <2>1
    <3>2. f[i] = step[i - 1][f[i - 1]] /\ f[i - 1] \in Nat
      <4> HIDE DEF step
      <4> QED
        BY <3>1, <1>3 DEF Unfolds
    <3> QED
      BY <3>1, <3>2, <2>1
  <2> QED
    BY <2>1, <1>3 DEF Unfolds
<1>5. Is(a)
  <2>1. f = [i \in Nat |-> f[i]]
    BY <1>3 DEF Unfolds
  <2>2. Is(f)
    BY <2>1, <1>4
  <2> HIDE DEF Is
  <2> QED
    BY <2>2, <1>2
<1>6. a[0] = base /\ \A i \in Nat : a[i + 1] = next(a[i])
  BY <1>5
<1>7. \A i \in Nat : a[i] \in Nat
  <2> DEFINE S == {i \in Nat : a[i] \in Nat}
  <2>1. 0 \in S /\ \A i \in Nat : i \in S => i + 1 \in S
    BY <1>6, <1>1
  <2> HIDE DEF S
  <2>2. \A i \in Nat : i \in S
    BY <2>1, Induction
  <2> QED
    BY <2>2 DEF S
<1> QED
  BY <1>6, <1>7 DEF base, next, b, a

(***************************************************************************)
(* Quotients and remainders.                                               *)
(***************************************************************************)
LEMMA Times ==
  ASSUME NEW m \in Nat, NEW n \in Nat, NEW k \in Nat, m <= n
  PROVE  m * k \in Nat /\ k * m \in Nat /\ m * k <= n * k /\ k * m <= k * n
OBVIOUS

LEMMA Divided ==
  ASSUME NEW n \in Nat, NEW k \in Nat \ {0}
  PROVE  /\ n \div k \in Nat /\ n % k \in 0 .. k - 1
         /\ n = (n \div k) * k + (n % k)
<1>1. n = k * (n \div k) + (n % k)
  OBVIOUS
<1>2. n \div k \in Nat
  OBVIOUS
<1>3. n % k \in 0 .. k - 1
  OBVIOUS
<1> QED
  BY <1>1, <1>2, <1>3

LEMMA DivisionUnique ==
  ASSUME NEW n \in Nat, NEW k \in Nat \ {0}, NEW q \in Nat, NEW r \in 0 .. k - 1,
         n = q * k + r
  PROVE  n \div k = q /\ n % k = r
<1> DEFINE d == n \div k
           e == n % k
<1>1. d \in Nat /\ e \in 0 .. k - 1 /\ n = d * k + e
  BY Divided
<1> HIDE DEF d, e
<1>2. ~(d < q)
  <2>1. SUFFICES ASSUME d + 1 <= q PROVE FALSE
    BY <1>1
  <2>2. (d + 1) * k <= q * k
    BY <2>1, <1>1, Times
  <2>3. (d + 1) * k = d * k + k
    BY <1>1
  <2> QED
    BY <2>2, <2>3, <1>1
<1>3. ~(q < d)
  <2>1. SUFFICES ASSUME q + 1 <= d PROVE FALSE
    BY <1>1
  <2>2. (q + 1) * k <= d * k
    BY <2>1, <1>1, Times
  <2>3. (q + 1) * k = q * k + k
    OBVIOUS
  <2> QED
    BY <2>2, <2>3, <1>1
<1>4. d = q
  BY <1>1, <1>2, <1>3
<1>5. e = r
  BY <1>1, <1>4
<1> QED
  BY <1>4, <1>5 DEF d, e

IsProduct(c, a, b) == c = a * b

LEMMA DividedTwice ==
  ASSUME NEW x \in Nat, NEW a \in Nat \ {0}, NEW b \in Nat \ {0}, NEW c,
         IsProduct(c, a, b)
  PROVE  /\ c \in Nat \ {0}
         /\ (x \div a) \div b = x \div c
         /\ (x % c) \div a = (x \div a) % b
         /\ (x % c) % a = x % a
<1> DEFINE q == x \div a
           r == x % a
           s == q \div b
           t == q % b
<1>1. q \in Nat /\ r \in 0 .. a - 1 /\ x = q * a + r
  BY Divided
<1>2. s \in Nat /\ t \in 0 .. b - 1 /\ q = s * b + t
  BY <1>1, Divided
<1> HIDE DEF q, r, s, t
<1>0. c = a * b
  BY DEF IsProduct
<1>3. c \in Nat \ {0}
  <2>1. 1 * b <= a * b /\ a * b \in Nat
    BY Times
  <2> QED
    BY <2>1, <1>0
<1>4. t * a + r \in 0 .. c - 1
  <2>1. (t + 1) * a <= b * a /\ t * a \in Nat
    BY <1>2, Times
  <2>2. (t + 1) * a = t * a + a /\ b * a = a * b
    BY <1>2
  <2> QED
    BY <2>1, <2>2, <1>0, <1>1
<1>5. x = s * c + (t * a + r)
  BY <1>0, <1>1, <1>2
<1>6. x \div c = s /\ x % c = t * a + r
  BY <1>2, <1>3, <1>4, <1>5, DivisionUnique
<1>7. t * a + r \in Nat /\ (t * a + r) \div a = t /\ (t * a + r) % a = r
  BY <1>1, <1>2, <1>4, DivisionUnique
<1> QED
  BY <1>3, <1>6, <1>7 DEF q, r, s, t

LEMMA DividedByProduct ==
  ASSUME NEW x \in Nat, NEW a \in Nat \ {0}, NEW b \in Nat \ {0}, NEW c,
         IsProduct(c, a, b)
  PROVE  /\ (x \div a) \div b = x \div c
         /\ (x % c) \div a = (x \div a) % b /\ (x % c) % a = x % a
BY DividedTwice

LEMMA Halved ==
  ASSUME NEW x \in Nat, NEW b \in Nat \ {0}, NEW c, IsProduct(c, 2, b)
  PROVE  /\ (x \div 2) \div b = x \div c
         /\ (x % c) \div 2 = (x \div 2) % b /\ (x % c) % 2 = x % 2
<1> SUFFICES ASSUME NEW a \in Nat \ {0}, IsProduct(c, a, b), a = 2
             PROVE  /\ (x \div a) \div b = x \div c
                    /\ (x % c) \div a = (x \div a) % b /\ (x % c) % a = x % a
  OBVIOUS
<1> QED
  BY DividedByProduct

LEMMA Pow2Plus ==
  \A m, n \in Nat : pow2[m + n] = pow2[m] * pow2[n]
<1> SUFFICES ASSUME NEW n \in Nat
             PROVE  \A m \in Nat : pow2[m + n] = pow2[m] * pow2[n]
  OBVIOUS
<1> DEFINE S == {m \in Nat : pow2[m + n] = pow2[m] * pow2[n]}
<1>1. 0 \in S
  BY Pow2
<1>2. ASSUME NEW m \in Nat, m \in S
      PROVE  m + 1 \in S
  <2>1. pow2[m + 1] = 2 * pow2[m] /\ pow2[(m + n) + 1] = 2 * pow2[m + n]
    BY Pow2
  <2>2. (m + 1) + n = (m + n) + 1
    OBVIOUS
  <2>3. pow2[m] \in Nat /\ pow2[n] \in Nat
    BY Pow2
  <2> QED
    BY <2>1, <2>2, <2>3, <1>2
<1> HIDE DEF S
<1>3. \A m \in Nat : m \in S
  BY <1>1, <1>2, Induction
<1> QED
  BY <1>3 DEF S

LEMMA Pow2Monotone ==
  ASSUME NEW m \in Nat, NEW n \in Nat, m <= n
  PROVE  pow2[m] <= pow2[n]
<1>1. n - m \in Nat /\ m + (n - m) = n
  OBVIOUS
<1>2. pow2[n] = pow2[m] * pow2[n - m]
  BY <1>1, Pow2Plus
<1>3. pow2[m] \in Nat /\ pow2[n - m] \in Nat /\ 1 <= pow2[n - m]
  BY <1>1, Pow2
<1>4. pow2[m] * 1 <= pow2[m] * pow2[n - m]
  BY <1>3, Times
<1> QED
  BY <1>2, <1>3, <1>4

LEMMA WordWrap ==
  ASSUME NEW w \in Nat, NEW n \in Nat
  PROVE  /\ Wrap(w, n) \in Nat /\ Wrap(w, n) < pow2[w] /\ pow2[w] \in Nat \ {0}
         /\ n < pow2[w] => Wrap(w, n) = n
         /\ pow2[w] <= n /\ n < 2 * pow2[w] => Wrap(w, n) = n - pow2[w]
<1> DEFINE q == pow2[w]
           r == n - q
<1>1. q \in Nat \ {0}
  BY Pow2
<1> HIDE DEF q
<1>2. n % q \in 0 .. q - 1
  BY <1>1, Divided
<1>3. ASSUME n < q
      PROVE  n % q = n
  <2>1. n = 0 * q + n /\ n \in 0 .. q - 1 /\ 0 \in Nat
    BY <1>1, <1>3
  <2> QED
    BY <1>1, <2>1, DivisionUnique
<1>4. ASSUME q <= n, n < 2 * q
      PROVE  n % q = n - q
  <2>1. n = 1 * q + r /\ r \in 0 .. q - 1 /\ 1 \in Nat
    BY <1>1, <1>4
  <2> HIDE DEF r
  <2>2. n % q = r
    BY <1>1, <2>1, DivisionUnique
  <2> QED
    BY <2>2 DEF r
<1> QED
  BY <1>1, <1>2, <1>3, <1>4 DEF Wrap, q

(***************************************************************************)
(* The lower n bits of x & y and the bits above them.                      *)
(***************************************************************************)
Split(n, w, x, y) ==
  and[w + n][x][y] =
    and[n][x % pow2[n]][y % pow2[n]]
      + pow2[n] * and[w][x \div pow2[n]][y \div pow2[n]]

LEMMA AndSplit ==
  \A n, w, x, y \in Nat : Split(n, w, x, y)
<1> USE DEF Split
<1> DEFINE S == {n \in Nat : \A w, x, y \in Nat : Split(n, w, x, y)}
<1>1. 0 \in S
  <2>1. ASSUME NEW w \in Nat, NEW x \in Nat, NEW y \in Nat
        PROVE  Split(0, w, x, y)
    <3>1. x % 1 = 0 /\ y % 1 = 0 /\ x \div 1 = x /\ y \div 1 = y /\ w + 0 = w
      OBVIOUS
    <3>2. pow2[0] = 1 /\ and[0][0][0] = 0 /\ and[w][x][y] \in Nat
      BY Pow2, AndNat
    <3> QED
      BY <3>1, <3>2
  <2> QED
    BY <2>1
<1>2. ASSUME NEW n \in Nat, n \in S
      PROVE  n + 1 \in S
  <2> SUFFICES ASSUME NEW w \in Nat, NEW x \in Nat, NEW y \in Nat
               PROVE  Split(n + 1, w, x, y)
    OBVIOUS
  <2> DEFINE p == pow2[n]
             pp == pow2[n + 1]
             dx == x \div 2
             dy == y \div 2
             bit == (x % 2) * (y % 2)
             low == and[n][dx % p][dy % p]
             high == and[w][dx \div p][dy \div p]
  <2>1. p \in Nat \ {0} /\ pp \in Nat \ {0} /\ pp = 2 * p
    BY Pow2
  <2>2. dx \in Nat /\ dy \in Nat /\ x % 2 \in Nat /\ y % 2 \in Nat
    OBVIOUS
  <2>3. and[w + (n + 1)][x][y] = bit + 2 * and[w + n][dx][dy]
    <3>1. w + (n + 1) = (w + n) + 1 /\ w + n \in Nat /\ w + (n + 1) \in Nat
      OBVIOUS
    <3> DEFINE v == w + (n + 1)
    <3>2. v \in Nat \ {0} /\ v - 1 = w + n
      OBVIOUS
    <3> HIDE DEF v
    <3>3. and[v][x][y] = bit + 2 * and[v - 1][dx][dy]
      BY <3>2, AndStep
    <3> QED
      BY <3>2, <3>3 DEF v
  <2>4. and[w + n][dx][dy] = low + p * high
    <3> HIDE DEF dx, dy
    <3> QED
      BY <1>2, <2>2
  <2> HIDE DEF p, pp
  <2>0. IsProduct(pp, 2, p) /\ p \in Nat \ {0}
    BY <2>1 DEF IsProduct
  <2>5. /\ dx \div p = x \div pp /\ (x % pp) \div 2 = dx % p
        /\ (x % pp) % 2 = x % 2
    BY <2>0, Halved
  <2>6. /\ dy \div p = y \div pp /\ (y % pp) \div 2 = dy % p
        /\ (y % pp) % 2 = y % 2
    BY <2>0, Halved
  <2>7. and[n + 1][x % pp][y % pp] = bit + 2 * low
    <3>1. x % pp \in Nat /\ y % pp \in Nat
      BY <2>1, Divided
    <3>2. ASSUME NEW a \in Nat, NEW b \in Nat
          PROVE  and[n + 1][a][b] = (a % 2) * (b % 2) + 2 * and[n][a \div 2][b \div 2]
      <4> DEFINE v == n + 1
      <4>1. v \in Nat \ {0} /\ v - 1 = n
        OBVIOUS
      <4> HIDE DEF v
      <4>2. and[v][a][b] = (a % 2) * (b % 2) + 2 * and[v - 1][a \div 2][b \div 2]
        BY <4>1, AndStep
      <4> QED
        BY <4>1, <4>2 DEF v
    <3> QED
      BY <3>1, <3>2, <2>5, <2>6
  <2>8. low \in Nat /\ high \in Nat /\ bit \in Nat
    <3>1. dx % p \in Nat /\ dy % p \in Nat /\ dx \div p \in Nat /\ dy \div p \in Nat
      BY <2>1, <2>2, Divided
    <3> HIDE DEF dx, dy
    <3> QED
      BY <3>1, <2>2, AndNat
  <2>9. bit + 2 * (low + p * high) = (bit + 2 * low) + pp * high
    <3> HIDE DEF bit, low, high
    <3> QED
      BY <2>1, <2>8
  <2>10. and[w + (n + 1)][x][y]
           = and[n + 1][x % pp][y % pp] + pp * and[w][x \div pp][y \div pp]
    BY <2>3, <2>4, <2>5, <2>6, <2>7, <2>9
  <2> QED
    BY <2>10 DEF pp
<1> HIDE DEF S
<1>3. \A n \in Nat : n \in S
  BY <1>1, <1>2, Induction
<1> QED
  BY <1>3 DEF S

(***************************************************************************)
(* What x & y of two words at most is.                                     *)
(***************************************************************************)
LEMMA AndAtMost ==
  \A w, x, y \in Nat : and[w][x][y] <= x /\ and[w][x][y] <= y
<1> DEFINE S == {w \in Nat : \A x, y \in Nat : and[w][x][y] <= x /\ and[w][x][y] <= y}
<1>1. 0 \in S
  BY AndNat
<1>2. ASSUME NEW w \in Nat, w \in S
      PROVE  w + 1 \in S
  <2> SUFFICES ASSUME NEW x \in Nat, NEW y \in Nat
               PROVE  and[w + 1][x][y] <= x /\ and[w + 1][x][y] <= y
    OBVIOUS
  <2>1. x \div 2 \in Nat /\ y \div 2 \in Nat /\ x % 2 \in 0 .. 1 /\ y % 2 \in 0 .. 1
    OBVIOUS
  <2>2. and[w + 1][x][y] = (x % 2) * (y % 2) + 2 * and[w][x \div 2][y \div 2]
    <3> DEFINE v == w + 1
    <3>1. v \in Nat \ {0} /\ v - 1 = w
      OBVIOUS
    <3> HIDE DEF v
    <3>2. and[v][x][y] = (x % 2) * (y % 2) + 2 * and[v - 1][x \div 2][y \div 2]
      BY <3>1, AndStep
    <3> QED
      BY <3>1, <3>2 DEF v
  <2>3. (x % 2) * (y % 2) <= x % 2 /\ (x % 2) * (y % 2) <= y % 2
    BY <2>1
  <2>4. /\ and[w][x \div 2][y \div 2] <= x \div 2
        /\ and[w][x \div 2][y \div 2] <= y \div 2
        /\ and[w][x \div 2][y \div 2] \in Nat
    BY <1>2, <2>1, AndNat
  <2>5. x = 2 * (x \div 2) + (x % 2) /\ y = 2 * (y \div 2) + (y % 2)
    OBVIOUS
  <2>6. (x % 2) * (y % 2) \in Nat
    BY <2>1
  <2> DEFINE bit == (x % 2) * (y % 2)
             rest == and[w][x \div 2][y \div 2]
             xb == x % 2
             yb == y % 2
             xr == x \div 2
             yr == y \div 2
  <2>7. /\ and[w + 1][x][y] = bit + 2 * rest /\ bit \in Nat /\ rest \in Nat
        /\ xb \in Nat /\ yb \in Nat /\ xr \in Nat /\ yr \in Nat
        /\ bit <= xb /\ bit <= yb /\ rest <= xr /\ rest <= yr
        /\ x = 2 * xr + xb /\ y = 2 * yr + yb
    BY <2>1, <2>2, <2>3, <2>4, <2>5, <2>6
  <2> HIDE DEF bit, rest, xb, yb, xr, yr
  <2> QED
    BY <2>7
<1> HIDE DEF S
<1>3. \A w \in Nat : w \in S
  BY <1>1, <1>2, Induction
<1> QED
  BY <1>3 DEF S

(***************************************************************************)
(* The masks of popcnt on half a byte and on a byte.                       *)
(***************************************************************************)
Half(x) == x \div 2
Parity(x) == x % 2

LEMMA Halves ==
  \A x \in Nat : Half(x) \in Nat /\ Parity(x) \in 0 .. 1 /\ x = 2 * Half(x) + Parity(x)
BY DEF Half, Parity

LEMMA AndHalves ==
  ASSUME NEW w \in Nat \ {0}, NEW x \in Nat, NEW y \in Nat
  PROVE  and[w][x][y] = Parity(x) * Parity(y) + 2 * and[w - 1][Half(x)][Half(y)]
BY AndStep DEF Half, Parity

LEMMA NibbleAnd ==
  ASSUME NEW x \in Nat, NEW y \in Nat
  PROVE  and[4][x][y] = Parity(x) * Parity(y)
           + 2 * (Parity(Half(x)) * Parity(Half(y)))
           + 4 * (Parity(Half(Half(x))) * Parity(Half(Half(y))))
           + 8 * (Parity(Half(Half(Half(x)))) * Parity(Half(Half(Half(y)))))
<1> DEFINE a == Half(x)
           b == Half(a)
           c == Half(b)
           k == Half(y)
           l == Half(k)
           m == Half(l)
<1>1. a \in Nat /\ b \in Nat /\ c \in Nat /\ k \in Nat /\ l \in Nat /\ m \in Nat
  BY Halves
<1>2. and[4][x][y] = Parity(x) * Parity(y) + 2 * and[3][a][k]
  BY AndHalves
<1>3. and[3][a][k] = Parity(a) * Parity(k) + 2 * and[2][b][l]
  BY <1>1, AndHalves
<1>4. and[2][b][l] = Parity(b) * Parity(l) + 2 * and[1][c][m]
  BY <1>1, AndHalves
<1>5. and[1][c][m] = Parity(c) * Parity(m) + 2 * and[0][Half(c)][Half(m)]
  BY <1>1, AndHalves
<1>6. and[0][Half(c)][Half(m)] = 0
  BY <1>1, Halves, AndNat
<1>7. /\ Parity(x) * Parity(y) \in Nat /\ Parity(a) * Parity(k) \in Nat
      /\ Parity(b) * Parity(l) \in Nat /\ Parity(c) * Parity(m) \in Nat
  <2>1. \A i, j \in 0 .. 1 : i * j \in Nat
    OBVIOUS
  <2> QED
    BY <1>1, <2>1, Halves
<1> HIDE DEF a, b, c, k, l, m
<1> QED
  BY <1>2, <1>3, <1>4, <1>5, <1>6, <1>7 DEF a, b, c, k, l, m

LEMMA NibbleMasks ==
  ASSUME NEW x \in Nat
  PROVE  /\ and[4][x][5] = Parity(x) + 4 * Parity(Half(Half(x)))
         /\ and[4][x][3] = Parity(x) + 2 * Parity(Half(x))
         /\ and[4][x][15] = Parity(x) + 2 * Parity(Half(x)) + 4 * Parity(Half(Half(x)))
                              + 8 * Parity(Half(Half(Half(x))))
         /\ and[4][x][0] = 0
<1>1. /\ Half(15) = 7 /\ Half(7) = 3 /\ Half(5) = 2 /\ Half(3) = 1 /\ Half(2) = 1
      /\ Half(1) = 0 /\ Half(0) = 0
      /\ Parity(15) = 1 /\ Parity(7) = 1 /\ Parity(5) = 1 /\ Parity(3) = 1
      /\ Parity(2) = 0 /\ Parity(1) = 1 /\ Parity(0) = 0
  BY DEF Half, Parity
<1>2. /\ Parity(x) \in Int /\ Parity(Half(x)) \in Int /\ Parity(Half(Half(x))) \in Int
      /\ Parity(Half(Half(Half(x)))) \in Int
  BY Halves
<1>3. and[4][x][5] = Parity(x) * 1 + 2 * (Parity(Half(x)) * 0)
           + 4 * (Parity(Half(Half(x))) * 1) + 8 * (Parity(Half(Half(Half(x)))) * 0)
  BY <1>1, NibbleAnd
<1>4. and[4][x][3] = Parity(x) * 1 + 2 * (Parity(Half(x)) * 1)
           + 4 * (Parity(Half(Half(x))) * 0) + 8 * (Parity(Half(Half(Half(x)))) * 0)
  BY <1>1, NibbleAnd
<1>5. and[4][x][15] = Parity(x) * 1 + 2 * (Parity(Half(x)) * 1)
           + 4 * (Parity(Half(Half(x))) * 1) + 8 * (Parity(Half(Half(Half(x)))) * 1)
  BY <1>1, NibbleAnd
<1>6. and[4][x][0] = Parity(x) * 0 + 2 * (Parity(Half(x)) * 0)
           + 4 * (Parity(Half(Half(x))) * 0) + 8 * (Parity(Half(Half(Half(x)))) * 0)
  BY <1>1, NibbleAnd
<1> QED
  BY <1>2, <1>3, <1>4, <1>5, <1>6

Nibble == 0 .. 15
IsByte(x, low, high) == x = low + 16 * high

LEMMA ByteAnd ==
  ASSUME NEW l \in Nibble, NEW h \in Nibble, NEW i \in Nibble, NEW j \in Nibble,
         NEW x, IsByte(x, l, h), NEW y, IsByte(y, i, j)
  PROVE  and[8][x][y] = and[4][l][i] + 16 * and[4][h][j]
<1>0. x = l + 16 * h /\ y = i + 16 * j
  BY DEF IsByte, Nibble
<1>1. pow2[4] = 16
  <2>1. pow2[0 + 1] = 2 /\ pow2[1 + 1] = 2 * pow2[0 + 1]
    BY Pow2
  <2>2. pow2[2 + 1] = 2 * pow2[2] /\ pow2[3 + 1] = 2 * pow2[3]
    BY Pow2
  <2> QED
    BY <2>1, <2>2
<1>2. x \in Nat /\ y \in Nat
  BY <1>0 DEF Nibble
<1>4. Split(4, 4, x, y)
  BY <1>2, AndSplit
<1>5. x % 16 = l /\ x \div 16 = h /\ y % 16 = i /\ y \div 16 = j /\ 4 + 4 = 8
  BY <1>0 DEF Nibble
<1> QED
  BY <1>1, <1>4, <1>5 DEF Split

LEMMA NibbleDigits ==
  /\ \A a, b \in 0 .. 3 : and[4][a + 4 * b][3] = a
  /\ \A a \in 0 .. 15 : and[4][a][15] = a
  /\ \A a, b, c, d \in 0 .. 1 : and[4][a + 2 * b + 4 * c + 8 * d][5] = a + 4 * c
<1>1. ASSUME NEW a \in 0 .. 3, NEW b \in 0 .. 3
      PROVE  and[4][a + 4 * b][3] = a
  <2> DEFINE x == a + 4 * b
  <2>1. x \in Nat
    OBVIOUS
  <2>2. Parity(x) + 2 * Parity(Half(x)) = a
    BY DEF Parity, Half
  <2> HIDE DEF x
  <2>3. and[4][x][3] = a
    BY <2>1, <2>2, NibbleMasks
  <2> QED
    BY <2>3 DEF x
<1>2. ASSUME NEW a \in 0 .. 15
      PROVE  and[4][a][15] = a
  <2>1. a \in Nat /\ Parity(a) + 2 * Parity(Half(a)) + 4 * Parity(Half(Half(a)))
                     + 8 * Parity(Half(Half(Half(a)))) = a
    BY DEF Parity, Half
  <2> QED
    BY <2>1, NibbleMasks
<1>3. ASSUME NEW a \in 0 .. 1, NEW b \in 0 .. 1, NEW c \in 0 .. 1, NEW d \in 0 .. 1
      PROVE  and[4][a + 2 * b + 4 * c + 8 * d][5] = a + 4 * c
  <2> DEFINE x == a + 2 * b + 4 * c + 8 * d
  <2>1. x \in Nat
    OBVIOUS
  <2>2. Parity(x) = a /\ Parity(Half(Half(x))) = c
    BY DEF Parity, Half
  <2> HIDE DEF x
  <2>3. and[4][x][5] = a + 4 * c
    BY <2>1, <2>2, NibbleMasks
  <2> QED
    BY <2>3 DEF x
<1> QED
  BY <1>1, <1>2, <1>3

LEMMA ByteMask85 ==
  ASSUME NEW a \in 0 .. 1, NEW b \in 0 .. 1, NEW c \in 0 .. 1, NEW d \in 0 .. 1,
         NEW e \in 0 .. 1, NEW f \in 0 .. 1, NEW g \in 0 .. 1, NEW h \in 0 .. 1, NEW x,
         x = a + 2 * b + 4 * c + 8 * d + 16 * e + 32 * f + 64 * g + 128 * h
  PROVE  and[8][x][85] = a + 4 * c + 16 * e + 64 * g
<1> DEFINE l == a + 2 * b + 4 * c + 8 * d
           m == e + 2 * f + 4 * g + 8 * h
<1>1. l \in Nibble /\ m \in Nibble /\ IsByte(x, l, m) /\ IsByte(85, 5, 5) /\ 5 \in Nibble
  BY DEF IsByte, Nibble
<1>2. and[4][l][5] = a + 4 * c /\ and[4][m][5] = e + 4 * g
  BY NibbleDigits
<1> HIDE DEF l, m
<1>3. and[8][x][85] = and[4][l][5] + 16 * and[4][m][5]
  BY <1>1, ByteAnd
<1> QED
  BY <1>2, <1>3

LEMMA ByteMask51 ==
  ASSUME NEW a \in 0 .. 3, NEW b \in 0 .. 3, NEW c \in 0 .. 3, NEW d \in 0 .. 3, NEW x,
         x = a + 4 * b + 16 * c + 64 * d
  PROVE  and[8][x][51] = a + 16 * c
<1> DEFINE l == a + 4 * b
           m == c + 4 * d
<1>1. l \in Nibble /\ m \in Nibble /\ IsByte(x, l, m) /\ IsByte(51, 3, 3) /\ 3 \in Nibble
  BY DEF IsByte, Nibble
<1>2. and[4][l][3] = a /\ and[4][m][3] = c
  BY NibbleDigits
<1> HIDE DEF l, m
<1>3. and[8][x][51] = and[4][l][3] + 16 * and[4][m][3]
  BY <1>1, ByteAnd
<1> QED
  BY <1>2, <1>3

LEMMA ByteMask15 ==
  ASSUME NEW l \in 0 .. 15, NEW m \in 0 .. 15, NEW x, x = l + 16 * m
  PROVE  and[8][x][15] = l
<1>1. /\ IsByte(x, l, m) /\ IsByte(15, 15, 0)
      /\ l \in Nibble /\ m \in Nibble /\ 15 \in Nibble /\ 0 \in Nibble /\ m \in Nat
  BY DEF IsByte, Nibble
<1>2. and[4][l][15] = l /\ and[4][m][0] = 0
  BY <1>1, NibbleDigits, NibbleMasks
<1>3. and[8][x][15] = and[4][l][15] + 16 * and[4][m][0]
  BY <1>1, ByteAnd
<1> QED
  BY <1>2, <1>3

(***************************************************************************)
(* popcnt byte by byte: what each of its steps does with the lowest byte   *)
(* and with the rest of a word.                                            *)
(***************************************************************************)
Wide == {8 * k : k \in Nat}
Ones(w) == (pow2[w] - 1) \div 255
IsWord(x, low, rest) == x = low + 256 * rest
Byte == 0 .. 255

LEMMA OnesNext ==
  ASSUME NEW w \in Nat, pow2[w] - 1 = 255 * Ones(w), Ones(w) \in Nat
  PROVE  /\ pow2[w + 8] = 256 * pow2[w]
         /\ pow2[w + 8] - 1 = 255 * Ones(w + 8)
         /\ Ones(w + 8) = 256 * Ones(w) + 1
<1> DEFINE p(n) == pow2[n]
<1>1. \A n \in Nat : p(n) \in Nat
  BY Pow2
<1>2. \A n \in Nat : p(n + 1) = 2 * p(n)
  BY Pow2
<1>3. p(w + 4) = 16 * p(w)
  <2>1. p(w + 1) = 2 * p(w) /\ p((w + 1) + 1) = 2 * p(w + 1)
    BY <1>2
  <2>2. p((w + 2) + 1) = 2 * p(w + 2) /\ p((w + 3) + 1) = 2 * p(w + 3)
    BY <1>2
  <2>3. (w + 1) + 1 = w + 2 /\ (w + 2) + 1 = w + 3 /\ (w + 3) + 1 = w + 4
    OBVIOUS
  <2> QED
    BY <2>1, <2>2, <2>3, <1>1
<1>4. p(w + 8) = 16 * p(w + 4)
  <2>1. p((w + 4) + 1) = 2 * p(w + 4) /\ p((w + 5) + 1) = 2 * p(w + 5)
    BY <1>2
  <2>2. p((w + 6) + 1) = 2 * p(w + 6) /\ p((w + 7) + 1) = 2 * p(w + 7)
    BY <1>2
  <2>3. /\ (w + 4) + 1 = w + 5 /\ (w + 5) + 1 = w + 6
        /\ (w + 6) + 1 = w + 7 /\ (w + 7) + 1 = w + 8
    OBVIOUS
  <2> QED
    BY <2>1, <2>2, <2>3, <1>1
<1>5. p(w + 8) = 256 * p(w)
  BY <1>1, <1>3, <1>4
<1>6. p(w + 8) - 1 = 255 * (256 * Ones(w) + 1)
  BY <1>5, <1>1
<1>7. Ones(w + 8) = 256 * Ones(w) + 1
  <2>1. Ones(w + 8) = (p(w + 8) - 1) \div 255
    BY DEF Ones
  <2>2. \A n \in Nat : (255 * n) \div 255 = n
    OBVIOUS
  <2> QED
    BY <2>1, <2>2, <1>6
<1> QED
  BY <1>5, <1>6, <1>7

LEMMA OnesOfWide ==
  \A w \in Wide : w \in Nat /\ pow2[w] - 1 = 255 * Ones(w) /\ Ones(w) \in Nat
<1> DEFINE Q(w) == pow2[w] - 1 = 255 * Ones(w) /\ Ones(w) \in Nat
           S == {k \in Nat : Q(8 * k)}
<1>1. 0 \in S
  <2>1. pow2[0] = 1 /\ Ones(0) = 0
    BY Pow2 DEF Ones
  <2> QED
    BY <2>1
<1>2. ASSUME NEW k \in Nat, k \in S
      PROVE  k + 1 \in S
  <2>1. 8 * k \in Nat /\ 8 * (k + 1) = 8 * k + 8
    OBVIOUS
  <2>2. Q(8 * k + 8)
    BY <2>1, <1>2, OnesNext
  <2> QED
    BY <2>1, <2>2
<1> HIDE DEF S
<1>3. \A k \in Nat : k \in S
  BY <1>1, <1>2, Induction
<1> QED
  BY <1>3 DEF S, Wide

LEMMA WideNext ==
  ASSUME NEW w \in Wide
  PROVE  /\ w \in Nat /\ w + 8 \in Wide /\ w + 8 \in Nat
         /\ pow2[w] - 1 = 255 * Ones(w) /\ Ones(w) \in Nat
         /\ pow2[w + 8] - 1 = 255 * Ones(w + 8)
         /\ Ones(w + 8) = 256 * Ones(w) + 1
         /\ pow2[w + 8] = 256 * pow2[w]
<1>1. w \in Nat /\ pow2[w] - 1 = 255 * Ones(w) /\ Ones(w) \in Nat
  BY OnesOfWide
<1>2. PICK k \in Nat : w = 8 * k
  BY DEF Wide
<1>3. w + 8 = 8 * (k + 1) /\ k + 1 \in Nat
  BY <1>2
<1>4. w + 8 \in Wide
  BY <1>3 DEF Wide
<1> QED
  BY <1>1, <1>4, OnesNext

(***************************************************************************)
(* The steps as the code writes them, with the masks in place.             *)
(***************************************************************************)
LEMMA Masked ==
  ASSUME NEW w \in Wide
  PROVE  /\ \A x : Pairs(w, x) = x - and[w][x \div 2][85 * Ones(w)]
         /\ \A r : Nibbles(w, r) = and[w][r][51 * Ones(w)] + and[w][r \div 4][51 * Ones(w)]
         /\ \A r : Bytes(w, r) = and[w][r + (r \div 16)][15 * Ones(w)]
<1> DEFINE m == pow2[w] - 1
           o == Ones(w)
<1>1. m = 255 * o /\ o \in Nat
  BY OnesOfWide
<1>2. m \div 3 = 85 * o /\ (m \div 15) * 3 = 51 * o /\ (m \div 255) * 15 = 15 * o
  <2> HIDE DEF m, o
  <2> QED
    BY <1>1
<1>3. pow2[1] = 2 /\ pow2[2] = 4 /\ pow2[4] = 16
  <2>1. pow2[0 + 1] = 2 * pow2[0] /\ pow2[1 + 1] = 2 * pow2[1]
    BY Pow2
  <2>2. pow2[2 + 1] = 2 * pow2[2] /\ pow2[3 + 1] = 2 * pow2[3]
    BY Pow2
  <2> QED
    BY <2>1, <2>2, Pow2
<1>4. ASSUME NEW x
      PROVE  Pairs(w, x) = x - and[w][x \div 2][85 * Ones(w)]
  BY <1>2, <1>3, Zenon DEF Pairs, And, ShiftR
<1>5. ASSUME NEW r
      PROVE  Nibbles(w, r) = and[w][r][51 * Ones(w)] + and[w][r \div 4][51 * Ones(w)]
  BY <1>2, <1>3, Zenon DEF Nibbles, And, ShiftR
<1>6. ASSUME NEW r
      PROVE  Bytes(w, r) = and[w][r + (r \div 16)][15 * Ones(w)]
  BY <1>2, <1>3, Zenon DEF Bytes, And, ShiftR
<1> QED
  BY <1>4, <1>5, <1>6

LEMMA AndByte ==
  ASSUME NEW w \in Nat, NEW low \in Byte, NEW rest \in Nat, NEW x, IsWord(x, low, rest),
         NEW mlow \in Byte, NEW mrest \in Nat, NEW y, IsWord(y, mlow, mrest)
  PROVE  and[w + 8][x][y] = and[8][low][mlow] + 256 * and[w][rest][mrest]
<1>1. pow2[8] = 256
  <2>1. pow2[0 + 1] = 2 * pow2[0] /\ pow2[1 + 1] = 2 * pow2[1]
    BY Pow2
  <2>2. pow2[2 + 1] = 2 * pow2[2] /\ pow2[3 + 1] = 2 * pow2[3]
    BY Pow2
  <2>3. pow2[4 + 1] = 2 * pow2[4] /\ pow2[5 + 1] = 2 * pow2[5]
    BY Pow2
  <2>4. pow2[6 + 1] = 2 * pow2[6] /\ pow2[7 + 1] = 2 * pow2[7]
    BY Pow2
  <2> QED
    BY <2>1, <2>2, <2>3, <2>4, Pow2
<1>2. x \in Nat /\ y \in Nat /\ 8 \in Nat
  BY DEF IsWord, Byte
<1>3. Split(8, w, x, y)
  BY <1>2, AndSplit
<1>4. x % 256 = low /\ x \div 256 = rest /\ y % 256 = mlow /\ y \div 256 = mrest
  BY DEF IsWord, Byte
<1> QED
  BY <1>1, <1>3, <1>4 DEF Split

Bit == 0 .. 1
EightBits == [0 .. 7 -> Bit]
FromBits(t) ==
  t[0] + 2 * t[1] + 4 * t[2] + 8 * t[3] + 16 * t[4] + 32 * t[5] + 64 * t[6] + 128 * t[7]
SumOfBits(t) == t[0] + t[1] + t[2] + t[3] + t[4] + t[5] + t[6] + t[7]

LEMMA BitsOfByte ==
  \A n \in Byte : \E t \in EightBits : n = FromBits(t)
<1> SUFFICES ASSUME NEW n \in Byte
             PROVE  \E t \in EightBits : n = FromBits(t)
  OBVIOUS
<1> DEFINE n1 == Half(n)
           n2 == Half(n1)
           n3 == Half(n2)
           n4 == Half(n3)
           n5 == Half(n4)
           n6 == Half(n5)
           n7 == Half(n6)
           n8 == Half(n7)
<1>1. /\ n \in Nat /\ n1 \in Nat /\ n2 \in Nat /\ n3 \in Nat /\ n4 \in Nat
      /\ n5 \in Nat /\ n6 \in Nat /\ n7 \in Nat /\ n8 \in Nat
  BY Halves DEF Byte
<1>2. /\ n = 2 * n1 + Parity(n) /\ n1 = 2 * n2 + Parity(n1)
      /\ n2 = 2 * n3 + Parity(n2) /\ n3 = 2 * n4 + Parity(n3)
      /\ n4 = 2 * n5 + Parity(n4) /\ n5 = 2 * n6 + Parity(n5)
      /\ n6 = 2 * n7 + Parity(n6) /\ n7 = 2 * n8 + Parity(n7)
  BY <1>1, Halves
<1>3. /\ Parity(n) \in Bit /\ Parity(n1) \in Bit /\ Parity(n2) \in Bit
      /\ Parity(n3) \in Bit /\ Parity(n4) \in Bit /\ Parity(n5) \in Bit
      /\ Parity(n6) \in Bit /\ Parity(n7) \in Bit
  BY <1>1, Halves DEF Bit
<1> HIDE DEF n1, n2, n3, n4, n5, n6, n7, n8
<1> DEFINE p0 == Parity(n)
           p1 == Parity(n1)
           p2 == Parity(n2)
           p3 == Parity(n3)
           p4 == Parity(n4)
           p5 == Parity(n5)
           p6 == Parity(n6)
           p7 == Parity(n7)
<1>4. /\ p0 \in 0 .. 1 /\ p1 \in 0 .. 1 /\ p2 \in 0 .. 1 /\ p3 \in 0 .. 1
      /\ p4 \in 0 .. 1 /\ p5 \in 0 .. 1 /\ p6 \in 0 .. 1 /\ p7 \in 0 .. 1
  BY <1>3 DEF Bit
<1>5. /\ n = 2 * n1 + p0 /\ n1 = 2 * n2 + p1 /\ n2 = 2 * n3 + p2 /\ n3 = 2 * n4 + p3
      /\ n4 = 2 * n5 + p4 /\ n5 = 2 * n6 + p5 /\ n6 = 2 * n7 + p6 /\ n7 = 2 * n8 + p7
  BY <1>2, Zenon
<1> HIDE DEF p0, p1, p2, p3, p4, p5, p6, p7
<1>6. n6 = 4 * n8 + 2 * p7 + p6
  BY <1>1, <1>4, <1>5
<1>7. n4 = 16 * n8 + 8 * p7 + 4 * p6 + 2 * p5 + p4
  BY <1>1, <1>4, <1>5, <1>6
<1>8. n2 = 64 * n8 + 32 * p7 + 16 * p6 + 8 * p5 + 4 * p4 + 2 * p3 + p2
  BY <1>1, <1>4, <1>5, <1>7
<1>9. n = 256 * n8 + (p0 + 2 * p1 + 4 * p2 + 8 * p3 + 16 * p4 + 32 * p5 + 64 * p6 + 128 * p7)
  BY <1>1, <1>4, <1>5, <1>8
<1>10. n8 = 0
  BY <1>1, <1>4, <1>9 DEF Byte
<1> DEFINE t == [i \in 0 .. 7 |-> <<p0, p1, p2, p3, p4, p5, p6, p7>>[i + 1]]
<1>11. t \in EightBits
  <2>1. \A i \in 0 .. 7 : t[i] \in Bit
    BY <1>4 DEF Bit
  <2>2. t = [i \in 0 .. 7 |-> t[i]]
    OBVIOUS
  <2> QED
    BY <2>1, <2>2, Zenon DEF EightBits
<1>12. n = FromBits(t)
  BY <1>4, <1>9, <1>10 DEF FromBits
<1> QED
  BY <1>11, <1>12

PairSum == 0 .. 2
FromPairs(a, b, c, d) == a + 4 * b + 16 * c + 64 * d

LEMMA PairsByte ==
  ASSUME NEW w \in Wide, NEW rest \in Nat, NEW x,
         NEW t \in EightBits, IsWord(x, FromBits(t), rest)
  PROVE  IsWord(Pairs(w + 8, x), FromPairs(t[0] + t[1], t[2] + t[3], t[4] + t[5], t[6] + t[7]),
                Pairs(w, rest))
<1> DEFINE a == t[0]
           b == t[1]
           c == t[2]
           d == t[3]
           e == t[4]
           f == t[5]
           g == t[6]
           h == t[7]
<1>0. /\ a \in 0 .. 1 /\ b \in 0 .. 1 /\ c \in 0 .. 1 /\ d \in 0 .. 1
      /\ e \in 0 .. 1 /\ f \in 0 .. 1 /\ g \in 0 .. 1 /\ h \in 0 .. 1
      /\ FromBits(t) = a + 2 * b + 4 * c + 8 * d + 16 * e + 32 * f + 64 * g + 128 * h
  BY DEF EightBits, Bit, FromBits
<1> HIDE DEF a, b, c, d, e, f, g, h
<1> DEFINE low == b + 2 * c + 4 * d + 8 * e + 16 * f + 32 * g + 64 * h + 128 * (rest % 2)
           high == rest \div 2
           even == and[w][high][85 * Ones(w)]
<1>1. x \in Nat /\ x = a + 2 * b + 4 * c + 8 * d + 16 * e + 32 * f + 64 * g + 128 * h + 256 * rest
  BY <1>0 DEF IsWord
<1>2. rest % 2 \in 0 .. 1 /\ high \in Nat /\ rest = 2 * high + (rest % 2)
  OBVIOUS
<1>3. low \in Byte /\ IsWord(x \div 2, low, high)
  BY <1>0, <1>1, <1>2 DEF IsWord, Byte
<1>4. and[8][low][85] = b + 4 * d + 16 * f + 64 * h
  BY <1>0, <1>2, ByteMask85
<1>5. /\ 85 \in Byte /\ IsWord(85 * Ones(w + 8), 85, 85 * Ones(w))
      /\ 85 * Ones(w) \in Nat /\ w \in Nat
  BY WideNext DEF IsWord, Byte
<1> HIDE DEF low, high
<1>6. and[w + 8][x \div 2][85 * Ones(w + 8)] = and[8][low][85] + 256 * even
  BY <1>2, <1>3, <1>5, AndByte
<1>7. even \in Nat
  BY <1>2, <1>5, AndNat
<1>8. Pairs(w + 8, x) = x - and[w + 8][x \div 2][85 * Ones(w + 8)]
  BY WideNext, Masked
<1>9. Pairs(w, rest) = rest - even
  BY Masked DEF high
<1> HIDE DEF even
<1>10. IsWord(Pairs(w + 8, x), FromPairs(a + b, c + d, e + f, g + h), Pairs(w, rest))
  BY <1>0, <1>1, <1>4, <1>6, <1>7, <1>8, <1>9 DEF FromPairs, IsWord
<1> QED
  BY <1>10 DEF a, b, c, d, e, f, g, h

LEMMA NibblesByte ==
  ASSUME NEW w \in Wide, NEW rest \in Nat, NEW r,
         NEW a \in PairSum, NEW b \in PairSum, NEW c \in PairSum, NEW d \in PairSum,
         IsWord(r, FromPairs(a, b, c, d), rest)
  PROVE  Nibbles(w + 8, r) = (a + b) + 16 * (c + d) + 256 * Nibbles(w, rest)
<1> DEFINE next == rest % 4
           high == rest \div 4
           low == FromPairs(a, b, c, d)
           low2 == FromPairs(b, c, d, next)
           m == 51 * Ones(w)
           m8 == 51 * Ones(w + 8)
<1>1. next \in 0 .. 3 /\ high \in Nat /\ rest = 4 * high + next
  OBVIOUS
<1>2. low \in Byte /\ low2 \in Byte /\ r \in Nat
  BY <1>1 DEF FromPairs, PairSum, Byte, IsWord
<1>3. r = low + 256 * rest
  BY DEF IsWord
<1>4. IsWord(r \div 4, low2, high)
  <2> HIDE DEF next, high
  <2> QED
    BY <1>1, <1>3 DEF IsWord, FromPairs, PairSum
<1>5. and[8][low][51] = a + 16 * c /\ and[8][low2][51] = b + 16 * d
  BY <1>1, ByteMask51 DEF FromPairs, PairSum
<1>6. 51 \in Byte /\ IsWord(m8, 51, m) /\ m \in Nat /\ w \in Nat
  BY WideNext DEF IsWord, Byte
<1>7. Nibbles(w + 8, r) = and[w + 8][r][m8] + and[w + 8][r \div 4][m8]
  BY WideNext, Masked
<1>8. Nibbles(w, rest) = and[w][rest][m] + and[w][high][m]
  BY Masked
<1>9. IsWord(r, low, rest)
  OBVIOUS
<1> HIDE DEF next, high, low, low2, m, m8
<1>10. and[w + 8][r][m8] = and[8][low][51] + 256 * and[w][rest][m]
  BY <1>2, <1>6, <1>9, AndByte
<1>11. and[w + 8][r \div 4][m8] = and[8][low2][51] + 256 * and[w][high][m]
  BY <1>1, <1>2, <1>4, <1>6, AndByte
<1>12. and[w][rest][m] \in Nat /\ and[w][high][m] \in Nat
  BY <1>1, <1>6, AndNat
<1> QED
  BY <1>5, <1>7, <1>8, <1>10, <1>11, <1>12 DEF PairSum

NibbleSum == 0 .. 4
FromNibbles(l, m) == l + 16 * m

LEMMA BytesByte ==
  ASSUME NEW w \in Wide, NEW rest \in Nat, NEW r, rest % 16 \in NibbleSum,
         NEW l \in NibbleSum, NEW m \in NibbleSum,
         IsWord(r, FromNibbles(l, m), rest)
  PROVE  Bytes(w + 8, r) = l + m + 256 * Bytes(w, rest)
<1> DEFINE next == rest % 16
           high == rest \div 16
           sum == rest + high
           twice == r + (r \div 16)
           low == FromNibbles(l + m, m + next)
           mask == 15 * Ones(w)
           mask8 == 15 * Ones(w + 8)
<1>1. next \in 0 .. 4 /\ high \in Nat /\ rest = 16 * high + next
  BY DEF NibbleSum
<1>2. r \in Nat /\ r = l + 16 * m + 256 * rest
  BY DEF FromNibbles, NibbleSum, IsWord
<1>3. r \div 16 = m + 16 * rest
  BY <1>2 DEF NibbleSum
<1>4. low \in Byte
  BY <1>1 DEF FromNibbles, NibbleSum, Byte
<1>5. IsWord(twice, low, sum)
  <2> HIDE DEF next, high
  <2> QED
    BY <1>1, <1>2, <1>3 DEF IsWord, FromNibbles, NibbleSum
<1>6. and[8][low][15] = l + m
  BY <1>1, ByteMask15 DEF FromNibbles, NibbleSum
<1>7. 15 \in Byte /\ IsWord(mask8, 15, mask) /\ mask \in Nat /\ w \in Nat
  BY WideNext DEF IsWord, Byte
<1>8. Bytes(w + 8, r) = and[w + 8][twice][mask8]
  BY WideNext, Masked
<1>9. Bytes(w, rest) = and[w][sum][mask]
  BY Masked
<1>10. sum \in Nat
  BY <1>1
<1> HIDE DEF next, high, low, sum, twice, mask, mask8
<1>11. and[w + 8][twice][mask8] = and[8][low][15] + 256 * and[w][sum][mask]
  BY <1>4, <1>5, <1>7, <1>10, AndByte
<1>12. and[w][sum][mask] \in Nat
  BY <1>7, <1>10, AndNat
<1> QED
  BY <1>6, <1>8, <1>9, <1>11, <1>12 DEF NibbleSum

(***************************************************************************)
(* The counts that popcnt has before it sums the bytes up: the rest of the *)
(* word does not disturb the lowest byte, and the sum of two pairs fits a  *)
(* nibble.                                                                 *)
(***************************************************************************)
Paired(w, x) == Nibbles(w, Pairs(w, x))
Counted(w, x) == Bytes(w, Paired(w, x))
InStep(w) == \A x \in Nat : /\ Pairs(w, x) \in Nat
                            /\ Paired(w, x) \in Nat /\ Paired(w, x) % 16 \in NibbleSum
                            /\ Counted(w, x) \in Nat

LEMMA CountedByte ==
  ASSUME NEW w \in Wide, InStep(w), NEW rest \in Nat, NEW x,
         NEW t \in EightBits, IsWord(x, FromBits(t), rest)
  PROVE  /\ Counted(w + 8, x) = SumOfBits(t) + 256 * Counted(w, rest)
         /\ Pairs(w + 8, x) \in Nat
         /\ Paired(w + 8, x) \in Nat /\ Paired(w + 8, x) % 16 \in NibbleSum
<1> DEFINE a == t[0]
           b == t[1]
           c == t[2]
           d == t[3]
           e == t[4]
           f == t[5]
           g == t[6]
           h == t[7]
<1>0. /\ a \in 0 .. 1 /\ b \in 0 .. 1 /\ c \in 0 .. 1 /\ d \in 0 .. 1
      /\ e \in 0 .. 1 /\ f \in 0 .. 1 /\ g \in 0 .. 1 /\ h \in 0 .. 1
  BY DEF EightBits, Bit
<1> DEFINE p == Pairs(w, rest)
           n == Paired(w, rest)
           p8 == Pairs(w + 8, x)
           n8 == Paired(w + 8, x)
           l == (a + b) + (c + d)
           m == (e + f) + (g + h)
<1>1. p \in Nat /\ n \in Nat /\ n % 16 \in NibbleSum /\ Counted(w, rest) \in Nat
  BY DEF InStep
<1>2. /\ a + b \in PairSum /\ c + d \in PairSum /\ e + f \in PairSum /\ g + h \in PairSum
      /\ l \in NibbleSum /\ m \in NibbleSum
  BY <1>0 DEF PairSum, NibbleSum
<1>3. IsWord(p8, FromPairs(a + b, c + d, e + f, g + h), p)
  BY PairsByte
<1>4. p8 = FromPairs(a + b, c + d, e + f, g + h) + 256 * p
  BY <1>3 DEF IsWord
<1>5. p8 \in Nat
  BY <1>1, <1>2, <1>4 DEF PairSum, FromPairs
<1>6. n8 = l + 16 * m + 256 * n
  <2>1. n8 = Nibbles(w + 8, p8) /\ n = Nibbles(w, p)
    BY DEF Paired
  <2> DEFINE s == a + b
             r == c + d
             u == e + f
             v == g + h
  <2>2. s \in PairSum /\ r \in PairSum /\ u \in PairSum /\ v \in PairSum
    BY <1>2
  <2>3. IsWord(p8, FromPairs(s, r, u, v), p)
    BY <1>3
  <2> HIDE DEF p, n, p8, n8, s, r, u, v
  <2>4. Nibbles(w + 8, p8) = (s + r) + 16 * (u + v) + 256 * Nibbles(w, p)
    BY <1>1, <2>2, <2>3, NibblesByte
  <2> QED
    BY <2>1, <2>4 DEF s, r, u, v
<1> HIDE DEF p, n, p8, n8, l, m
<1>7. IsWord(n8, FromNibbles(l, m), n)
  BY <1>6 DEF IsWord, FromNibbles
<1>8. n8 \in Nat /\ n8 % 16 = l
  BY <1>1, <1>2, <1>6 DEF NibbleSum
<1>9. Bytes(w + 8, n8) = l + m + 256 * Bytes(w, n)
  BY <1>1, <1>2, <1>7, BytesByte
<1>10. /\ Bytes(w + 8, n8) = Counted(w + 8, x) /\ Bytes(w, n) = Counted(w, rest)
       /\ SumOfBits(t) = l + m
  BY <1>0 DEF Counted, n8, n, l, m, SumOfBits
<1> QED
  BY <1>2, <1>5, <1>8, <1>9, <1>10 DEF p8, n8

LEMMA SplitByte ==
  \A x \in Nat : \E rest \in Nat, t \in EightBits :
    rest = x \div 256 /\ IsWord(x, FromBits(t), rest)
<1> SUFFICES ASSUME NEW x \in Nat
             PROVE  \E rest \in Nat, t \in EightBits :
                      rest = x \div 256 /\ IsWord(x, FromBits(t), rest)
  OBVIOUS
<1>1. x % 256 \in Byte /\ x \div 256 \in Nat /\ IsWord(x, x % 256, x \div 256)
  BY DEF Byte, IsWord
<1>2. PICK t \in EightBits : x % 256 = FromBits(t)
  BY <1>1, BitsOfByte, Zenon
<1>3. IsWord(x, FromBits(t), x \div 256)
  BY <1>1, <1>2, Zenon
<1> QED
  BY <1>1, <1>3, Zenon

LEMMA CountedNothing ==
  \A x \in Nat : Pairs(0, x) = x /\ Paired(0, x) = 0 /\ Counted(0, x) = 0
<1>0. 0 \in Wide
  BY DEF Wide
<1>1. ASSUME NEW x \in Nat
      PROVE  Pairs(0, x) = x /\ Paired(0, x) = 0 /\ Counted(0, x) = 0
  <2> DEFINE m85 == 85 * Ones(0)
             m51 == 51 * Ones(0)
             m15 == 15 * Ones(0)
  <2>1. m85 \in Nat /\ m51 \in Nat /\ m15 \in Nat
    BY <1>0, OnesOfWide
  <2>2. /\ Pairs(0, x) = x - and[0][x \div 2][m85]
        /\ Nibbles(0, x) = and[0][x][m51] + and[0][x \div 4][m51]
        /\ Bytes(0, 0) = and[0][0 + (0 \div 16)][m15]
    BY <1>0, Masked
  <2>3. x \div 2 \in Nat /\ x \div 4 \in Nat /\ 0 + (0 \div 16) \in Nat /\ 0 \in Nat
    OBVIOUS
  <2> HIDE DEF m85, m51, m15
  <2>4. \A u, v \in Nat : and[0][u][v] = 0
    BY AndDigits
  <2>5. Pairs(0, x) = x /\ Nibbles(0, x) = 0 /\ Bytes(0, 0) = 0
    BY <2>1, <2>2, <2>3, <2>4
  <2> QED
    BY <2>5 DEF Paired, Counted
<1> QED
  BY <1>1

LEMMA CountedInStep ==
  \A w \in Wide : InStep(w)
<1> DEFINE S == {k \in Nat : InStep(8 * k)}
<1>1. 0 \in S
  BY CountedNothing DEF InStep, NibbleSum
<1>2. ASSUME NEW k \in Nat, k \in S
      PROVE  k + 1 \in S
  <2>1. 8 * k \in Wide /\ 8 * (k + 1) = 8 * k + 8
    BY DEF Wide
  <2> DEFINE w == 8 * k
  <2>2. w \in Wide /\ InStep(w)
    BY <2>1, <1>2
  <2> HIDE DEF w
  <2>3. ASSUME NEW x \in Nat
        PROVE  /\ Pairs(w + 8, x) \in Nat /\ Counted(w + 8, x) \in Nat
               /\ Paired(w + 8, x) \in Nat /\ Paired(w + 8, x) % 16 \in NibbleSum
    <3>1. PICK rest \in Nat, t \in EightBits :
            IsWord(x, FromBits(t), rest)
      BY SplitByte, Zenon
    <3>2. SumOfBits(t) \in Nat /\ Counted(w, rest) \in Nat
      BY <2>2 DEF SumOfBits, InStep, EightBits, Bit
    <3>3. /\ Counted(w + 8, x) = SumOfBits(t) + 256 * Counted(w, rest)
          /\ Pairs(w + 8, x) \in Nat
          /\ Paired(w + 8, x) \in Nat /\ Paired(w + 8, x) % 16 \in NibbleSum
      BY <2>2, <3>1, CountedByte
    <3> QED
      BY <3>2, <3>3
  <2>4. InStep(w + 8)
    BY <2>3 DEF InStep
  <2> QED
    BY <2>1, <2>4 DEF w
<1> HIDE DEF S
<1>3. \A k \in Nat : k \in S
  BY <1>1, <1>2, Induction
<1> QED
  BY <1>3 DEF S, Wide

(***************************************************************************)
(* The bits of a word, from the lowest.                                    *)
(***************************************************************************)
LEMMA ShiftedHalf ==
  \A x, i \in Nat : ShiftR(x, 0) = x /\ ShiftR(x, i + 1) = ShiftR(Half(x), i)
<1> SUFFICES ASSUME NEW x \in Nat, NEW i \in Nat
             PROVE  ShiftR(x, 0) = x /\ ShiftR(x, i + 1) = ShiftR(Half(x), i)
  OBVIOUS
<1> DEFINE b == pow2[i]
           c == pow2[i + 1]
<1>1. b \in Nat \ {0} /\ c = 2 * b /\ pow2[0] = 1
  BY Pow2
<1>2. ShiftR(x, i + 1) = x \div c /\ ShiftR(Half(x), i) = (x \div 2) \div b
  BY DEF ShiftR, Half
<1>3. IsProduct(c, 2, b)
  BY <1>1 DEF IsProduct
<1>4. b \in Nat \ {0}
  BY <1>1
<1> HIDE DEF b, c
<1>5. (x \div 2) \div b = x \div c
  BY <1>3, <1>4, Halved
<1>6. x \div 1 = x
  OBVIOUS
<1> QED
  BY <1>1, <1>2, <1>5, <1>6 DEF ShiftR

LEMMA FiniteBits ==
  ASSUME NEW w \in Nat, NEW x
  PROVE  /\ IsFiniteSet(Bits(w, x))
         /\ Cardinality(Bits(w, x)) \in Nat /\ Cardinality(Bits(w, x)) <= w
<1>1. IsFiniteSet(0 .. w - 1) /\ Cardinality(0 .. w - 1) = w
  BY FS_Interval
<1>2. Bits(w, x) \in SUBSET (0 .. w - 1)
  BY DEF Bits
<1>3. IsFiniteSet(Bits(w, x)) /\ Cardinality(Bits(w, x)) <= w
  BY <1>1, <1>2, FS_Subset
<1> QED
  BY <1>3, FS_CardinalityType

LEMMA BitsNext ==
  ASSUME NEW w \in Nat, NEW x \in Nat
  PROVE  Cardinality(Bits(w + 1, x)) = Parity(x) + Cardinality(Bits(w, Half(x)))
<1> DEFINE S == Bits(w, Half(x))
           T == {i + 1 : i \in S}
           f == [i \in S |-> i + 1]
<1>1. IsFiniteSet(S) /\ Cardinality(S) \in Nat
  BY FiniteBits
<1>2. f \in Bijection(S, T)
  <2>1. S \subseteq Nat
    BY DEF Bits
  <2>2. f \in [S -> T]
    OBVIOUS
  <2>3. \A i, j \in S : f[i] = f[j] => i = j
    BY <2>1
  <2>4. \A t \in T : \E i \in S : f[i] = t
    OBVIOUS
  <2> HIDE DEF f, S, T
  <2> QED
    BY <2>2, <2>3, <2>4 DEF Bijection, Injection, Surjection, IsInjective
<1>3. IsFiniteSet(T) /\ Cardinality(T) = Cardinality(S)
  <2> HIDE DEF f, S, T
  <2>1. ExistsBijection(S, T)
    BY <1>2 DEF ExistsBijection
  <2> QED
    BY <1>1, <2>1, FS_Bijection
<1>4. Parity(x) \in 0 .. 1 /\ Half(x) \in Nat
  BY Halves
<1>5. \A i \in 0 .. w : ShiftR(x, i) % 2 = 1 <=> IF i = 0 THEN Parity(x) = 1 ELSE i - 1 \in S
  <2> SUFFICES ASSUME NEW i \in 0 .. w
               PROVE  ShiftR(x, i) % 2 = 1 <=> IF i = 0 THEN Parity(x) = 1 ELSE i - 1 \in S
    OBVIOUS
  <2>1. CASE i = 0
    BY <2>1, ShiftedHalf DEF Parity
  <2>2. CASE i # 0
    <3> DEFINE j == i - 1
    <3>1. j \in Nat /\ j + 1 = i /\ j \in 0 .. w - 1
      BY <2>2
    <3> HIDE DEF j
    <3>2. ShiftR(x, j + 1) = ShiftR(Half(x), j)
      BY <3>1, ShiftedHalf
    <3>3. j \in S <=> ShiftR(Half(x), j) % 2 = 1
      BY <3>1 DEF Bits
    <3> QED
      BY <2>2, <3>1, <3>2, <3>3 DEF j
  <2> QED
    BY <2>1, <2>2
<1>6. S \subseteq 0 .. w - 1
  BY DEF Bits
<1>7. Bits(w + 1, x) = {i \in 0 .. w : ShiftR(x, i) % 2 = 1}
  BY DEF Bits
<1> HIDE DEF S
<1>8. 0 \notin T /\ T \subseteq 0 .. w /\ \A i \in 0 .. w : i \in T <=> i # 0 /\ i - 1 \in S
  BY <1>6
<1> HIDE DEF T, f
<1>9. CASE Parity(x) = 1
  <2>0. \A i : i \in Bits(w + 1, x) <=> i \in 0 .. w /\ (i = 0 \/ i \in T)
    BY <1>5, <1>7, <1>8, <1>9
  <2>3. 0 \in 0 .. w
    OBVIOUS
  <2>4. \A i : i \in Bits(w + 1, x) <=> i = 0 \/ i \in T
    BY <1>8, <2>0, <2>3, Zenon
  <2>1. Bits(w + 1, x) = T \cup {0}
    BY <2>4, Zenon
  <2>2. Cardinality(T \cup {0}) = Cardinality(T) + 1
    BY <1>3, <1>8, FS_AddElement
  <2> QED
    BY <2>1, <2>2, <1>1, <1>3, <1>9 DEF S
<1>10. CASE Parity(x) = 0
  <2>0. \A i : i \in Bits(w + 1, x) <=> i \in 0 .. w /\ i \in T
    BY <1>5, <1>7, <1>8, <1>10
  <2>1. Bits(w + 1, x) = T
    BY <1>8, <2>0, Zenon
  <2> QED
    BY <2>1, <1>1, <1>3, <1>10 DEF S
<1> QED
  BY <1>4, <1>9, <1>10

Appended(x, bit, rest) == x = bit + 2 * rest

LEMMA BitsAppended ==
  ASSUME NEW w \in Nat, NEW bit \in Bit, NEW rest \in Nat, NEW x, Appended(x, bit, rest),
         NEW v, v = w + 1
  PROVE  x \in Nat /\ Cardinality(Bits(v, x)) = bit + Cardinality(Bits(w, rest))
<1>1. x \in Nat /\ Half(x) = rest /\ Parity(x) = bit
  BY DEF Appended, Bit, Half, Parity
<1> QED
  BY <1>1, BitsNext

LEMMA BitsByte ==
  ASSUME NEW w \in Nat, NEW rest \in Nat, NEW x,
         NEW t \in EightBits, IsWord(x, FromBits(t), rest)
  PROVE  Cardinality(Bits(w + 8, x)) =
           SumOfBits(t) + Cardinality(Bits(w, rest))
<1> DEFINE a == t[0]
           b == t[1]
           c == t[2]
           d == t[3]
           e == t[4]
           f == t[5]
           g == t[6]
           h == t[7]
<1>0. /\ a \in 0 .. 1 /\ b \in 0 .. 1 /\ c \in 0 .. 1 /\ d \in 0 .. 1
      /\ e \in 0 .. 1 /\ f \in 0 .. 1 /\ g \in 0 .. 1 /\ h \in 0 .. 1
      /\ FromBits(t) = a + 2 * b + 4 * c + 8 * d + 16 * e + 32 * f + 64 * g + 128 * h
      /\ SumOfBits(t) = a + b + c + d + e + f + g + h
  BY DEF EightBits, Bit, FromBits, SumOfBits
<1> HIDE DEF a, b, c, d, e, f, g, h
<1>bits. /\ a \in Bit /\ b \in Bit /\ c \in Bit /\ d \in Bit
         /\ e \in Bit /\ f \in Bit /\ g \in Bit /\ h \in Bit
  BY <1>0 DEF Bit
<1> DEFINE x7 == h + 2 * rest
           x6 == g + 2 * x7
           x5 == f + 2 * x6
           x4 == e + 2 * x5
           x3 == d + 2 * x4
           x2 == c + 2 * x3
           x1 == b + 2 * x2
           n(v, y) == Cardinality(Bits(v, y))
<1>1. /\ Appended(x7, h, rest) /\ Appended(x6, g, x7) /\ Appended(x5, f, x6)
      /\ Appended(x4, e, x5) /\ Appended(x3, d, x4) /\ Appended(x2, c, x3)
      /\ Appended(x1, b, x2)
  BY DEF Appended
<1>2. Appended(x, a, x1)
  <2>1. x = a + 2 * x1
    BY <1>0 DEF IsWord
  <2> QED
    BY <2>1 DEF Appended
<1> HIDE DEF x1, x2, x3, x4, x5, x6, x7, n
<1>3. x7 \in Nat /\ n(w + 1, x7) = h + n(w, rest)
  BY <1>1, <1>bits, BitsAppended DEF n
<1>4. x6 \in Nat /\ n(w + 2, x6) = g + n(w + 1, x7)
  <2>1. w + 1 \in Nat /\ w + 2 = (w + 1) + 1
    OBVIOUS
  <2> QED
    BY <1>1, <1>3, <2>1, <1>bits, BitsAppended DEF n
<1>5. x5 \in Nat /\ n(w + 3, x5) = f + n(w + 2, x6)
  <2>1. w + 2 \in Nat /\ w + 3 = (w + 2) + 1
    OBVIOUS
  <2> QED
    BY <1>1, <1>4, <2>1, <1>bits, BitsAppended DEF n
<1>6. x4 \in Nat /\ n(w + 4, x4) = e + n(w + 3, x5)
  <2>1. w + 3 \in Nat /\ w + 4 = (w + 3) + 1
    OBVIOUS
  <2> QED
    BY <1>1, <1>5, <2>1, <1>bits, BitsAppended DEF n
<1>7. x3 \in Nat /\ n(w + 5, x3) = d + n(w + 4, x4)
  <2>1. w + 4 \in Nat /\ w + 5 = (w + 4) + 1
    OBVIOUS
  <2> QED
    BY <1>1, <1>6, <2>1, <1>bits, BitsAppended DEF n
<1>8. x2 \in Nat /\ n(w + 6, x2) = c + n(w + 5, x3)
  <2>1. w + 5 \in Nat /\ w + 6 = (w + 5) + 1
    OBVIOUS
  <2> QED
    BY <1>1, <1>7, <2>1, <1>bits, BitsAppended DEF n
<1>9. x1 \in Nat /\ n(w + 7, x1) = b + n(w + 6, x2)
  <2>1. w + 6 \in Nat /\ w + 7 = (w + 6) + 1
    OBVIOUS
  <2> QED
    BY <1>1, <1>8, <2>1, <1>bits, BitsAppended DEF n
<1>10. n(w + 8, x) = a + n(w + 7, x1)
  <2>1. w + 7 \in Nat /\ w + 8 = (w + 7) + 1
    OBVIOUS
  <2> QED
    BY <1>2, <1>9, <2>1, <1>bits, BitsAppended DEF n
<1>11. n(w, rest) \in Nat
  BY FiniteBits DEF n
<1>12. n(w + 8, x) = SumOfBits(t) + n(w, rest)
  BY <1>3, <1>4, <1>5, <1>6, <1>7, <1>8, <1>9, <1>10, <1>11, <1>0
<1> QED
  BY <1>12 DEF n

(***************************************************************************)
(* The multiplication by 0x01..01: its byte at the top is the sum of all   *)
(* the counts, what is below that carries nothing into it.                 *)
(***************************************************************************)
Summed(low, over, counted, sum, h, ones, below) ==
  /\ counted * ones = low + sum * h + over * (256 * h)
  /\ low <= sum * below
Sums(w, x) ==
  \E low, over \in Nat :
    Summed(low, over, Counted(w + 8, x), Cardinality(Bits(w + 8, x)),
           pow2[w], Ones(w + 8), Ones(w))

LEMMA SumsNext ==
  ASSUME NEW s \in Nat, NEW low \in Nat, NEW over \in Nat, NEW counted \in Nat,
         NEW sum \in Nat, NEW h \in Nat, NEW ones \in Nat, NEW below \in Nat,
         Summed(low, over, counted, sum, h, ones, below), IsWord(ones, 1, below)
  PROVE  Summed(s * ones + 256 * low, counted + over, s + 256 * counted, s + sum,
                256 * h, 256 * h + ones, ones)
<1> DEFINE co == counted * ones
           ch == counted * h
           sh == sum * h
           oh == over * h
           sb == sum * below
           so == s * ones
           hs == s * h
           su == sum * ones
<1>1. /\ co \in Nat /\ ch \in Nat /\ sh \in Nat /\ oh \in Nat /\ sb \in Nat /\ so \in Nat
      /\ hs \in Nat /\ su \in Nat
  OBVIOUS
<1>2. co = low + sh + 256 * oh /\ low <= sb
  BY DEF Summed
<1>3. (s + 256 * counted) * (256 * h + ones) = 256 * hs + so + 65536 * ch + 256 * co
  OBVIOUS
<1>4. (s + sum) * (256 * h) = 256 * hs + 256 * sh
  OBVIOUS
<1>5. (counted + over) * (256 * (256 * h)) = 65536 * ch + 65536 * oh
  OBVIOUS
<1>6. (s + sum) * ones = so + su /\ su = 256 * sb + sum
  BY DEF IsWord
<1> HIDE DEF co, ch, sh, oh, sb, so, hs, su
<1>7. 256 * hs + so + 65536 * ch + 256 * co
        = (so + 256 * low) + (256 * hs + 256 * sh) + (65536 * ch + 65536 * oh)
  BY <1>1, <1>2
<1>8. so + 256 * low <= so + su
  BY <1>1, <1>2, <1>6
<1> QED
  BY <1>3, <1>4, <1>5, <1>6, <1>7, <1>8 DEF Summed, so

LEMMA AllSums ==
  \A w \in Wide, x \in Nat : Sums(w, x)
<1> DEFINE S == {k \in Nat : \A x \in Nat : Sums(8 * k, x)}
<1>1. 0 \in S
  <2>0. 0 \in Wide /\ Ones(0) = 0 /\ pow2[0] = 1
    BY Pow2 DEF Wide, Ones
  <2>1. Ones(8) = 1 /\ InStep(0)
    BY <2>0, WideNext, CountedInStep
  <2>2. ASSUME NEW x \in Nat
        PROVE  Sums(0, x)
    <3>1. PICK rest \in Nat, t \in EightBits :
            IsWord(x, FromBits(t), rest)
      BY SplitByte, Zenon
    <3> DEFINE s == SumOfBits(t)
    <3>2. s \in Nat /\ Counted(0, rest) = 0 /\ Cardinality(Bits(0, rest)) = 0
      BY CountedNothing, FiniteBits DEF SumOfBits, EightBits, Bit
    <3>3. Counted(0 + 8, x) = s + 256 * Counted(0, rest)
      BY <2>0, <2>1, <3>1, CountedByte
    <3>4. 0 \in Nat
      OBVIOUS
    <3>5. Cardinality(Bits(0 + 8, x)) = s + Cardinality(Bits(0, rest))
      BY <3>1, <3>4, BitsByte
    <3> HIDE DEF s
    <3>6. Summed(0, 0, s, s, 1, 1, 0)
      BY <3>2 DEF Summed
    <3>7. Counted(0 + 8, x) = s /\ Cardinality(Bits(0 + 8, x)) = s /\ 0 + 8 = 8
      BY <3>2, <3>3, <3>5
    <3> QED
      BY <2>0, <2>1, <3>6, <3>7 DEF Sums
  <2> QED
    BY <2>2
<1>2. ASSUME NEW k \in Nat, k \in S
      PROVE  k + 1 \in S
  <2>1. 8 * k \in Wide /\ 8 * (k + 1) = 8 * k + 8
    BY DEF Wide
  <2> DEFINE w == 8 * k
             w8 == w + 8
  <2>2. w \in Wide /\ \A x \in Nat : Sums(w, x)
    BY <2>1, <1>2
  <2> HIDE DEF w
  <2>3. /\ w8 \in Wide /\ w8 \in Nat
        /\ Ones(w) \in Nat /\ Ones(w8) = 256 * Ones(w) + 1 /\ pow2[w8] = 256 * pow2[w]
        /\ pow2[w8] - 1 = 255 * Ones(w8)
    BY <2>2, WideNext
  <2>4. Ones(w8 + 8) = pow2[w8] + Ones(w8) /\ pow2[w] \in Nat
    <3>1. Ones(w8 + 8) = 256 * Ones(w8) + 1
      BY <2>3, WideNext
    <3>2. pow2[w] \in Nat /\ w \in Nat
      BY <2>2, WideNext, Pow2
    <3> HIDE DEF w8
    <3> QED
      BY <2>3, <3>1, <3>2
  <2> HIDE DEF w8
  <2>5. ASSUME NEW x \in Nat
        PROVE  Sums(w8, x)
    <3>1. PICK rest \in Nat, t \in EightBits :
            IsWord(x, FromBits(t), rest)
      BY SplitByte, Zenon
    <3> DEFINE s == SumOfBits(t)
               counted == Counted(w8, rest)
               sum == Cardinality(Bits(w8, rest))
    <3>2. s \in Nat /\ counted \in Nat /\ sum \in Nat
      <4>1. s \in Nat
        BY DEF SumOfBits, EightBits, Bit
      <4>2. counted \in Nat
        BY <2>3, CountedInStep DEF InStep
      <4>3. sum \in Nat
        BY <2>3, FiniteBits
      <4> QED
        BY <4>1, <4>2, <4>3
    <3>3. Counted(w8 + 8, x) = s + 256 * counted
      <4>1. InStep(w8)
        BY <2>3, CountedInStep
      <4> QED
        BY <2>3, <3>1, <4>1, CountedByte
    <3>4. Cardinality(Bits(w8 + 8, x)) = s + sum
      BY <2>3, <3>1, BitsByte
    <3>5. PICK low \in Nat, over \in Nat :
            Summed(low, over, counted, sum, pow2[w], Ones(w8), Ones(w))
      BY <2>2 DEF Sums, w8
    <3> HIDE DEF s, counted, sum
    <3> DEFINE h == pow2[w]
               ones == Ones(w8)
               below == Ones(w)
    <3>6. IsWord(ones, 1, below) /\ h \in Nat /\ ones \in Nat /\ below \in Nat
      BY <2>3, <2>4 DEF IsWord
    <3>10. Summed(low, over, counted, sum, h, ones, below)
      BY <3>5
    <3> HIDE DEF h, ones, below
    <3>7. Summed(s * ones + 256 * low, counted + over, s + 256 * counted, s + sum,
                 256 * h, 256 * h + ones, ones)
      BY <3>2, <3>10, <3>6, SumsNext
    <3>8. s * ones + 256 * low \in Nat /\ counted + over \in Nat
      BY <3>2, <3>6
    <3>9. /\ pow2[w8] = 256 * h /\ Ones(w8 + 8) = 256 * h + ones /\ Ones(w8) = ones
      BY <2>3, <2>4 DEF h, ones
    <3> QED
      BY <3>3, <3>4, <3>7, <3>8, <3>9, Zenon DEF Sums
  <2> QED
    BY <2>1, <2>5 DEF w, w8
<1> HIDE DEF S
<1>3. \A k \in Nat : k \in S
  BY <1>1, <1>2, Induction
<1> QED
  BY <1>3 DEF S, Wide

HasTopByte(low, over, sum, h) ==
  ((low + sum * h + over * (256 * h)) % (256 * h)) \div h = sum

LEMMA TopByte ==
  ASSUME NEW low \in Nat, NEW over \in Nat, NEW sum \in 0 .. 255, NEW h \in Nat \ {0},
         low < h
  PROVE  HasTopByte(low, over, sum, h)
<1> DEFINE n == low + sum * h + over * (256 * h)
           r == low + sum * h
           k == 256 * h
<1>1. r \in Nat /\ n \in Nat /\ k \in Nat \ {0} /\ n = over * k + r /\ r = sum * h + low
  OBVIOUS
<1>2. r \in 0 .. k - 1
  <2>1. sum * h <= 255 * h /\ sum * h \in Nat
    BY Times
  <2> QED
    BY <2>1
<1> HIDE DEF n, r, k
<1>3. n % k = r
  BY <1>1, <1>2, DivisionUnique
<1>4. low \in 0 .. h - 1
  OBVIOUS
<1>5. r \div h = sum
  BY <1>1, <1>4, DivisionUnique
<1> QED
  BY <1>3, <1>5 DEF n, k, HasTopByte

LEMMA PopCntCounts ==
  ASSUME NEW w \in Wide, w + 8 <= 248, NEW x \in Nat
  PROVE  CountsBits(w + 8, x)
<1> DEFINE w8 == w + 8
           counted == Counted(w8, x)
           sum == Cardinality(Bits(w8, x))
           h == pow2[w]
           ones == Ones(w8)
           below == Ones(w)
<1>1. /\ w \in Nat /\ w8 \in Nat /\ w8 \in Wide /\ h \in Nat \ {0} /\ below \in Nat
      /\ h - 1 = 255 * below /\ pow2[w8] = 256 * h /\ pow2[w8] - 1 = 255 * ones
  BY WideNext, Pow2
<1>2. sum \in 0 .. 255
  BY <1>1, FiniteBits
<1>3. PICK low \in Nat, over \in Nat : Summed(low, over, counted, sum, h, ones, below)
  BY AllSums DEF Sums
<1>4. low < h
  <2>1. sum * below <= 255 * below
    BY <1>1, <1>2, Times
  <2>2. low <= sum * below /\ sum * below \in Nat
    BY <1>1, <1>2, <1>3 DEF Summed
  <2> HIDE DEF sum, h, below
  <2> QED
    BY <1>1, <2>1, <2>2
<1>5. counted * ones = low + sum * h + over * (256 * h)
  BY <1>3 DEF Summed
<1>6. PopCnt(w8, x) = ((counted * ones) % (256 * h)) \div h
  <2>1. (pow2[w8] - 1) \div 255 = ones /\ w8 - 8 = w
    BY <1>1 DEF Ones
  <2>2. PopCnt(w8, x) = SumOfBytes(w8, counted)
    BY DEF PopCnt, Counted, Paired
  <2> HIDE DEF counted, ones, h, w8
  <2> QED
    BY <1>1, <2>1, <2>2 DEF SumOfBytes, ShiftR, Wrap, h
<1> HIDE DEF counted, sum, h, ones, below
<1>7. HasTopByte(low, over, sum, h)
  BY <1>1, <1>2, <1>4, TopByte
<1> QED
  BY <1>5, <1>6, <1>7 DEF CountsBits, HasTopByte, sum

(***************************************************************************)
(* popcnt counts the bits that are set, on words of every width that is    *)
(* asked for.                                                              *)
(***************************************************************************)
LEMMA WidthWide ==
  ASSUME NEW w \in Width
  PROVE  /\ w \in Nat \ {0} /\ w \in Wide /\ w - 8 \in Wide /\ w - 8 \in Nat
         /\ (w - 8) + 8 = w /\ (w - 8) + 8 <= 248
<1>1. PICK k \in 1 .. 31 : w = 8 * k
  BY WidthAssumption
<1>2. k \in Nat /\ k - 1 \in Nat /\ w - 8 = 8 * (k - 1)
  BY <1>1
<1> QED
  BY <1>1, <1>2 DEF Wide

LEMMA WidthCounts ==
  \A w \in Width, x \in Nat : CountsBits(w, x)
<1> SUFFICES ASSUME NEW w \in Width, NEW x \in Nat
             PROVE  CountsBits(w, x)
  OBVIOUS
<1> DEFINE v == w - 8
<1>1. v \in Wide /\ v + 8 = w /\ v + 8 <= 248
  BY WidthWide
<1> HIDE DEF v
<1> QED
  BY <1>1, PopCntCounts

(***************************************************************************)
(* Single bits of a word, of x | y, and of the words that are all ones or  *)
(* a power of two.                                                         *)
(***************************************************************************)
BitOf(x, i) == ShiftR(x, i) % 2

LEMMA BitHalf ==
  \A x, i \in Nat : /\ BitOf(x, i) \in 0 .. 1
                    /\ BitOf(x, 0) = Parity(x) /\ BitOf(x, i + 1) = BitOf(Half(x), i)
<1> SUFFICES ASSUME NEW x \in Nat, NEW i \in Nat
             PROVE  /\ BitOf(x, i) \in 0 .. 1
                    /\ BitOf(x, 0) = Parity(x) /\ BitOf(x, i + 1) = BitOf(Half(x), i)
  OBVIOUS
<1>1. pow2[i] \in Nat \ {0}
  BY Pow2
<1>2. x \div pow2[i] \in Nat
  BY <1>1, Divided
<1>3. BitOf(x, i) \in 0 .. 1
  BY <1>2 DEF BitOf, ShiftR
<1>4. ShiftR(x, 0) = x /\ ShiftR(x, i + 1) = ShiftR(Half(x), i)
  BY ShiftedHalf
<1> QED
  BY <1>3, <1>4 DEF BitOf, Parity

LEMMA OrNext ==
  ASSUME NEW w \in Nat, NEW x \in Nat, NEW y \in Nat
  PROVE  /\ or[w][x][y] \in Nat /\ or[w + 1][x][y] \in Nat
         /\ Half(or[w + 1][x][y]) = or[w][Half(x)][Half(y)]
         /\ Parity(or[w + 1][x][y]) = Greater(Parity(x), Parity(y))
<1> DEFINE v == w + 1
           n == or[v][x][y]
           m == or[w][Half(x)][Half(y)]
<1>1. v \in Nat \ {0} /\ v - 1 = w
  OBVIOUS
<1> HIDE DEF v
<1>2. n = Greater(x % 2, y % 2) + 2 * or[v - 1][x \div 2][y \div 2]
  BY <1>1, OrDigits
<1>3. n = Greater(Parity(x), Parity(y)) + 2 * m
  BY <1>1, <1>2 DEF Half, Parity
<1>4. Half(x) \in Nat /\ Half(y) \in Nat /\ Parity(x) \in 0 .. 1 /\ Parity(y) \in 0 .. 1
  BY Halves
<1>5. m \in Nat /\ n \in Nat /\ or[w][x][y] \in Nat
  BY <1>1, <1>4, OrDigits
<1> HIDE DEF n, m
<1>6. Greater(Parity(x), Parity(y)) \in 0 .. 1
  BY <1>4 DEF Greater
<1>7. Half(n) = m /\ Parity(n) = Greater(Parity(x), Parity(y))
  BY <1>3, <1>5, <1>6 DEF Half, Parity
<1> QED
  BY <1>5, <1>7 DEF n, m, v

LEMMA OrBits ==
  \A w \in Nat : \A x, y \in Nat, i \in Nat :
    i < w /\ (BitOf(x, i) = 1 \/ BitOf(y, i) = 1) => BitOf(or[w][x][y], i) = 1
<1> DEFINE P(w) == \A x, y \in Nat, i \in Nat :
             i < w /\ (BitOf(x, i) = 1 \/ BitOf(y, i) = 1) => BitOf(or[w][x][y], i) = 1
           S == {w \in Nat : P(w)}
<1>1. 0 \in S
  OBVIOUS
<1>2. ASSUME NEW w \in Nat, w \in S
      PROVE  w + 1 \in S
  <2> SUFFICES ASSUME NEW x \in Nat, NEW y \in Nat, NEW i \in Nat, i < w + 1,
                      BitOf(x, i) = 1 \/ BitOf(y, i) = 1
               PROVE  BitOf(or[w + 1][x][y], i) = 1
    OBVIOUS
  <2> DEFINE n == or[w + 1][x][y]
  <2>1. /\ n \in Nat /\ Half(n) = or[w][Half(x)][Half(y)]
        /\ Parity(n) = Greater(Parity(x), Parity(y))
    BY OrNext
  <2>2. /\ Half(x) \in Nat /\ Half(y) \in Nat /\ Half(n) \in Nat
        /\ Parity(x) \in 0 .. 1 /\ Parity(y) \in 0 .. 1
    BY <2>1, Halves
  <2> HIDE DEF n
  <2>3. CASE i = 0
    <3>1. BitOf(n, 0) = Parity(n) /\ BitOf(x, 0) = Parity(x) /\ BitOf(y, 0) = Parity(y)
      BY <2>1, BitHalf
    <3> QED
      BY <2>1, <2>2, <2>3, <3>1 DEF Greater, n
  <2>4. CASE i # 0
    <3> DEFINE j == i - 1
    <3>1. j \in Nat /\ j + 1 = i /\ j < w
      BY <2>4
    <3> HIDE DEF j
    <3>2. /\ BitOf(n, j + 1) = BitOf(Half(n), j) /\ BitOf(x, j + 1) = BitOf(Half(x), j)
          /\ BitOf(y, j + 1) = BitOf(Half(y), j)
      BY <2>1, <3>1, BitHalf
    <3>3. BitOf(Half(x), j) = 1 \/ BitOf(Half(y), j) = 1
      BY <3>1, <3>2
    <3>4. BitOf(or[w][Half(x)][Half(y)], j) = 1
      BY <1>2, <2>2, <3>1, <3>3
    <3> QED
      BY <2>1, <3>1, <3>2, <3>4 DEF n
  <2> QED
    BY <2>3, <2>4
<1> HIDE DEF S
<1>3. \A w \in Nat : w \in S
  BY <1>1, <1>2, Induction
<1> QED
  BY <1>3 DEF S

LEMMA OrNothing ==
  \A w \in Nat : or[w][0][0] = 0
<1> DEFINE S == {w \in Nat : or[w][0][0] = 0}
<1>1. 0 \in S
  BY OrDigits
<1>2. ASSUME NEW w \in Nat, w \in S
      PROVE  w + 1 \in S
  <2>1. Half(0) = 0 /\ Parity(0) = 0
    BY DEF Half, Parity
  <2>2. /\ or[w + 1][0][0] \in Nat /\ Half(or[w + 1][0][0]) = or[w][0][0]
        /\ Parity(or[w + 1][0][0]) = Greater(0, 0)
    BY <2>1, OrNext
  <2>3. or[w + 1][0][0] = 2 * 0 + Greater(0, 0)
    BY <1>2, <2>2, Halves
  <2> QED
    BY <2>3 DEF Greater
<1> HIDE DEF S
<1>3. \A w \in Nat : w \in S
  BY <1>1, <1>2, Induction
<1> QED
  BY <1>3 DEF S

LEMMA HalfBelow ==
  ASSUME NEW k \in Nat, NEW x \in Nat
  PROVE  x < pow2[k + 1] <=> Half(x) < pow2[k]
<1>1. pow2[k + 1] = 2 * pow2[k] /\ pow2[k] \in Nat
  BY Pow2
<1>2. Half(x) \in Nat /\ Parity(x) \in 0 .. 1 /\ x = 2 * Half(x) + Parity(x)
  BY Halves
<1> QED
  BY <1>1, <1>2

LEMMA OrBelow ==
  \A k \in Nat : \A w, x, y \in Nat :
    x < pow2[k] /\ y < pow2[k] => or[w][x][y] < pow2[k]
<1> DEFINE P(k) == \A w, x, y \in Nat :
             x < pow2[k] /\ y < pow2[k] => or[w][x][y] < pow2[k]
           S == {k \in Nat : P(k)}
<1>1. 0 \in S
  <2>1. pow2[0] = 1
    BY Pow2
  <2>2. ASSUME NEW x \in Nat, x < 1
        PROVE  x = 0
    BY <2>2
  <2> QED
    BY <2>1, <2>2, OrNothing
<1>2. ASSUME NEW k \in Nat, k \in S
      PROVE  k + 1 \in S
  <2> SUFFICES ASSUME NEW w \in Nat, NEW x \in Nat, NEW y \in Nat,
                      x < pow2[k + 1], y < pow2[k + 1]
               PROVE  or[w][x][y] < pow2[k + 1]
    OBVIOUS
  <2>1. CASE w = 0
    <3>1. or[0][x][y] = 0 /\ pow2[k + 1] \in Nat \ {0}
      BY OrDigits, Pow2
    <3> QED
      BY <2>1, <3>1
  <2>2. CASE w # 0
    <3> DEFINE v == w - 1
               n == or[v + 1][x][y]
    <3>1. v \in Nat /\ v + 1 = w
      BY <2>2
    <3> HIDE DEF v
    <3>2. n \in Nat /\ Half(n) = or[v][Half(x)][Half(y)]
      BY <3>1, OrNext
    <3>3. Half(x) \in Nat /\ Half(y) \in Nat /\ Half(x) < pow2[k] /\ Half(y) < pow2[k]
      BY Halves, HalfBelow
    <3>4. or[v][Half(x)][Half(y)] < pow2[k]
      BY <1>2, <3>1, <3>3
    <3> HIDE DEF n
    <3>5. n < pow2[k + 1]
      BY <3>2, <3>4, HalfBelow
    <3> QED
      BY <3>1, <3>5 DEF n
  <2> QED
    BY <2>1, <2>2
<1> HIDE DEF S
<1>3. \A k \in Nat : k \in S
  BY <1>1, <1>2, Induction
<1> QED
  BY <1>3 DEF S

LEMMA AllOnes ==
  \A k \in Nat : \A n \in Nat :
    n < pow2[k] /\ (\A i \in 0 .. k - 1 : BitOf(n, i) = 1) => n = pow2[k] - 1
<1> DEFINE P(k) == \A n \in Nat :
             n < pow2[k] /\ (\A i \in 0 .. k - 1 : BitOf(n, i) = 1) => n = pow2[k] - 1
           S == {k \in Nat : P(k)}
<1>1. 0 \in S
  BY Pow2
<1>2. ASSUME NEW k \in Nat, k \in S
      PROVE  k + 1 \in S
  <2> SUFFICES ASSUME NEW n \in Nat, n < pow2[k + 1],
                      \A i \in 0 .. k : BitOf(n, i) = 1
               PROVE  n = pow2[k + 1] - 1
    OBVIOUS
  <2>1. Half(n) \in Nat /\ Half(n) < pow2[k]
    BY Halves, HalfBelow
  <2>2. ASSUME NEW i \in 0 .. k - 1
        PROVE  BitOf(Half(n), i) = 1
    <3>1. i \in Nat /\ i + 1 \in 0 .. k
      OBVIOUS
    <3> QED
      BY <3>1, BitHalf
  <2>3. Half(n) = pow2[k] - 1
    BY <1>2, <2>1, <2>2
  <2>4. BitOf(n, 0) = 1 /\ BitOf(n, 0) = Parity(n)
    BY BitHalf
  <2>5. n = 2 * Half(n) + Parity(n) /\ pow2[k + 1] = 2 * pow2[k] /\ pow2[k] \in Nat
    BY Halves, Pow2
  <2> QED
    BY <2>3, <2>4, <2>5
<1> HIDE DEF S
<1>3. \A k \in Nat : k \in S
  BY <1>1, <1>2, Induction
<1> QED
  BY <1>3 DEF S

(***************************************************************************)
(* The highest bit of a word.                                              *)
(***************************************************************************)
IsTop(x, t) == pow2[t] <= x /\ x < pow2[t + 1]

LEMMA SomeTop ==
  \A n \in Nat : \A x \in Nat \ {0} : x < pow2[n] => \E t \in 0 .. n - 1 : IsTop(x, t)
<1> DEFINE P(n) == \A x \in Nat \ {0} : x < pow2[n] => \E t \in 0 .. n - 1 : IsTop(x, t)
           S == {n \in Nat : P(n)}
<1>1. 0 \in S
  BY Pow2
<1>2. ASSUME NEW n \in Nat, n \in S
      PROVE  n + 1 \in S
  <2> SUFFICES ASSUME NEW x \in Nat \ {0}, x < pow2[n + 1]
               PROVE  \E t \in 0 .. n : IsTop(x, t)
    OBVIOUS
  <2>1. pow2[n] \in Nat
    BY Pow2
  <2>2. CASE x < pow2[n]
    <3>1. PICK t \in 0 .. n - 1 : IsTop(x, t)
      BY <1>2, <2>2
    <3>2. t \in 0 .. n
      OBVIOUS
    <3> QED
      BY <3>1, <3>2
  <2>3. CASE ~(x < pow2[n])
    <3>1. IsTop(x, n) /\ n \in 0 .. n
      BY <2>1, <2>3 DEF IsTop
    <3> QED
      BY <3>1
  <2> QED
    BY <2>2, <2>3
<1> HIDE DEF S
<1>3. \A n \in Nat : n \in S
  BY <1>1, <1>2, Induction
<1> QED
  BY <1>3 DEF S

LEMMA TopBits ==
  ASSUME NEW t \in Nat, NEW x \in Nat, IsTop(x, t)
  PROVE  /\ BitOf(x, t) = 1 /\ x > 0
         /\ \A j \in Nat : j > t => BitOf(x, j) = 0
<1> DEFINE p == pow2[t]
<1>1. p \in Nat \ {0} /\ pow2[t + 1] = 2 * p
  BY Pow2
<1>2. p <= x /\ x < 2 * p
  BY <1>1 DEF IsTop
<1> HIDE DEF p
<1>3. x \div p = 1
  <2>1. x = 1 * p + (x - p) /\ x - p \in 0 .. p - 1
    BY <1>1, <1>2
  <2> DEFINE r == x - p
  <2>2. x = 1 * p + r /\ r \in 0 .. p - 1 /\ 1 \in Nat
    BY <2>1
  <2> HIDE DEF r
  <2> QED
    BY <1>1, <2>2, DivisionUnique
<1>4. BitOf(x, t) = 1
  BY <1>3 DEF BitOf, ShiftR, p
<1>5. ASSUME NEW j \in Nat, j > t
      PROVE  BitOf(x, j) = 0
  <2> DEFINE q == pow2[j]
  <2>1. t + 1 \in Nat /\ t + 1 <= j
    BY <1>5
  <2>2. q \in Nat \ {0} /\ 2 * p <= q
    BY <1>1, <2>1, Pow2, Pow2Monotone
  <2> HIDE DEF q
  <2>3. x = 0 * q + x /\ x \in 0 .. q - 1 /\ 0 \in Nat
    BY <1>1, <1>2, <2>2
  <2>4. x \div q = 0
    BY <2>2, <2>3, DivisionUnique
  <2> QED
    BY <2>4 DEF BitOf, ShiftR, q
<1> QED
  BY <1>1, <1>2, <1>4, <1>5

LEMMA TopIs ==
  ASSUME NEW w \in Nat, NEW t \in 0 .. w - 1, NEW x \in Nat, IsTop(x, t)
  PROVE  Top(w, x) = t
<1>1. t \in Bits(w, x) /\ \A j \in Bits(w, x) : j <= t
  <2>1. /\ BitOf(x, t) = 1 /\ \A j \in Nat : j > t => BitOf(x, j) = 0
    BY TopBits
  <2>2. t \in Bits(w, x)
    BY <2>1 DEF Bits, BitOf
  <2>3. ASSUME NEW j \in Bits(w, x)
        PROVE  j <= t
    <3>1. j \in Nat /\ BitOf(x, j) = 1
      BY DEF Bits, BitOf
    <3> QED
      BY <2>1, <3>1
  <2> QED
    BY <2>2, <2>3
<1>2. Bits(w, x) \subseteq Int
  BY DEF Bits
<1>3. \A i \in Bits(w, x) : (\A j \in Bits(w, x) : j <= i) => i = t
  BY <1>1, <1>2
<1>4. Top(w, x) \in Bits(w, x) /\ \A j \in Bits(w, x) : j <= Top(w, x)
  BY <1>1 DEF Top
<1> QED
  BY <1>3, <1>4

(***************************************************************************)
(* set_lower: after i rounds the top i + 2 bits below the highest are set. *)
(***************************************************************************)
LEMMA SetLowerIs ==
  ASSUME NEW w \in Nat, w > 3, NEW t \in 0 .. w - 2, NEW v \in Nat, IsTop(v, t)
  PROVE  SetLower(w, v) = pow2[t + 1] - 1
<1> DEFINE a == Lowered(w, v)
           b == Wrap(w, 2 * v)
           top == pow2[t + 1]
<1>1. /\ BitOf(v, t) = 1 /\ v > 0 /\ v < top /\ t \in Nat /\ t + 1 \in Nat
      /\ top \in Nat \ {0} /\ pow2[(t + 1) + 1] = 2 * top
  BY TopBits, Pow2 DEF IsTop
<1>2. /\ \A i \in Nat : a[i] \in Nat
      /\ a[0] = Or(w, Or(w, v, v - 1), ShiftR(v, 1))
      /\ \A i \in Nat : a[i + 1] = ShiftR(Or(w, a[i], Wrap(w, 2 * v)), 1)
  <2>1. v \in Nat \ {0}
    BY <1>1
  <2> QED
    BY <2>1, LoweredSteps, Zenon
<1>3. b = 2 * v
  <2> DEFINE n == 2 * v
  <2>1. (t + 1) + 1 \in Nat /\ (t + 1) + 1 <= w
    BY <1>1
  <2>2. pow2[w] \in Nat /\ 2 * top <= pow2[w]
    BY <1>1, <2>1, Pow2, Pow2Monotone
  <2>3. n < pow2[w] /\ n \in Nat
    BY <1>1, <2>2
  <2> HIDE DEF n
  <2>4. Wrap(w, n) = n
    BY <2>3, WordWrap
  <2> QED
    BY <2>4 DEF n
<1>4. \A n \in Nat : ShiftR(n, 1) = Half(n)
  BY Pow2 DEF ShiftR, Half
<1> DEFINE c(i) == or[w][a[i]][2 * v]
           Set(i) == \A j \in 0 .. t : j >= t - 1 - i => BitOf(a[i], j) = 1
<1>5. /\ a[0] = or[w][or[w][v][v - 1]][Half(v)]
      /\ \A i \in Nat : a[i] \in Nat /\ c(i) \in Nat /\ a[i + 1] = Half(c(i))
  <2>1. \A m, n \in Nat : Or(w, m, n) = or[w][m][n] /\ or[w][m][n] \in Nat
    BY OrDigits DEF Or
  <2>2. v - 1 \in Nat /\ Half(v) \in Nat /\ 2 * v \in Nat
    BY <1>1, Halves
  <2> HIDE DEF a
  <2>3. a[0] = or[w][or[w][v][v - 1]][Half(v)]
    <3>1. a[0] = Or(w, Or(w, v, v - 1), Half(v))
      BY <1>2, <1>4
    <3>2. Or(w, v, v - 1) = or[w][v][v - 1] /\ or[w][v][v - 1] \in Nat
      BY <2>1, <2>2
    <3>3. Or(w, or[w][v][v - 1], Half(v)) = or[w][or[w][v][v - 1]][Half(v)]
      BY <2>1, <2>2, <3>2
    <3> QED
      BY <3>1, <3>2, <3>3, Zenon
  <2>4. ASSUME NEW i \in Nat
        PROVE  a[i] \in Nat /\ c(i) \in Nat /\ a[i + 1] = Half(c(i))
    <3> DEFINE twice == 2 * v
    <3>1. a[i] \in Nat /\ twice \in Nat /\ a[i + 1] = ShiftR(Or(w, a[i], twice), 1)
      BY <1>2, <1>3, <2>2
    <3> HIDE DEF twice
    <3>2. Or(w, a[i], twice) = or[w][a[i]][twice] /\ or[w][a[i]][twice] \in Nat
      BY <2>1, <3>1
    <3>3. ShiftR(or[w][a[i]][twice], 1) = Half(or[w][a[i]][twice])
      BY <1>4, <3>2
    <3> QED
      BY <3>1, <3>2, <3>3, Zenon DEF twice
  <2> QED
    BY <2>3, <2>4
<1> HIDE DEF a, b, top
<1> DEFINE S == {i \in Nat : a[i] < top /\ Set(i)}
<1>6. 0 \in S
  <2> DEFINE m == or[w][v][v - 1]
  <2>1. v - 1 \in Nat /\ v - 1 < top /\ Half(v) \in Nat /\ Half(v) < top
    <3>1. Half(v) \in Nat /\ Parity(v) \in 0 .. 1 /\ v = 2 * Half(v) + Parity(v)
      BY Halves
    <3> QED
      BY <1>1, <3>1
  <2>2. m \in Nat /\ m < top
    BY <1>1, <2>1, OrBelow, OrDigits DEF top
  <2>3. t < w /\ w \in Nat
    OBVIOUS
  <2>4. BitOf(m, t) = 1
    BY <1>1, <2>1, <2>3, OrBits
  <2> HIDE DEF m
  <2>5. a[0] = or[w][m][Half(v)]
    BY <1>5 DEF m
  <2>6. a[0] < top
    BY <1>1, <2>1, <2>2, <2>5, OrBelow DEF top
  <2>7. BitOf(a[0], t) = 1
    BY <1>1, <2>1, <2>2, <2>3, <2>4, <2>5, OrBits
  <2>8. ASSUME NEW j \in 0 .. t, j >= t - 1 - 0
        PROVE  BitOf(a[0], j) = 1
    <3>1. CASE j # t
      <4>1. j \in Nat /\ j + 1 = t /\ j < w
        BY <2>8, <3>1
      <4>2. BitOf(v, j + 1) = BitOf(Half(v), j)
        BY <4>1, BitHalf
      <4>3. BitOf(Half(v), j) = 1
        BY <1>1, <4>1, <4>2
      <4> QED
        BY <2>1, <2>2, <2>5, <4>1, <4>3, OrBits
    <3> QED
      BY <2>7, <3>1
  <2> QED
    BY <2>6, <2>8
<1>7. ASSUME NEW i \in Nat, i \in S
      PROVE  i + 1 \in S
  <2> DEFINE n == c(i)
             twice == 2 * v
  <2>1. a[i] \in Nat /\ a[i] < top /\ Set(i) /\ n \in Nat /\ a[i + 1] = Half(n)
    BY <1>5, <1>7
  <2>2. twice \in Nat /\ twice < pow2[(t + 1) + 1] /\ a[i] < pow2[(t + 1) + 1]
    BY <1>1, <2>1
  <2>3. Half(twice) = v
    BY DEF Half
  <2>4. BitOf(twice, t + 1) = 1
    <3> HIDE DEF twice
    <3> QED
      BY <1>1, <2>2, <2>3, BitHalf
  <2> HIDE DEF twice
  <2>5. n = or[w][a[i]][twice]
    BY DEF twice
  <2>6. n < pow2[(t + 1) + 1]
    <3>1. (t + 1) + 1 \in Nat
      BY <1>1
    <3> HIDE DEF n
    <3> QED
      BY <2>1, <2>2, <2>5, <3>1, OrBelow
  <2> HIDE DEF n, Set
  <2>7. a[i + 1] < top
    BY <1>1, <2>1, <2>6, HalfBelow DEF top
  <2>8. ASSUME NEW j \in 0 .. t, j >= t - 1 - (i + 1)
        PROVE  BitOf(a[i + 1], j) = 1
    <3>1. j \in Nat /\ BitOf(n, j + 1) = BitOf(a[i + 1], j)
      BY <2>1, BitHalf
    <3>2. CASE j = t
      <4>1. t + 1 < w
        OBVIOUS
      <4>2. BitOf(n, t + 1) = 1
        BY <1>1, <2>1, <2>2, <2>4, <2>5, <4>1, OrBits
      <4> QED
        BY <3>1, <3>2, <4>2
    <3>3. CASE j # t
      <4> DEFINE k == j + 1
      <4>1. k \in Nat /\ k \in 0 .. t /\ k >= t - 1 - i /\ k < w
        BY <2>8, <3>3
      <4> HIDE DEF k
      <4>2. BitOf(a[i], k) = 1
        BY <2>1, <4>1 DEF Set
      <4>3. BitOf(n, k) = 1
        BY <2>1, <2>2, <2>5, <4>1, <4>2, OrBits
      <4> QED
        BY <3>1, <4>3 DEF k
    <3> QED
      BY <3>2, <3>3
  <2>9. Set(i + 1)
    BY <2>8 DEF Set
  <2> QED
    BY <2>7, <2>9 DEF Set
<1> HIDE DEF S
<1>8. \A i \in Nat : i \in S
  BY <1>6, <1>7, Induction
<1>9. w - 3 \in Nat /\ w - 3 \in S
  BY <1>8
<1>10. \A j \in 0 .. t : BitOf(a[w - 3], j) = 1
  BY <1>9 DEF S
<1>11. a[w - 3] \in Nat /\ a[w - 3] < pow2[t + 1] /\ (t + 1) - 1 = t
  BY <1>1, <1>5, <1>9 DEF S, top
<1>12. a[w - 3] = pow2[t + 1] - 1
  BY <1>1, <1>10, <1>11, AllOnes
<1> QED
  BY <1>1, <1>12 DEF SetLower, a

LEMMA OnesCounted ==
  \A k \in Nat : \A w \in Nat : k <= w => Cardinality(Bits(w, pow2[k] - 1)) = k
<1> DEFINE P(k) == \A w \in Nat : k <= w => Cardinality(Bits(w, pow2[k] - 1)) = k
           S == {k \in Nat : P(k)}
<1>1. 0 \in S
  <2>1. ASSUME NEW w \in Nat
        PROVE  Cardinality(Bits(w, 0)) = 0
    <3>1. ASSUME NEW i \in 0 .. w - 1
          PROVE  ShiftR(0, i) % 2 # 1
      <4> DEFINE q == pow2[i]
      <4>1. q \in Nat \ {0}
        BY Pow2
      <4> HIDE DEF q
      <4>2. 0 = 0 * q + 0 /\ 0 \in 0 .. q - 1 /\ 0 \in Nat
        BY <4>1
      <4>3. 0 \div q = 0
        BY <4>1, <4>2, DivisionUnique
      <4> QED
        BY <4>3 DEF ShiftR, q
    <3>2. Bits(w, 0) = {}
      BY <3>1 DEF Bits
    <3> QED
      BY <3>2, FS_EmptySet
  <2>2. pow2[0] - 1 = 0
    BY Pow2
  <2> QED
    BY <2>1, <2>2
<1>2. ASSUME NEW k \in Nat, k \in S
      PROVE  k + 1 \in S
  <2> SUFFICES ASSUME NEW w \in Nat, k + 1 <= w
               PROVE  Cardinality(Bits(w, pow2[k + 1] - 1)) = k + 1
    OBVIOUS
  <2> DEFINE v == w - 1
             n == pow2[k + 1] - 1
  <2>1. v \in Nat /\ v + 1 = w /\ k <= v
    OBVIOUS
  <2>2. n \in Nat /\ Half(n) = pow2[k] - 1 /\ Parity(n) = 1
    <3>1. pow2[k + 1] = 2 * pow2[k] /\ pow2[k] \in Nat \ {0}
      BY Pow2
    <3> QED
      BY <3>1 DEF Half, Parity
  <2> HIDE DEF v, n
  <2>3. Cardinality(Bits(v + 1, n)) = Parity(n) + Cardinality(Bits(v, Half(n)))
    BY <2>1, <2>2, BitsNext
  <2>4. Cardinality(Bits(v, pow2[k] - 1)) = k
    BY <1>2, <2>1
  <2>5. Cardinality(Bits(w, n)) = k + 1
    BY <2>1, <2>2, <2>3, <2>4
  <2> QED
    BY <2>5 DEF n
<1> HIDE DEF S
<1>3. \A k \in Nat : k \in S
  BY <1>1, <1>2, Induction
<1> QED
  BY <1>3 DEF S

(***************************************************************************)
(* uadd: a sum that wraps is less than both.                               *)
(***************************************************************************)
LEMMA UAddAccepts ==
  ASSUME NEW w \in Nat, NEW a \in Nat, NEW b \in Nat, a < pow2[w], b < pow2[w]
  PROVE  /\ UAdd(w, a, b).ok <=> a + b < pow2[w]
         /\ UAdd(w, a, b).ok => UAdd(w, a, b).sum = a + b
<1> DEFINE n == a + b
           q == pow2[w]
           s == Wrap(w, n)
<1>1. n \in Nat /\ q \in Nat \ {0}
  BY Pow2
<1> HIDE DEF n
<1>2. /\ n < q => s = n
      /\ q <= n /\ n < 2 * q => s = n - q
  BY <1>1, WordWrap
<1> HIDE DEF q, s
<1>3. n = a + b /\ a < q /\ b < q
  BY DEF n, q
<1>4. Greater(a, b) \in Nat /\ (Greater(a, b) = a \/ Greater(a, b) = b) /\ Greater(a, b) <= n
  BY <1>3 DEF Greater
<1>5. s >= Greater(a, b) <=> n < q
  BY <1>1, <1>2, <1>3, <1>4
<1>6. UAdd(w, a, b) = [ok |-> s >= Greater(a, b), sum |-> s]
  BY DEF UAdd, s, n
<1>7. UAdd(w, a, b).ok = (s >= Greater(a, b)) /\ UAdd(w, a, b).sum = s
  <2> DEFINE fits == s >= Greater(a, b)
  <2>1. UAdd(w, a, b) = [ok |-> fits, sum |-> s]
    BY <1>6
  <2> HIDE DEF fits
  <2>2. UAdd(w, a, b).ok = fits
    BY <2>1
  <2>3. UAdd(w, a, b).sum = s
    BY <2>1
  <2> QED
    BY <2>2, <2>3, Zenon DEF fits
<1>8. (UAdd(w, a, b).ok <=> n < q) /\ UAdd(w, a, b).sum = s
  BY <1>5, <1>7, Zenon
<1>9. n < q => s = n
  BY <1>2
<1> QED
  BY <1>8, <1>9, Zenon DEF n, q

LEMMA OnePast ==
  ASSUME NEW w \in Nat, NEW n \in Nat \ {0}, n < pow2[w]
  PROVE  SumOr0(UAdd(w, n - 1, 1)) = n
<1> DEFINE m == n - 1
<1>1. m \in Nat /\ 1 \in Nat /\ m + 1 = n /\ m < pow2[w] /\ 1 < pow2[w]
  BY Pow2
<1> HIDE DEF m
<1>2. /\ UAdd(w, m, 1).ok <=> m + 1 < pow2[w]
      /\ UAdd(w, m, 1).ok => UAdd(w, m, 1).sum = m + 1
  BY <1>1, UAddAccepts
<1>3. SumOr0(UAdd(w, m, 1)) = n
  BY <1>1, <1>2 DEF SumOr0
<1> QED
  BY <1>3 DEF m

LEMMA SmallWidth ==
  ASSUME NEW w \in Width
  PROVE  /\ w \in Nat /\ w >= 8 /\ w > 3 /\ w - 1 \in Nat /\ w \div 2 \in Nat
         /\ pow2[w] = 2 * pow2[w - 1] /\ pow2[w - 1] \in Nat \ {0}
<1>1. w \in Nat /\ w >= 8
  BY WidthWide
<1> DEFINE v == w - 1
<1>2. v \in Nat /\ v + 1 = w
  BY <1>1
<1> HIDE DEF v
<1>3. pow2[v + 1] = 2 * pow2[v] /\ pow2[v] \in Nat \ {0}
  BY <1>2, Pow2
<1>4. w \div 2 \in Nat
  BY <1>1
<1> QED
  BY <1>1, <1>2, <1>3, <1>4 DEF v

(***************************************************************************)
(* set_lower, get_msb and degree2 find the highest bit of every word that  *)
(* has not the top bit set.                                                *)
(***************************************************************************)
LEMMA WidthTop ==
  ASSUME NEW w \in Width, NEW x \in Nat
  PROVE  FindsTopBit(w, x)
<1> SUFFICES ASSUME x > 0, x < pow2[w - 1]
             PROVE  /\ SetLower(w, x) = pow2[Top(w, x) + 1] - 1
                    /\ GetMsb(w, x) = Top(w, x) + 1
                    /\ Degree2Curr(w, x) = pow2[Top(w, x)]
                    /\ Degree2Next(w, x) = pow2[Top(w, x) + 1]
  BY DEF FindsTopBit
<1>1. /\ w \in Nat /\ w > 3 /\ w - 1 \in Nat /\ pow2[w] = 2 * pow2[w - 1]
      /\ pow2[w - 1] \in Nat \ {0} /\ x \in Nat \ {0}
  BY SmallWidth
<1> DEFINE v == w - 1
<1>2. PICK t \in 0 .. v - 1 : IsTop(x, t)
  <2>1. v \in Nat /\ x < pow2[v]
    BY <1>1
  <2> HIDE DEF v
  <2> QED
    BY <1>1, <2>1, SomeTop
<1>3. /\ t \in Nat /\ t \in 0 .. w - 1 /\ t \in 0 .. w - 2 /\ t + 1 \in Nat /\ t + 1 <= v
      /\ v \in Nat
  BY <1>1
<1>4. Top(w, x) = t
  BY <1>1, <1>2, <1>3, TopIs
<1>5. SetLower(w, x) = pow2[t + 1] - 1
  BY <1>1, <1>2, <1>3, SetLowerIs
<1>6. /\ pow2[t + 1] = 2 * pow2[t] /\ pow2[t] \in Nat \ {0} /\ pow2[t + 1] <= pow2[v]
      /\ pow2[t + 1] \in Nat \ {0} /\ pow2[t] < pow2[w] /\ pow2[t + 1] < pow2[w]
  <2>1. pow2[t + 1] = 2 * pow2[t] /\ pow2[t] \in Nat \ {0} /\ pow2[v] \in Nat
    BY <1>1, <1>3, Pow2
  <2>2. pow2[t + 1] <= pow2[v]
    BY <1>3, Pow2Monotone
  <2> QED
    BY <1>1, <2>1, <2>2
<1> HIDE DEF v
<1>7. GetMsb(w, x) = t + 1
  <2> DEFINE n == pow2[t + 1] - 1
  <2>1. n \in Nat
    BY <1>6
  <2>2. Cardinality(Bits(w, n)) = t + 1
    BY <1>1, <1>3, OnesCounted
  <2> HIDE DEF n
  <2>3. PopCnt(w, n) = t + 1
    BY <2>1, <2>2, WidthCounts DEF CountsBits
  <2> QED
    BY <1>5, <2>3 DEF GetMsb, n
<1>8. Degree2Next(w, x) = pow2[t + 1]
  <2> DEFINE n == pow2[t + 1]
  <2>1. n \in Nat \ {0} /\ n < pow2[w]
    BY <1>6
  <2> HIDE DEF n
  <2>2. SumOr0(UAdd(w, n - 1, 1)) = n
    BY <1>1, <2>1, OnePast
  <2> QED
    BY <1>5, <2>2 DEF Degree2Next, n
<1>9. Degree2Curr(w, x) = pow2[t]
  <2> DEFINE n == pow2[t]
  <2>1. n \in Nat \ {0} /\ n < pow2[w]
    BY <1>6
  <2>2. SetLower(w, Half(x)) = n - 1
    <3>1. CASE t = 0
      <4>1. x = 1 /\ n = 1
        BY <1>1, <1>2, <1>6, <3>1, Pow2 DEF IsTop
      <4> QED
        BY <4>1 DEF SetLower, Half
    <3>2. CASE t # 0
      <4> DEFINE s == t - 1
      <4>1. s \in Nat /\ s + 1 = t /\ s \in 0 .. w - 2
        BY <1>1, <1>3, <3>2
      <4> HIDE DEF s
      <4>2. Half(x) \in Nat /\ pow2[s + 1] = 2 * pow2[s] /\ pow2[s] \in Nat
        BY <4>1, Halves, Pow2
      <4>3. Half(x) < pow2[s + 1] /\ ~(Half(x) < pow2[s])
        BY <1>1, <1>2, <1>3, <1>6, <4>1, <4>2, HalfBelow DEF IsTop
      <4>4. IsTop(Half(x), s)
        BY <4>2, <4>3 DEF IsTop
      <4>5. SetLower(w, Half(x)) = pow2[s + 1] - 1
        BY <1>1, <4>1, <4>2, <4>4, SetLowerIs
      <4> QED
        BY <4>1, <4>5
    <3> QED
      BY <3>1, <3>2
  <2>3. ShiftR(x, 1) = Half(x)
    <3>1. pow2[0 + 1] = 2 * pow2[0] /\ pow2[0] = 1
      BY Pow2
    <3> QED
      BY <3>1 DEF ShiftR, Half
  <2> HIDE DEF n
  <2>4. SumOr0(UAdd(w, n - 1, 1)) = n
    BY <1>1, <2>1, OnePast
  <2> QED
    BY <1>1, <2>2, <2>3, <2>4 DEF Degree2Curr, n
<1> QED
  BY <1>4, <1>5, <1>7, <1>8, <1>9

LEMMA AskedWords ==
  ASSUME Asked, asked.of = "unsigned"
  PROVE  /\ asked.w \in Width /\ asked.x \in Word(asked.w) /\ asked.y \in Word(asked.w)
         /\ asked.x \in Nat /\ asked.y \in Nat
BY DEF Asked, Signed, Unsigned, Word

(***************************************************************************)
(* On words of every width, popcnt counts the bits and the functions that  *)
(* find the highest bit find it, whatever is asked (popcnt.h, setlower.h,  *)
(* getmsb.h, degree2.h).                                                   *)
(***************************************************************************)
THEOREM BitFunctionsAlways == NumSpec => []BitFunctions
<1>1. Asked => BitFunctions
  BY AskedWords, WidthCounts, WidthTop DEF BitFunctions
<1>2. Asked /\ [Asked']_asked => Asked'
  BY DEF Asked, Signed, Unsigned, Word
<1> QED
  BY <1>1, <1>2, PTL DEF NumSpec

(***************************************************************************)
(* umul, for a product that fits.                                          *)
(***************************************************************************)
LEMMA UMulAccepts ==
  ASSUME NEW w \in Nat, NEW a \in Nat \ {0}, NEW b \in Nat \ {0}, a * b < pow2[w]
  PROVE  UMul(w, a, b) = [ok |-> TRUE, product |-> a * b]
<1> DEFINE n == a * b
           s == Wrap(w, n)
<1>1. n \in Nat /\ a <= n /\ b <= n
  <2>1. 1 * b <= a * b /\ a * 1 <= a * b /\ a * b \in Nat
    BY Times
  <2> QED
    BY <2>1
<1>2. n < pow2[w]
  OBVIOUS
<1> HIDE DEF n
<1>3. s = n
  BY <1>1, <1>2, WordWrap
<1> HIDE DEF s
<1> DEFINE fits == s >= Greater(a, b)
<1>4. fits
  BY <1>1, <1>3 DEF Greater
<1>5. UMul(w, a, b) = [ok |-> fits, product |-> s]
  BY DEF UMul, s, n
<1>6. fits = TRUE
  BY <1>4
<1> HIDE DEF fits
<1> QED
  BY <1>3, <1>5, <1>6 DEF n

LEMMA Safe ==
  ASSUME NEW w \in Nat, NEW x \in Nat, NEW y \in Nat, x < pow2[w], y < pow2[w]
  PROVE  SafeArithmetic(w, x, y)
<1>1. /\ UAdd(w, x, y).ok <=> x + y < pow2[w]
      /\ UAdd(w, x, y).ok => UAdd(w, x, y).sum = x + y
  BY UAddAccepts
<1>2. ASSUME x > 0, y > 0, x * y < pow2[w]
      PROVE  UMul(w, x, y) = [ok |-> TRUE, product |-> x * y]
  <2>1. x \in Nat \ {0} /\ y \in Nat \ {0}
    BY <1>2
  <2> QED
    BY <1>2, <2>1, UMulAccepts, Zenon
<1> QED
  BY <1>1, <1>2, Zenon DEF SafeArithmetic

(***************************************************************************)
(* Powers of two are the words with one bit, and x & (align - 1) is the    *)
(* remainder for them.                                                     *)
(***************************************************************************)
LEMMA NoBit ==
  \A w \in Nat : \A x \in Nat : x < pow2[w] /\ Cardinality(Bits(w, x)) = 0 => x = 0
<1> DEFINE P(w) == \A x \in Nat : x < pow2[w] /\ Cardinality(Bits(w, x)) = 0 => x = 0
           S == {w \in Nat : P(w)}
<1>1. 0 \in S
  BY Pow2
<1>2. ASSUME NEW w \in Nat, w \in S
      PROVE  w + 1 \in S
  <2> SUFFICES ASSUME NEW x \in Nat, x < pow2[w + 1], Cardinality(Bits(w + 1, x)) = 0
               PROVE  x = 0
    OBVIOUS
  <2>1. /\ Half(x) \in Nat /\ Parity(x) \in 0 .. 1 /\ x = 2 * Half(x) + Parity(x)
        /\ Half(x) < pow2[w]
    BY Halves, HalfBelow
  <2>2. /\ Cardinality(Bits(w + 1, x)) = Parity(x) + Cardinality(Bits(w, Half(x)))
        /\ Cardinality(Bits(w, Half(x))) \in Nat
    BY BitsNext, FiniteBits
  <2>3. Cardinality(Bits(w, Half(x))) = 0 /\ Parity(x) = 0
    BY <2>1, <2>2
  <2>4. Half(x) = 0
    BY <1>2, <2>1, <2>3
  <2> QED
    BY <2>1, <2>3, <2>4
<1> HIDE DEF S
<1>3. \A w \in Nat : w \in S
  BY <1>1, <1>2, Induction
<1> QED
  BY <1>3 DEF S

LEMMA OneBit ==
  \A w \in Nat : \A x \in Nat :
    x < pow2[w] /\ Cardinality(Bits(w, x)) = 1 => \E i \in 0 .. w - 1 : x = pow2[i]
<1> DEFINE P(w) == \A x \in Nat :
             x < pow2[w] /\ Cardinality(Bits(w, x)) = 1 => \E i \in 0 .. w - 1 : x = pow2[i]
           S == {w \in Nat : P(w)}
<1>1. 0 \in S
  <2>1. ASSUME NEW x \in Nat
        PROVE  Cardinality(Bits(0, x)) # 1
    BY FiniteBits
  <2> QED
    BY <2>1
<1>2. ASSUME NEW w \in Nat, w \in S
      PROVE  w + 1 \in S
  <2> SUFFICES ASSUME NEW x \in Nat, x < pow2[w + 1], Cardinality(Bits(w + 1, x)) = 1
               PROVE  \E i \in 0 .. w : x = pow2[i]
    OBVIOUS
  <2>1. /\ Half(x) \in Nat /\ Parity(x) \in 0 .. 1 /\ x = 2 * Half(x) + Parity(x)
        /\ Half(x) < pow2[w]
    BY Halves, HalfBelow
  <2>2. /\ Cardinality(Bits(w + 1, x)) = Parity(x) + Cardinality(Bits(w, Half(x)))
        /\ Cardinality(Bits(w, Half(x))) \in Nat
    BY BitsNext, FiniteBits
  <2>3. CASE Parity(x) = 1
    <3>1. Half(x) = 0
      BY <2>1, <2>2, <2>3, NoBit
    <3>2. x = pow2[0] /\ 0 \in 0 .. w
      BY <2>1, <2>3, <3>1, Pow2
    <3> QED
      BY <3>2
  <2>4. CASE Parity(x) = 0
    <3>1. Cardinality(Bits(w, Half(x))) = 1
      BY <2>2, <2>4
    <3>2. PICK i \in 0 .. w - 1 : Half(x) = pow2[i]
      BY <1>2, <2>1, <3>1
    <3>3. i \in Nat /\ i + 1 \in 0 .. w /\ pow2[i + 1] = 2 * pow2[i]
      BY Pow2
    <3>4. x = pow2[i + 1]
      BY <2>1, <2>4, <3>2, <3>3
    <3> QED
      BY <3>3, <3>4
  <2> QED
    BY <2>1, <2>3, <2>4
<1> HIDE DEF S
<1>3. \A w \in Nat : w \in S
  BY <1>1, <1>2, Induction
<1> QED
  BY <1>3 DEF S

LEMMA PowerCounted ==
  \A i \in Nat : \A w \in Nat : i < w => Cardinality(Bits(w, pow2[i])) = 1
<1> DEFINE P(i) == \A w \in Nat : i < w => Cardinality(Bits(w, pow2[i])) = 1
           S == {i \in Nat : P(i)}
<1>1. 0 \in S
  <2>1. pow2[0] = 1 /\ pow2[0 + 1] = 2 * pow2[0]
    BY Pow2
  <2>2. \A w \in Nat : 1 <= w => Cardinality(Bits(w, pow2[1] - 1)) = 1
    BY OnesCounted
  <2> QED
    BY <2>1, <2>2
<1>2. ASSUME NEW i \in Nat, i \in S
      PROVE  i + 1 \in S
  <2> SUFFICES ASSUME NEW w \in Nat, i + 1 < w
               PROVE  Cardinality(Bits(w, pow2[i + 1])) = 1
    OBVIOUS
  <2> DEFINE v == w - 1
             n == pow2[i + 1]
  <2>1. v \in Nat /\ v + 1 = w /\ i < v
    OBVIOUS
  <2>2. n \in Nat /\ Half(n) = pow2[i] /\ Parity(n) = 0
    <3>1. pow2[i + 1] = 2 * pow2[i] /\ pow2[i] \in Nat \ {0}
      BY Pow2
    <3> QED
      BY <3>1 DEF Half, Parity
  <2> HIDE DEF v, n
  <2>3. Cardinality(Bits(v + 1, n)) = Parity(n) + Cardinality(Bits(v, Half(n)))
    BY <2>1, <2>2, BitsNext
  <2>4. Cardinality(Bits(v, pow2[i])) = 1
    BY <1>2, <2>1
  <2>5. Cardinality(Bits(w, n)) = 1
    BY <2>1, <2>2, <2>3, <2>4
  <2> QED
    BY <2>5 DEF n
<1> HIDE DEF S
<1>3. \A i \in Nat : i \in S
  BY <1>1, <1>2, Induction
<1> QED
  BY <1>3 DEF S

LEMMA PowerOfTwo ==
  ASSUME NEW w \in Width, NEW x \in Nat, x < pow2[w]
  PROVE  PopCnt(w, x) = 1 <=> \E i \in 0 .. w - 1 : x = pow2[i]
<1>1. w \in Nat /\ PopCnt(w, x) = Cardinality(Bits(w, x))
  BY SmallWidth, WidthCounts DEF CountsBits
<1>2. PopCnt(w, x) = 1 => \E i \in 0 .. w - 1 : x = pow2[i]
  BY <1>1, OneBit
<1>3. ASSUME NEW i \in 0 .. w - 1, x = pow2[i]
      PROVE  PopCnt(w, x) = 1
  <2>1. i \in Nat /\ i < w
    BY <1>1
  <2> QED
    BY <1>1, <1>3, <2>1, PowerCounted
<1> QED
  BY <1>2, <1>3

LEMMA MaskLower ==
  \A i \in Nat : \A w, x \in Nat : i <= w => and[w][x][pow2[i] - 1] = x % pow2[i]
<1> DEFINE P(i) == \A w, x \in Nat : i <= w => and[w][x][pow2[i] - 1] = x % pow2[i]
           S == {i \in Nat : P(i)}
<1>1. 0 \in S
  <2>1. pow2[0] = 1
    BY Pow2
  <2>2. ASSUME NEW w \in Nat, NEW x \in Nat
        PROVE  and[w][x][0] = 0 /\ x % 1 = 0
    <3>1. and[w][x][0] <= 0 /\ and[w][x][0] \in Nat
      BY AndAtMost, AndNat
    <3> QED
      BY <3>1
  <2> QED
    BY <2>1, <2>2
<1>2. ASSUME NEW i \in Nat, i \in S
      PROVE  i + 1 \in S
  <2> SUFFICES ASSUME NEW w \in Nat, NEW x \in Nat, i + 1 <= w
               PROVE  and[w][x][pow2[i + 1] - 1] = x % pow2[i + 1]
    OBVIOUS
  <2> DEFINE b == pow2[i]
             c == pow2[i + 1]
             m == c - 1
             r == x % c
  <2>1. b \in Nat \ {0} /\ c = 2 * b
    BY Pow2
  <2>2. m \in Nat /\ Half(m) = b - 1 /\ Parity(m) = 1 /\ c \in Nat \ {0} /\ IsProduct(c, 2, b)
    BY <2>1 DEF Half, Parity, IsProduct
  <2>3. w \in Nat \ {0} /\ w - 1 \in Nat /\ i <= w - 1
    OBVIOUS
  <2>4. Half(x) \in Nat /\ Parity(x) \in 0 .. 1
    BY Halves
  <2>5. and[w - 1][Half(x)][b - 1] = Half(x) % b
    BY <1>2, <2>3, <2>4
  <2> HIDE DEF b, c
  <2>6. (x % c) \div 2 = (x \div 2) % b /\ (x % c) % 2 = x % 2
    <3>1. b \in Nat \ {0} /\ IsProduct(c, 2, b)
      BY <2>1, <2>2
    <3> QED
      BY <3>1, Halved
  <2>7. r \in Nat
    BY <2>2, Divided
  <2> HIDE DEF m, r
  <2>8. and[w][x][m] = Parity(x) * Parity(m) + 2 * and[w - 1][Half(x)][Half(m)]
    BY <2>2, <2>3, AndHalves
  <2>9. Half(r) = Half(x) % b /\ Parity(r) = Parity(x)
    BY <2>6 DEF Half, Parity, r
  <2>10. r = 2 * Half(r) + Parity(r) /\ Half(r) \in Nat
    BY <2>7, Halves
  <2>11. and[w][x][m] = Parity(x) + 2 * (Half(x) % b)
    BY <2>2, <2>4, <2>5, <2>8
  <2>12. and[w][x][m] = r
    BY <2>4, <2>9, <2>10, <2>11
  <2> QED
    BY <2>12 DEF m, r, c
<1> HIDE DEF S
<1>3. \A i \in Nat : i \in S
  BY <1>1, <1>2, Induction
<1> QED
  BY <1>3 DEF S

LEMMA RemainderIs ==
  ASSUME NEW w \in Width, NEW x \in Nat, NEW y \in Nat \ {0}, y < pow2[w]
  PROVE  Remainder(w, x, y) = x % y
<1>1. CASE PopCnt(w, y) = 1
  <2>1. PICK i \in 0 .. w - 1 : y = pow2[i]
    BY <1>1, PowerOfTwo
  <2>2. i \in Nat /\ w \in Nat /\ i <= w
    BY SmallWidth
  <2>3. and[w][x][pow2[i] - 1] = x % pow2[i]
    BY <2>2, MaskLower
  <2> QED
    BY <1>1, <2>1, <2>3, Zenon DEF Remainder, And
<1>2. CASE PopCnt(w, y) # 1
  BY <1>2, Zenon DEF Remainder
<1> QED
  BY <1>1, <1>2

(***************************************************************************)
(* roundby, and its result as an int.                                      *)
(***************************************************************************)
LEMMA MultipleIs ==
  ASSUME NEW n \in Nat, NEW a \in Nat \ {0}
  PROVE  /\ Multiple(n, a) = IF n % a = 0 THEN n ELSE (n - (n % a)) + a
         /\ n % a \in 0 .. a - 1 /\ n - (n % a) \in Nat
         /\ Multiple(n, a) \in Nat /\ n <= Multiple(n, a) /\ Multiple(n, a) < n + a
         /\ \E k \in Nat : Multiple(n, a) = k * a
<1> DEFINE q == n \div a
           r == n % a
           m == n + a - 1
<1>1. q \in Nat /\ r \in 0 .. a - 1 /\ n = q * a + r
  BY Divided
<1> HIDE DEF q, r
<1>2. q * a \in Nat /\ (q + 1) * a = q * a + a /\ m \in Nat /\ m = q * a + r + a - 1
  BY <1>1
<1>3. CASE r = 0
  <2> DEFINE s == a - 1
  <2>1. s \in 0 .. a - 1 /\ m = q * a + s
    BY <1>1, <1>3
  <2> HIDE DEF m, s
  <2>2. m \div a = q
    BY <1>1, <1>2, <2>1, DivisionUnique
  <2>3. Multiple(n, a) = a * q
    BY <2>2 DEF Multiple, m
  <2>4. a * q = q * a /\ n = q * a
    BY <1>1, <1>3
  <2>5. Multiple(n, a) = n /\ n = q * a
    BY <2>3, <2>4
  <2> QED
    BY <1>1, <1>2, <1>3, <2>5 DEF r
<1>4. CASE r # 0
  <2> DEFINE s == r - 1
             p == q + 1
  <2>1. s \in 0 .. a - 1 /\ m = p * a + s /\ p \in Nat
    BY <1>1, <1>2, <1>4
  <2> HIDE DEF m, s, p
  <2>2. m \div a = p
    BY <1>2, <2>1, DivisionUnique
  <2>3. Multiple(n, a) = a * p
    BY <2>2 DEF Multiple, m
  <2>4. a * p = p * a /\ p * a = q * a + a
    BY <1>1, <1>2, <2>1 DEF p
  <2>5. Multiple(n, a) = p * a /\ p * a = (n - r) + a
    BY <1>1, <1>2, <2>3, <2>4
  <2> QED
    BY <1>1, <1>2, <1>4, <2>1, <2>5 DEF r
<1> QED
  BY <1>3, <1>4

LEMMA RoundByIs ==
  ASSUME NEW w \in Width, NEW x \in Nat, NEW y \in Nat \ {0}, x < pow2[w], y < pow2[w]
  PROVE  RoundBy(w, x, y) = IF Multiple(x, y) < pow2[w] THEN Multiple(x, y)
                            ELSE Multiple(x, y) - y
<1> DEFINE r == x % y
           down == x - r
           up == Multiple(x, y)
           sum == UAdd(w, down, y)
           q == pow2[w]
<1>1. /\ up = IF r = 0 THEN x ELSE down + y
      /\ r \in 0 .. y - 1 /\ down \in Nat /\ w \in Nat /\ down <= x
  <2>1. /\ up = IF r = 0 THEN x ELSE down + y
        /\ r \in 0 .. y - 1 /\ down \in Nat
    BY MultipleIs, Zenon
  <2> HIDE DEF r, up
  <2> QED
    BY <2>1, SmallWidth
<1>2. Remainder(w, x, y) = r
  BY RemainderIs
<1>3. RoundBy(w, x, y) = IF y < 2 \/ r = 0 THEN x ELSE IF sum.ok THEN sum.sum ELSE down
  BY <1>2, Zenon DEF RoundBy
<1>4. (sum.ok <=> down + y < q) /\ (sum.ok => sum.sum = down + y)
  <2>1. down < q /\ y < q
    BY <1>1, SmallWidth
  <2> HIDE DEF down
  <2> QED
    BY <1>1, <2>1, UAddAccepts
<1>5. x < q /\ q \in Nat
  BY SmallWidth
<1> HIDE DEF down, sum, r, up, q
<1>6. CASE y < 2 \/ r = 0
  <2>1. r = 0
    BY <1>1, <1>6
  <2> QED
    BY <1>1, <1>3, <1>5, <2>1 DEF up, q
<1>7. CASE ~(y < 2 \/ r = 0) /\ down + y < q
  BY <1>1, <1>3, <1>4, <1>7 DEF up, q
<1>8. CASE ~(y < 2 \/ r = 0) /\ ~(down + y < q)
  <2>1. RoundBy(w, x, y) = down
    BY <1>3, <1>4, <1>8, Zenon
  <2>2. up = down + y /\ ~(up < q) /\ up - y = down
    BY <1>1, <1>8
  <2> QED
    BY <2>1, <2>2 DEF up, q
<1> QED
  BY <1>6, <1>7, <1>8

IntLimit(w) == pow2[(w \div 2) - 1]

LEMMA SmallInt ==
  ASSUME NEW w \in Width
  PROVE  /\ (w \div 2) - 1 \in Nat /\ IntLimit(w) \in Nat \ {0}
         /\ pow2[w \div 2] = 2 * IntLimit(w)
         /\ IntLimit(w) <= pow2[w - 1] /\ IntLimit(w) < pow2[w]
<1> DEFINE h == (w \div 2) - 1
<1>1. h \in Nat /\ h + 1 = w \div 2 /\ h <= w - 1 /\ w - 1 \in Nat
  BY SmallWidth
<1> HIDE DEF h
<1>2. pow2[h + 1] = 2 * pow2[h] /\ pow2[h] \in Nat \ {0} /\ pow2[h] <= pow2[w - 1]
  BY <1>1, Pow2, Pow2Monotone
<1>3. pow2[w] = 2 * pow2[w - 1] /\ pow2[w - 1] \in Nat \ {0}
  BY SmallWidth
<1> QED
  BY <1>1, <1>2, <1>3 DEF IntLimit, h

LEMMA AsIntIs ==
  ASSUME NEW w \in Width, NEW n \in Nat, n < IntLimit(w)
  PROVE  AsInt(w, n) = n
<1> DEFINE half == pow2[w \div 2]
           limit == IntLimit(w)
<1>1. /\ half = 2 * limit /\ limit \in Nat \ {0} /\ limit < pow2[w] /\ w \in Nat
      /\ w \div 2 \in Nat
  BY SmallInt, SmallWidth
<1>2. half \div 2 = limit
  <2> HIDE DEF half, limit
  <2> QED
    BY <1>1
<1>3. n < half /\ n < pow2[w]
  BY <1>1, Pow2
<1>4. n % half = n
  BY <1>1, <1>3, WordWrap DEF Wrap
<1>5. n % pow2[w] = n
  BY <1>1, <1>3, WordWrap DEF Wrap
<1>6. n < half \div 2
  BY <1>2
<1> HIDE DEF half
<1>7. AsInt(w, n) = IF n % half < half \div 2 THEN (n % half) % pow2[w]
                    ELSE ((n % half) - half) % pow2[w]
  BY DEF AsInt, Wrap, half
<1> QED
  BY <1>4, <1>5, <1>6, <1>7

LEMMA RoundByLIs ==
  ASSUME NEW w \in Width, NEW x \in Nat, NEW y \in Nat \ {0}, x < pow2[w], y < pow2[w],
         Multiple(x, y) < IntLimit(w)
  PROVE  RoundByL(w, x, y) = Multiple(x, y)
<1> DEFINE n == Multiple(x, y)
<1>1. n \in Nat /\ n < IntLimit(w) /\ IntLimit(w) \in Nat /\ IntLimit(w) < pow2[w]
  BY MultipleIs, SmallInt
<1>2. n < pow2[w] /\ n < IntLimit(w)
  BY <1>1, SmallWidth
<1>3. RoundBy(w, x, y) = n
  BY <1>2, RoundByIs
<1> HIDE DEF n
<1>4. AsInt(w, n) = n
  BY <1>1, AsIntIs
<1> QED
  BY <1>3, <1>4 DEF RoundByL, n

LEMMA Rounds ==
  ASSUME NEW w \in Width, NEW x \in Nat, NEW y \in Nat, x < pow2[w], y < pow2[w]
  PROVE  RoundsUp(w, x, y)
<1> SUFFICES ASSUME y > 0
             PROVE  /\ RoundBy(w, x, y) = IF Multiple(x, y) < pow2[w] THEN Multiple(x, y)
                                          ELSE Multiple(x, y) - y
                    /\ Multiple(x, y) < IntLimit(w) => RoundByL(w, x, y) = Multiple(x, y)
  BY DEF RoundsUp, IntLimit
<1>1. y \in Nat \ {0}
  OBVIOUS
<1> QED
  BY <1>1, RoundByIs, RoundByLIs

(***************************************************************************)
(* memfun_align.                                                           *)
(***************************************************************************)
LEMMA SmallPowers ==
  pow2[0] = 1 /\ pow2[1] = 2 /\ pow2[2] = 4 /\ pow2[3] = 8 /\ pow2[4] = 16
<1>1. pow2[0 + 1] = 2 * pow2[0] /\ pow2[1 + 1] = 2 * pow2[1]
  BY Pow2
<1>2. pow2[2 + 1] = 2 * pow2[2] /\ pow2[3 + 1] = 2 * pow2[3]
  BY Pow2
<1> QED
  BY <1>1, <1>2, Pow2

LEMMA ShiftedBelow ==
  ASSUME NEW x \in Nat, NEW k \in Nat
  PROVE  ShiftR(x, k) \in Nat /\ ShiftR(x, k) <= x
<1> DEFINE p == pow2[k]
           q == x \div p
<1>1. p \in Nat \ {0}
  BY Pow2
<1> HIDE DEF p
<1>2. q \in Nat /\ x % p \in 0 .. p - 1 /\ x = q * p + (x % p)
  BY <1>1, Divided
<1> HIDE DEF q
<1>3. q * 1 <= q * p /\ q * p \in Nat
  BY <1>1, <1>2, Times
<1>4. q <= x
  BY <1>1, <1>2, <1>3
<1> QED
  BY <1>2, <1>4 DEF ShiftR, q, p

LEMMA Smeared ==
  ASSUME NEW w \in Nat, NEW t \in 1 .. 2, t < w, NEW x \in Nat, IsTop(x, t)
  PROVE  Or(w, Or(w, Or(w, x, ShiftR(x, 1)), Or(w, ShiftR(x, 2), ShiftR(x, 3))),
            Or(w, ShiftR(x, 4), ShiftR(x, 5))) = pow2[t + 1] - 1
<1> DEFINE x1 == ShiftR(x, 1)
           x2 == ShiftR(x, 2)
           x3 == ShiftR(x, 3)
           x4 == ShiftR(x, 4)
           x5 == ShiftR(x, 5)
           two == or[w][x][x1]
           four == or[w][x2][x3]
           both == or[w][two][four]
           six == or[w][x4][x5]
           n == or[w][both][six]
           top == pow2[t + 1]
<1>1. BitOf(x, t) = 1 /\ x < top /\ top \in Nat /\ t \in Nat /\ t + 1 \in Nat
  <2>1. t \in Nat /\ t + 1 \in Nat
    OBVIOUS
  <2>2. BitOf(x, t) = 1
    BY <2>1, TopBits
  <2> QED
    BY <2>1, <2>2, Pow2 DEF IsTop
<1>2. /\ x1 \in Nat /\ x1 <= x /\ x2 \in Nat /\ x2 <= x /\ x3 \in Nat /\ x3 <= x
      /\ x4 \in Nat /\ x4 <= x /\ x5 \in Nat /\ x5 <= x
  BY ShiftedBelow
<1>3. x1 = Half(x) /\ x2 = Half(x1)
  <2>1. ShiftR(x, 0 + 1) = ShiftR(Half(x), 0) /\ ShiftR(x, 1 + 1) = ShiftR(Half(x), 1)
    BY ShiftedHalf
  <2>2. Half(x) \in Nat
    BY Halves
  <2>3. ShiftR(Half(x), 0) = Half(x)
    BY <2>2, ShiftedHalf
  <2>4. ShiftR(Half(x), 0 + 1) = ShiftR(Half(Half(x)), 0) /\ Half(Half(x)) \in Nat
    BY <2>2, ShiftedHalf, Halves
  <2>5. ShiftR(Half(Half(x)), 0) = Half(Half(x))
    BY <2>4, ShiftedHalf
  <2> QED
    BY <2>1, <2>3, <2>4, <2>5
<1> HIDE DEF x1, x2, x3, x4, x5, two, four, both, six, top, n
<1>4. two \in Nat /\ four \in Nat /\ six \in Nat
  BY <1>2, OrDigits DEF two, four, six
<1>5. both \in Nat
  BY <1>4, OrDigits DEF both
<1>6. n \in Nat
  BY <1>4, <1>5, OrDigits DEF n
<1>7. n < top
  <2>1. x < top /\ x1 < top /\ x2 < top /\ x3 < top /\ x4 < top /\ x5 < top
    BY <1>1, <1>2
  <2>2. two < top /\ four < top /\ six < top
    BY <1>1, <1>2, <2>1, OrBelow DEF two, four, six, top
  <2>3. both < top
    BY <1>1, <1>4, <2>2, OrBelow DEF both, top
  <2> QED
    BY <1>1, <1>4, <1>5, <2>2, <2>3, OrBelow DEF n, top
<1>8. ASSUME NEW i \in Nat, i < w, BitOf(x, i) = 1 \/ BitOf(x1, i) = 1 \/ BitOf(x2, i) = 1
      PROVE  BitOf(n, i) = 1
  <2>1. BitOf(two, i) = 1 \/ BitOf(four, i) = 1
    BY <1>2, <1>8, OrBits DEF two, four
  <2>2. BitOf(both, i) = 1
    BY <1>4, <1>8, <2>1, OrBits DEF both
  <2> QED
    BY <1>4, <1>5, <1>8, <2>2, OrBits DEF n
<1>9. ASSUME NEW i \in 0 .. t
      PROVE  BitOf(n, i) = 1
  <2>1. i \in Nat /\ i < w
    OBVIOUS
  <2>2. BitOf(x, i + 1) = BitOf(x1, i) /\ BitOf(x1, i + 1) = BitOf(x2, i)
    BY <1>2, <1>3, <2>1, BitHalf
  <2>3. BitOf(x, (i + 1) + 1) = BitOf(x1, i + 1)
    BY <1>3, <2>1, BitHalf
  <2>4. t = i \/ t = i + 1 \/ t = (i + 1) + 1
    OBVIOUS
  <2>5. BitOf(x, i) = 1 \/ BitOf(x1, i) = 1 \/ BitOf(x2, i) = 1
    BY <1>1, <2>2, <2>3, <2>4
  <2> QED
    BY <1>8, <2>1, <2>5
<1>10. n = top - 1
  <2> DEFINE k == t + 1
  <2>1. k \in Nat /\ n < pow2[k] /\ \A i \in 0 .. k - 1 : BitOf(n, i) = 1
    BY <1>1, <1>7, <1>9 DEF top
  <2> HIDE DEF k
  <2>2. n = pow2[k] - 1
    BY <1>6, <2>1, AllOnes
  <2> QED
    BY <2>2 DEF k, top
<1> QED
  BY <1>10 DEF Or, n, both, six, two, four, x1, x2, x3, x4, x5, top

LEMMA N2dDumbIs ==
  ASSUME NEW w \in Nat, NEW t \in 1 .. 2, t + 2 <= w, NEW x \in Nat, IsTop(x, t)
  PROVE  N2dDumb(w, x) = pow2[t + 1]
<1> DEFINE p == pow2[t]
           k == t + 1
           twice == 2 * x
           q == pow2[k]
<1>1. /\ t \in Nat /\ k \in Nat /\ k <= w /\ t < w
      /\ p \in Nat \ {0} /\ q = 2 * p /\ p <= x /\ x < q
  BY Pow2 DEF IsTop
<1>2. 2 * q = pow2[t + 2] /\ pow2[t + 2] <= pow2[w]
  <2>1. k + 1 = t + 2 /\ t + 2 \in Nat
    BY <1>1
  <2>2. pow2[k + 1] = 2 * pow2[k]
    BY <1>1, Pow2
  <2> QED
    BY <2>1, <2>2, Pow2Monotone
<1>3. Wrap(w, twice) = twice
  <2>1. twice \in Nat /\ twice < pow2[w]
    BY <1>1, <1>2, Pow2
  <2> HIDE DEF twice
  <2> QED
    BY <2>1, WordWrap
<1>4. N2dDumb(w, x) = twice - and[w][twice][q - 1]
  BY <1>1, <1>3, Smeared, Zenon DEF N2dDumb, And
<1>5. twice \in Nat /\ q <= twice /\ twice < 2 * q /\ q \in Nat \ {0}
  BY <1>1
<1> HIDE DEF twice, p
<1>6. and[w][twice][q - 1] = twice % q
  BY <1>1, <1>5, MaskLower
<1>7. twice % q = twice - q
  <2>1. twice % pow2[k] = twice - pow2[k]
    BY <1>1, <1>5, WordWrap DEF Wrap
  <2> QED
    BY <2>1
<1> HIDE DEF q
<1>8. N2dDumb(w, x) = q
  BY <1>4, <1>5, <1>6, <1>7
<1> QED
  BY <1>8 DEF q

LEMMA PowerMultiple ==
  ASSUME NEW i \in Nat, pow2[i] > 8
  PROVE  Multiple(pow2[i], 8) = pow2[i]
<1>1. i > 3
  <2>1. SUFFICES ASSUME i <= 3
                 PROVE  FALSE
    OBVIOUS
  <2>2. pow2[i] <= pow2[3] /\ pow2[i] \in Nat
    BY <2>1, Pow2Monotone, Pow2
  <2> QED
    BY <2>2, SmallPowers
<1> DEFINE j == i - 3
           q == pow2[j]
           n == pow2[i]
<1>2. j \in Nat /\ 3 + j = i
  BY <1>1
<1> HIDE DEF j
<1>3. pow2[3 + j] = pow2[3] * pow2[j] /\ q \in Nat
  BY <1>2, Pow2Plus, Pow2
<1>4. n = 8 * q
  BY <1>2, <1>3, SmallPowers
<1> HIDE DEF q, n
<1>6. Multiple(n, 8) = n
  BY <1>3, <1>4 DEF Multiple
<1> QED
  BY <1>6 DEF n

LEMMA AlignsIs ==
  ASSUME NEW w \in Width, NEW x \in Nat, x \in 1 .. IntLimit(w) - 8
  PROVE  LET a == MemfunAlign(w, 8, x) IN
         /\ IF x > 8 THEN a = Multiple(x, 8)
            ELSE a \in {pow2[i] : i \in 0 .. 3} /\ x <= a /\ a < 2 * x
         /\ a \in Nat \ {0} /\ a < IntLimit(w)
<1> DEFINE a == MemfunAlign(w, 8, x)
           limit == IntLimit(w)
<1>1. limit \in Nat \ {0} /\ limit < pow2[w] /\ x < pow2[w] /\ x + 8 <= limit /\ 8 < pow2[w]
  BY SmallInt, SmallWidth
<1>2. w \in Nat /\ w >= 8 /\ pow2[w] \in Nat
  BY SmallWidth
<1>3. a = IF PopCnt(w, x) = 1 THEN x
          ELSE IF x > 8 THEN RoundByL(w, x, 8) ELSE N2dDumb(w, x)
  BY DEF MemfunAlign
<1> HIDE DEF a
<1>4. Multiple(x, 8) \in Nat /\ x <= Multiple(x, 8) /\ Multiple(x, 8) < x + 8
  BY MultipleIs
<1>5. CASE PopCnt(w, x) = 1
  <2>1. PICK i \in 0 .. w - 1 : x = pow2[i]
    BY <1>1, <1>5, PowerOfTwo
  <2>2. i \in Nat /\ a = x
    BY <1>3, <1>5
  <2>3. CASE x > 8
    <3>1. a = Multiple(x, 8)
      BY <2>1, <2>2, <2>3, PowerMultiple
    <3> QED
      BY <1>1, <2>2, <2>3, <3>1 DEF a
  <2>4. CASE ~(x > 8)
    <3>1. i \in 0 .. 3
      <4>1. SUFFICES ASSUME 4 <= i
                     PROVE  FALSE
        BY <2>2
      <4>2. pow2[4] <= pow2[i]
        BY <2>2, <4>1, Pow2Monotone
      <4> QED
        BY <2>1, <2>4, <4>2, SmallPowers
    <3>2. a \in {pow2[j] : j \in 0 .. 3}
      BY <2>1, <2>2, <3>1
    <3>3. x <= a /\ a < 2 * x /\ a \in Nat \ {0} /\ a < limit
      BY <1>1, <2>2
    <3> QED
      BY <2>4, <3>2, <3>3 DEF a
  <2> QED
    BY <2>3, <2>4
<1>6. CASE PopCnt(w, x) # 1 /\ x > 8
  <2>1. Multiple(x, 8) < limit /\ 8 \in Nat \ {0}
    BY <1>1, <1>4
  <2>2. RoundByL(w, x, 8) = Multiple(x, 8)
    BY <1>1, <2>1, RoundByLIs
  <2>3. a = Multiple(x, 8)
    BY <1>3, <1>6, <2>2
  <2> QED
    BY <1>4, <1>6, <2>1, <2>3 DEF a
<1>7. CASE PopCnt(w, x) # 1 /\ ~(x > 8)
  <2>1. \A i \in 0 .. w - 1 : x # pow2[i]
    BY <1>1, <1>7, PowerOfTwo
  <2>2. x # 1 /\ x # 2 /\ x # 4 /\ x # 8
    <3>1. 0 \in 0 .. w - 1 /\ 1 \in 0 .. w - 1 /\ 2 \in 0 .. w - 1 /\ 3 \in 0 .. w - 1
      BY <1>2
    <3> QED
      BY <2>1, <3>1, SmallPowers
  <2>3. PICK t \in 1 .. 2 : pow2[t] < x /\ x < pow2[t + 1]
    <3>1. CASE x < 4
      <4>1. 1 \in 1 .. 2 /\ 1 + 1 = 2 /\ pow2[1] < x /\ x < pow2[2]
        BY <2>2, <3>1, SmallPowers
      <4> QED
        BY <4>1
    <3>2. CASE ~(x < 4)
      <4>1. 2 \in 1 .. 2 /\ 2 + 1 = 3 /\ pow2[2] < x /\ x < pow2[3]
        BY <1>7, <2>2, <3>2, SmallPowers
      <4> QED
        BY <4>1
    <3> QED
      BY <3>1, <3>2
  <2>4. IsTop(x, t) /\ t + 2 <= w /\ t + 1 \in 0 .. 3 /\ t \in Nat
    BY <1>2, <2>3, Pow2 DEF IsTop
  <2>5. a = pow2[t + 1]
    BY <1>2, <1>3, <1>7, <2>4, N2dDumbIs
  <2>6. pow2[t + 1] = 2 * pow2[t] /\ pow2[t] \in Nat \ {0}
    BY <2>4, Pow2
  <2>7. x <= a /\ a < 2 * x /\ a \in Nat \ {0}
    BY <2>3, <2>5, <2>6
  <2>8. a <= 8
    BY <2>5, SmallPowers
  <2>9. a \in {pow2[i] : i \in 0 .. 3} /\ a < limit
    BY <1>1, <2>4, <2>5, <2>7, <2>8
  <2> QED
    BY <1>7, <2>7, <2>9 DEF a
<1> QED
  BY <1>5, <1>6, <1>7

LEMMA WidthAligns ==
  ASSUME NEW w \in Width, NEW x \in Nat
  PROVE  Aligns(w, x)
<1> SUFFICES ASSUME x \in 1 .. IntLimit(w) - 8
             PROVE  LET a == MemfunAlign(w, 8, x) IN
                    IF x > 8 THEN a = Multiple(x, 8)
                    ELSE a \in {pow2[i] : i \in 0 .. 3} /\ x <= a /\ a < 2 * x
  BY DEF Aligns, IntLimit
<1> QED
  BY AlignsIs

(***************************************************************************)
(* The product of a size and one less than 2^(w - fence) where the size    *)
(* has fence bits.                                                         *)
(***************************************************************************)
LEMMA WidthOffsets ==
  ASSUME NEW w \in Width, NEW x \in Nat
  PROVE  OffsetsFit(w, x)
<1> DEFINE a == MemfunAlign(w, 8, x)
           fence == GetMsb(w, a)
           b == pow2[w - fence] - 1
<1> SUFFICES ASSUME x \in 1 .. IntLimit(w) - 8
             PROVE  UMul(w, a, b) = [ok |-> TRUE, product |-> a * b]
  BY DEF OffsetsFit, IntLimit
<1>1. /\ w \in Nat /\ w > 3 /\ w - 1 \in Nat /\ pow2[w - 1] \in Nat
  BY SmallWidth
<1>2. a \in Nat \ {0} /\ a < pow2[w - 1]
  <2>1. a \in Nat \ {0} /\ a < IntLimit(w)
    BY AlignsIs
  <2> HIDE DEF a
  <2> QED
    BY <1>1, <2>1, SmallInt
<1> HIDE DEF a
<1>3. PICK t \in 0 .. w - 2 : IsTop(a, t)
  <2> DEFINE v == w - 1
  <2>1. v \in Nat /\ a < pow2[v]
    BY <1>1, <1>2
  <2> HIDE DEF v
  <2>2. \E t \in 0 .. v - 1 : IsTop(a, t)
    BY <1>2, <2>1, SomeTop
  <2> QED
    BY <1>1, <2>2 DEF v
<1>4. fence = t + 1
  <2>1. t \in 0 .. w - 1 /\ a > 0 /\ a \in Nat
    BY <1>1, <1>2
  <2>2. Top(w, a) = t
    BY <1>1, <1>3, <2>1, TopIs
  <2>3. FindsTopBit(w, a)
    BY <2>1, WidthTop
  <2> QED
    BY <1>2, <2>1, <2>2, <2>3 DEF FindsTopBit
<1> DEFINE k == t + 1
           m == w - fence
           q == pow2[m]
<1>5. k \in Nat /\ m \in Nat \ {0} /\ k + m = w
  BY <1>1, <1>4
<1>6. pow2[w] = pow2[k] * q /\ q \in Nat /\ q >= 2 /\ pow2[k] \in Nat /\ a < pow2[k]
  <2>1. 1 <= m /\ 1 \in Nat /\ m \in Nat
    BY <1>5
  <2> HIDE DEF k, m
  <2>2. pow2[k + m] = pow2[k] * pow2[m]
    BY <1>5, <2>1, Pow2Plus
  <2>3. pow2[1] <= pow2[m] /\ pow2[m] \in Nat /\ pow2[k] \in Nat
    BY <1>5, <2>1, Pow2, Pow2Monotone
  <2> QED
    BY <1>3, <1>5, <2>2, <2>3, SmallPowers DEF IsTop, k
<1>7. b = q - 1
  OBVIOUS
<1> DEFINE p == pow2[k]
<1> HIDE DEF fence, k, m, q, b, p
<1>8. b \in Nat \ {0} /\ b < q
  BY <1>6, <1>7
<1>9. a * b < p * q
  <2>1. a * b <= a * q /\ a * q <= p * q
    BY <1>2, <1>6, <1>8, Times DEF p
  <2>2. a * q = a * b + a
    BY <1>2, <1>6, <1>7, <1>8
  <2> QED
    BY <1>2, <1>6, <1>8, <2>1, <2>2 DEF p
<1>10. a * b < pow2[w]
  BY <1>6, <1>9 DEF p
<1> QED
  BY <1>1, <1>2, <1>8, <1>10, UMulAccepts, Zenon

(***************************************************************************)
(* memfun_realloc_ex and memfun_calc_growth ask for whole blocks.          *)
(***************************************************************************)
LEMMA BlockAlignIs ==
  ASSUME NEW w \in Width, NEW n \in Nat, Multiple(n, 4) < IntLimit(w)
  PROVE  BlockAlign(w, 4, n) = Multiple(n, 4)
<1> DEFINE four == 4
<1>1. four \in Nat \ {0} /\ four < pow2[w] /\ Multiple(n, four) < IntLimit(w)
  <2>1. w \in Nat /\ 4 \in Nat /\ 4 <= w
    BY SmallWidth
  <2>2. pow2[4] <= pow2[w] /\ pow2[w] \in Nat
    BY <2>1, Pow2, Pow2Monotone
  <2> QED
    BY <2>2, SmallPowers
<1>2. Multiple(0, 4) = 0
  BY DEF Multiple
<1> HIDE DEF four
<1>3. n <= Multiple(n, four) /\ Multiple(n, four) \in Nat
  BY <1>1, MultipleIs
<1>4. n < pow2[w]
  BY <1>1, <1>3, SmallInt, SmallWidth
<1>5. RoundByL(w, n, four) = Multiple(n, four)
  BY <1>1, <1>4, RoundByLIs
<1> QED
  BY <1>2, <1>5 DEF BlockAlign, four

LEMMA BlockMultiple ==
  ASSUME NEW n \in Nat
  PROVE  /\ Multiple(n, 4) \in Nat /\ n <= Multiple(n, 4) /\ Multiple(n, 4) < n + 4
         /\ Multiple(Multiple(n, 4), 4) = Multiple(n, 4)
BY DEF Multiple

LEMMA Reallocates ==
  ASSUME NEW w \in Width, NEW x \in Nat, NEW y \in Nat, y > 0, x < pow2[w], y < pow2[w],
         Multiple(Multiple(x, 4) + y, 4) < IntLimit(w)
  PROVE  ReallocLength(w, 4, x, y) = Multiple(Multiple(x, 4) + y, 4)
<1> DEFINE old == Multiple(x, 4)
           sum == old + y
           new == Multiple(sum, 4)
           u == UAdd(w, old, y)
<1>1. old \in Nat /\ Multiple(old, 4) = old /\ sum \in Nat
  BY BlockMultiple
<1> HIDE DEF old
<1>2. new \in Nat /\ sum <= new /\ new < IntLimit(w)
  BY <1>1, BlockMultiple DEF old
<1>3. sum = old + y
  OBVIOUS
<1> HIDE DEF sum, new
<1>4. /\ IntLimit(w) \in Nat /\ IntLimit(w) < pow2[w] /\ pow2[w] \in Nat /\ w \in Nat
  BY SmallInt, SmallWidth
<1>5. old < IntLimit(w) /\ old < pow2[w] /\ sum < pow2[w]
  BY <1>1, <1>2, <1>3, <1>4
<1>6. BlockAlign(w, 4, x) = old /\ BlockAlign(w, 4, old) = old /\ BlockAlign(w, 4, sum) = new
  BY <1>1, <1>2, <1>5, BlockAlignIs DEF old, new
<1>7. (u.ok <=> old + y < pow2[w]) /\ (u.ok => u.sum = old + y)
  BY <1>1, <1>4, <1>5, UAddAccepts
<1> HIDE DEF u
<1>8. u.ok /\ u.sum = sum
  BY <1>3, <1>5, <1>7
<1>9. WantReallocRaw(w, old, y) = sum
  <2>1. WantReallocRaw(w, old, y) = IF u.ok /\ u.sum > old THEN u.sum ELSE 0
    BY DEF WantReallocRaw, u
  <2>2. sum > old
    BY <1>1, <1>3
  <2> QED
    BY <1>8, <2>1, <2>2
<1>10. ~(y = 0 \/ old > old \/ sum = 0 \/ old >= sum \/ sum > new) /\ new # 0
  BY <1>1, <1>2, <1>3
<1>11. WantRealloc(w, 4, old, y) = new
  BY <1>6, <1>9, <1>10 DEF WantRealloc
<1> QED
  BY <1>6, <1>10, <1>11 DEF ReallocLength, new, sum, old

LEMMA GrowsTo ==
  ASSUME NEW w \in Width, NEW x \in Nat, NEW y \in Nat, x * pow2[y] < IntLimit(w) - 4
  PROVE  CalcGrowth(w, 4, x, y) = IF x = 0 THEN 4 ELSE Multiple(x * pow2[y], 4)
<1> DEFINE p == pow2[y]
           n == x * p
           c == 4 \div p
<1>1. p \in Nat \ {0} /\ n \in Nat /\ n + 4 < IntLimit(w) /\ IntLimit(w) \in Nat
  BY Pow2, SmallInt
<1> HIDE DEF p
<1>2. c \in Nat /\ 4 % p \in 0 .. p - 1 /\ 4 = c * p + (4 % p)
  BY <1>1, Divided
<1>3. CalcGrowth(w, 4, x, y) = IF x > c THEN BlockAlign(w, 4, Wrap(w, n)) ELSE 4
  BY DEF CalcGrowth, p
<1> HIDE DEF c
<1>4. CASE x > c
  <2>0. x # 0
    BY <1>2, <1>4
  <2> HIDE DEF n
  <2>1. n < pow2[w] /\ w \in Nat
    BY <1>1, SmallInt, SmallWidth
  <2>2. Wrap(w, n) = n
    BY <1>1, <2>1, WordWrap
  <2>3. Multiple(n, 4) < IntLimit(w)
    <3>1. Multiple(n, 4) < n + 4 /\ Multiple(n, 4) \in Nat
      BY <1>1, BlockMultiple
    <3> QED
      BY <1>1, <3>1
  <2>4. BlockAlign(w, 4, n) = Multiple(n, 4)
    BY <1>1, <2>3, BlockAlignIs
  <2> QED
    BY <1>3, <1>4, <2>0, <2>2, <2>4 DEF n, p
<1>5. CASE ~(x > c)
  <2>1. n <= 4
    <3>1. x * p <= c * p
      BY <1>1, <1>2, <1>5, Times
    <3> QED
      BY <1>1, <1>2, <3>1
  <2>2. ASSUME x # 0
        PROVE  n >= 1
    <3>1. 1 * p <= x * p
      BY <1>1, <2>2, Times
    <3> QED
      BY <1>1, <3>1
  <2> HIDE DEF n
  <2>3. ASSUME x # 0
        PROVE  Multiple(n, 4) = 4
    <3>1. n \in 1 .. 4
      BY <1>1, <2>1, <2>2, <2>3
    <3> QED
      BY <3>1 DEF Multiple
  <2> QED
    BY <1>3, <1>5, <2>3 DEF n, p
<1> QED
  BY <1>4, <1>5

LEMMA WidthGrows ==
  ASSUME NEW w \in Width, NEW x \in Nat, NEW y \in Nat, x < pow2[w], y < pow2[w]
  PROVE  Grows(w, x, y)
<1>1. y > 0 /\ Multiple(Multiple(x, 4) + y, 4) < IntLimit(w)
        => ReallocLength(w, 4, x, y) = Multiple(Multiple(x, 4) + y, 4)
  BY Reallocates
<1>2. x * pow2[y] < IntLimit(w) - 4
        => CalcGrowth(w, 4, x, y) = IF x = 0 THEN 4 ELSE Multiple(x * pow2[y], 4)
  BY GrowsTo
<1> QED
  BY <1>1, <1>2, Zenon DEF Grows, IntLimit

LEMMA LeastIs ==
  ASSUME NEW a \in Int, NEW b \in Int
  PROVE  LeastPositive(a, b)
<1> DEFINE positive == {n \in {a, b} : n > 0}
<1>1. ASSUME positive = {}
      PROVE  MinPositive(a, b) = 0
  <2>1. ~(a > 0) /\ ~(b > 0)
    BY <1>1
  <2> QED
    BY <2>1 DEF MinPositive, Greater
<1>2. ASSUME positive # {}
      PROVE  MinPositive(a, b) \in positive /\ \A n \in positive : MinPositive(a, b) <= n
  <2>1. a > 0 \/ b > 0
    BY <1>2
  <2> QED
    BY <2>1 DEF MinPositive, Greater
<1> QED
  BY <1>1, <1>2 DEF LeastPositive

(***************************************************************************)
(* On words of every width, the sums, products, roundings, alignments and  *)
(* lengths that the containers take for granted are so, whatever is asked, *)
(* and min_positive gives the least positive value (uadd.h, umul.h,        *)
(* roundby.h, memfun.h, base.hh, minmax.h).                                *)
(***************************************************************************)
THEOREM SizeFunctionsAlways == NumSpec => []SizeFunctions
<1>1. ASSUME Asked
      PROVE  SizeFunctions
  <2>1. ASSUME asked.of = "signed"
        PROVE  LeastPositive(asked.x, asked.y)
    <3>1. asked.x \in Int /\ asked.y \in Int
      BY <1>1, <2>1 DEF Asked, Signed, Unsigned
    <3> QED
      BY <3>1, LeastIs
  <2>2. ASSUME asked.of = "unsigned"
        PROVE  /\ Aligns(asked.w, asked.x) /\ OffsetsFit(asked.w, asked.x)
               /\ SafeArithmetic(asked.w, asked.x, asked.y)
               /\ RoundsUp(asked.w, asked.x, asked.y)
               /\ Grows(asked.w, asked.x, asked.y)
    <3> DEFINE w == asked.w
               x == asked.x
               y == asked.y
    <3>1. w \in Width /\ w \in Nat /\ x \in Nat /\ y \in Nat /\ x < pow2[w] /\ y < pow2[w]
      BY <1>1, <2>2, AskedWords, SmallWidth DEF Word
    <3> HIDE DEF w, x, y
    <3>2. Aligns(w, x) /\ OffsetsFit(w, x)
      BY <3>1, WidthAligns, WidthOffsets
    <3>3. SafeArithmetic(w, x, y) /\ RoundsUp(w, x, y) /\ Grows(w, x, y)
      BY <3>1, Safe, Rounds, WidthGrows
    <3> QED
      BY <3>2, <3>3 DEF w, x, y
  <2> QED
    BY <2>1, <2>2 DEF SizeFunctions
<1>2. Asked /\ [Asked']_asked => Asked'
  BY DEF Asked, Signed, Unsigned, Word
<1> QED
  BY <1>1, <1>2, PTL DEF NumSpec
=============================================================================
