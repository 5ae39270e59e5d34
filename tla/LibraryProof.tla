---------------------------- MODULE LibraryProof ----------------------------
(***************************************************************************)
(* What the headers under include/rockdrilla keep within: the containers   *)
(* of module Vectors keep to themselves and to the promise of module       *)
(* Boxes, for any number of them, any sizes of items, blocks and indices,  *)
(* and any client; the messages of module LogStderr fit into their arrays. *)
(***************************************************************************)
EXTENDS Vectors, LogStderr, TLAPS

(***************************************************************************)
(* Arithmetic of sizes.                                                    *)
(***************************************************************************)
LEMMA Product ==
  ASSUME NEW m \in Nat, NEW n \in Nat, NEW k \in Nat, m <= n
  PROVE  m * k \in Nat /\ m * k <= n * k
OBVIOUS

LEMMA Quotient ==
  ASSUME NEW n \in Nat, NEW k \in Nat \ {0}
  PROVE  /\ n \div k \in Nat
         /\ (n \div k) * k <= n /\ n < (n \div k) * k + k
OBVIOUS

LEMMA QuotientAbove ==
  ASSUME NEW n \in Nat, NEW k \in Nat \ {0}, NEW m \in Nat, m * k <= n
  PROVE  m <= n \div k
<1> DEFINE q == n \div k
<1>1. q \in Nat /\ n < q * k + k
  BY Quotient
<1>2. CASE q < m
  <2>1. (q + 1) * k <= m * k
    BY <1>1, <1>2, Product
  <2> QED
    BY <2>1, <1>1, <1>2
<1> QED
  BY <1>1, <1>2

LEMMA RoundUpBounds ==
  ASSUME NEW n \in Nat, NEW k \in Nat \ {0}
  PROVE  RoundUp(n, k) \in Nat /\ n <= RoundUp(n, k)
<1> DEFINE q == (n + k - 1) \div k
<1>1. q \in Nat /\ n + k - 1 < q * k + k
  BY Quotient, n + k - 1 \in Nat
<1>2. q * k \in Nat
  BY <1>1, Product
<1> QED
  BY <1>1, <1>2 DEF RoundUp

(***************************************************************************)
(* The invariant: next to TypeOK and Sound, where the blocks may be, and   *)
(* that both containers of a range append are usable.                      *)
(***************************************************************************)
Homes ==
  /\ \A d \in Dyn : box[d].ptr \in Addr \cup {null}
  /\ \A p \in Inp :
       /\ box[p].ptr = p /\ box[p].allocated = Capacity[p]
       /\ p \in DOMAIN heap /\ heap[p].size = Capacity[p] * ITEM

JobUsable == job.at # "idle" => {job.to, job.from} \subseteq Usable

VecInv == TypeOK /\ Sound /\ Homes /\ JobUsable

LEMMA CapacityBound ==
  ASSUME NEW v \in Box
  PROVE  /\ Capacity[v] \in Nat /\ Capacity[v] <= IdxMax
         /\ v \in Dyn => Capacity[v] = IdxMax
BY VectorAssumption DEF Capacity, Lesser, Box

HeapOK(h) == DOMAIN h \subseteq Places /\ \A a \in DOMAIN h : h[a] \in Block

(***************************************************************************)
(* What _grow_by_bytes makes of a container that owns its block, with any  *)
(* answer of realloc(3).                                                   *)
(***************************************************************************)
GrowsWell(c, h, r, bytes, a, g) ==
  /\ g.ok \in BOOLEAN /\ g.c \in Containers /\ HeapOK(g.heap)
  /\ g.c.used = c.used /\ g.c.ptr \in Addr \cup {null}
  /\ Owns(g.c, IdxMax, g.heap, r \/ a = null)
  /\ \A b \in DOMAIN h \ {c.ptr} : b \in DOMAIN g.heap /\ g.heap[b] = h[b]
  /\ g.c.ptr = c.ptr \/ g.c.ptr \notin DOMAIN h
  /\ \A b \in DOMAIN h \cap DOMAIN g.heap : g.heap[b].items = h[b].items
  /\ c.ptr # null => g.heap[g.c.ptr].items = h[c.ptr].items
  /\ g.ok => g.c.ptr # null
  /\ g.ok /\ c.ptr = null => a # null
  /\ a # null => /\ g.c.allocated * ITEM <= g.heap[g.c.ptr].size
                 /\ \A n \in Indices : n * ITEM <= bytes => n <= g.c.allocated
  /\ ~g.ok => g.c = c /\ g.heap = h /\ c.ptr = null
  /\ g.ok /\ bytes >= ITEM /\ c.allocated < IdxMax => c.allocated < g.c.allocated

LEMMA GrownLength ==
  ASSUME NEW allocated \in Nat, NEW bytes \in Nat
  PROVE  LET new == RoundUp(RoundUp(allocated * ITEM, BLOCK) + bytes, BLOCK) IN
         /\ new \in Nat
         /\ allocated * ITEM <= new
         /\ allocated <= new \div ITEM
         /\ bytes >= ITEM => allocated < new \div ITEM
         /\ new \div ITEM \in Nat
         /\ Lesser(new \div ITEM, IdxMax) \in 0 .. IdxMax
         /\ Lesser(new \div ITEM, IdxMax) * ITEM <= new
         /\ \A n \in Indices : n * ITEM <= bytes => n <= Lesser(new \div ITEM, IdxMax)
<1> DEFINE old == RoundUp(allocated * ITEM, BLOCK)
           new == RoundUp(old + bytes, BLOCK)
           q == new \div ITEM
           l == Lesser(q, IdxMax)
<1>1. ITEM \in Nat \ {0} /\ BLOCK \in Nat \ {0} /\ IdxMax \in Nat
  BY VectorAssumption
<1>2. allocated * ITEM \in Nat
  BY <1>1, Product
<1>3. old \in Nat /\ allocated * ITEM <= old
  BY <1>1, <1>2, RoundUpBounds
<1>4. new \in Nat /\ old + bytes <= new
  BY <1>1, <1>3, RoundUpBounds
<1> HIDE DEF old, new
<1>5. q \in Nat /\ q * ITEM <= new
  BY <1>1, <1>4, Quotient
<1>6. allocated <= q
  BY <1>1, <1>3, <1>4, QuotientAbove
<1>7. bytes >= ITEM => allocated < q
  <2> SUFFICES ASSUME bytes >= ITEM PROVE allocated < q
    OBVIOUS
  <2>1. (allocated + 1) * ITEM <= new
    BY <1>1, <1>2, <1>3, <1>4
  <2>2. allocated + 1 <= q
    BY <1>1, <1>4, <2>1, QuotientAbove, allocated + 1 \in Nat
  <2> QED
    BY <2>2, <1>5
<1>12. ASSUME NEW n \in Indices, n * ITEM <= bytes PROVE n <= q /\ n <= IdxMax
  <2>1. n \in Nat /\ n * ITEM \in Nat /\ n <= IdxMax
    BY <1>1, Product DEF Indices
  <2> QED
    BY <2>1, <1>1, <1>2, <1>3, <1>4, <1>12, QuotientAbove
<1> HIDE DEF q
<1>8. l \in 0 .. IdxMax /\ l <= q
  BY <1>1, <1>5 DEF Lesser
<1>13. \A n \in Indices : n * ITEM <= bytes => n <= l
  BY <1>12 DEF Lesser
<1> HIDE DEF l
<1>9. l * ITEM <= q * ITEM
  BY <1>1, <1>5, <1>8, Product
<1>10. l * ITEM \in Nat /\ q * ITEM \in Nat
  BY <1>1, <1>5, <1>8, Product
<1>11. l * ITEM <= new
  BY <1>4, <1>5, <1>9, <1>10
<1> QED
  BY <1>3, <1>4, <1>2, <1>5, <1>6, <1>7, <1>8, <1>11, <1>13 DEF old, new, q, l

LEMMA GrownWell ==
  ASSUME NEW c \in Containers, NEW h, HeapOK(h), NEW r \in BOOLEAN,
         NEW bytes \in Nat, NEW a \in Answers(c, h),
         Owns(c, IdxMax, h, r), c.ptr \in Addr \cup {null}
  PROVE  GrowsWell(c, h, r, bytes, a, Grown(c, h, bytes, a))
<1> DEFINE new == RoundUp(RoundUp(c.allocated * ITEM, BLOCK) + bytes, BLOCK)
           allocated == Lesser(new \div ITEM, IdxMax)
           block == [size |-> new,
                     items |-> IF c.ptr = null THEN <<>> ELSE h[c.ptr].items]
           g == Grown(c, h, bytes, a)
<1>1. /\ ITEM \in Nat \ {0} /\ BLOCK \in Nat \ {0} /\ IdxMax \in Nat
      /\ IdxInv \in Nat /\ null \notin Addr
  BY VectorAssumption
<1>2. /\ c.used \in Nat /\ c.allocated \in Nat
      /\ c.used <= c.allocated /\ c.allocated <= IdxMax
  BY <1>1 DEF Containers, Owns, Indices
<1>3. /\ new \in Nat /\ c.allocated * ITEM <= new /\ new \div ITEM \in Nat
      /\ c.allocated <= new \div ITEM
      /\ bytes >= ITEM => c.allocated < new \div ITEM
      /\ allocated \in 0 .. IdxMax /\ allocated * ITEM <= new
      /\ \A n \in Indices : n * ITEM <= bytes => n <= allocated
  BY <1>2, GrownLength
<1> HIDE DEF new
<1>4. c.used <= allocated /\ (bytes >= ITEM /\ c.allocated < IdxMax => c.allocated < allocated)
  BY <1>1, <1>2, <1>3 DEF Lesser
<1>5. c.used * ITEM <= new
  BY <1>1, <1>2, <1>3, Product
<1> HIDE DEF allocated
<1>6. /\ a = null \/ (a \in Addr /\ (a \notin DOMAIN h \/ a = c.ptr))
      /\ a # null => a \in Addr
  BY <1>1 DEF Answers
<1>7. CASE a = null /\ c.ptr = null
  <2>1. g = [ok |-> FALSE, c |-> c, heap |-> h]
    BY <1>7 DEF Grown
  <2> HIDE DEF g
  <2> QED
    BY <2>1, <1>7 DEF GrowsWell, Owns, g
<1>8. CASE a = null /\ c.ptr # null
  <2>1. g = [ok |-> TRUE, c |-> [c EXCEPT !.allocated = allocated], heap |-> h]
    BY <1>8 DEF Grown, allocated, new
  <2> HIDE DEF g
  <2>2. /\ g.c \in Containers /\ g.c.used = c.used /\ g.c.ptr = c.ptr
        /\ g.c.allocated = allocated /\ g.heap = h /\ g.ok
    BY <2>1, <1>3 DEF Containers, Indices
  <2> QED
    BY <2>2, <1>8, <1>3, <1>4 DEF GrowsWell, Owns, g
<1>9. CASE a # null
  <2>1. g = [ok |-> TRUE, c |-> [c EXCEPT !.allocated = allocated, !.ptr = a],
             heap |-> With(Without(h, c.ptr), a, block)]
    BY <1>9 DEF Grown, allocated, new
  <2> HIDE DEF g
  <2>2. /\ g.c \in Containers /\ g.c.used = c.used /\ g.c.ptr = a
        /\ g.c.allocated = allocated /\ g.ok
    BY <2>1, <1>3, <1>6, <1>9 DEF Containers, Indices, Places
  <2>3. c.ptr # null => c.ptr \in DOMAIN h /\ h[c.ptr] \in Block
    BY DEF Owns, HeapOK
  <2>4. block \in Block /\ Len(block.items) = c.used
    <3>1. CASE c.ptr = null
      <4>1. c.used = 0
        BY <3>1, <1>2 DEF Owns
      <4> QED
        BY <4>1, <3>1, <1>3 DEF Block
    <3>2. CASE c.ptr # null
      BY <3>2, <2>3, <1>3 DEF Block, Owns
    <3> QED
      BY <3>1, <3>2
  <2>5. /\ block.size = new
        /\ c.ptr # null => block.items = h[c.ptr].items
    OBVIOUS
  <2> HIDE DEF block
  <2>6. /\ DOMAIN g.heap = (DOMAIN h \ {c.ptr}) \cup {a}
        /\ g.heap[a] = block
        /\ \A b \in DOMAIN h \ {c.ptr} : b # a /\ g.heap[b] = h[b]
    BY <2>1, <1>6, <1>9 DEF With, Without
  <2>7. HeapOK(g.heap)
    BY <2>6, <2>4, <1>6, <1>9 DEF HeapOK, Places
  <2>8. Owns(g.c, IdxMax, g.heap, r \/ a = null)
    BY <2>2, <2>4, <2>5, <2>6, <1>3, <1>4, <1>5, <1>9 DEF Owns
  <2>9. \A b \in DOMAIN h \cap DOMAIN g.heap : g.heap[b].items = h[b].items
    BY <2>5, <2>6, <2>3, <1>6, <1>9
  <2> QED
    BY <2>2, <2>5, <2>6, <2>7, <2>8, <2>9, <1>3, <1>4, <1>6, <1>9 DEF GrowsWell, g
<1> QED
  BY <1>7, <1>8, <1>9

(***************************************************************************)
(* A step that changes one container, and no block but its own.            *)
(***************************************************************************)
StaysHome(v, c, h) ==
  /\ c \in Containers /\ HeapOK(h)
  /\ v \in Dyn => c.ptr \in Addr \cup {null}
  /\ v \in Inp => /\ c.ptr = v /\ c.allocated = Capacity[v]
                  /\ v \in DOMAIN h /\ h[v].size = Capacity[v] * ITEM
  /\ \A b \in DOMAIN heap \ {box[v].ptr} : b \in DOMAIN h /\ h[b] = heap[b]
  /\ c.ptr = box[v].ptr \/ c.ptr \notin DOMAIN heap

LEMMA OneChanges ==
  ASSUME VecInv, fault = "none", NEW v \in Usable, NEW c, NEW h, NEW r \in BOOLEAN,
         StaysHome(v, c, h), refused => r,
         fault' \in Faults, fault' = "none" => Owns(c, Capacity[v], h, r),
         box' = [box EXCEPT ![v] = c], heap' = h, refused' = r, moved' = moved,
         job' \in {Idle} \cup Jobs
  PROVE  TypeOK' /\ Sound' /\ Homes'
<1> USE DEF VecInv
<1>1. /\ v \in Box /\ Usable' = Usable /\ Usable \subseteq Box
      /\ Dyn \subseteq Box /\ Inp \subseteq Usable /\ null \notin Addr \cup Inp
      /\ Dyn \cap Inp = {} /\ Addr \cap Inp = {}
  BY VectorAssumption DEF Usable, Box, TypeOK
<1>2. box' \in [Box -> Containers] /\ box'[v] = c /\ \A u \in Box \ {v} : box'[u] = box[u]
  BY <1>1 DEF TypeOK, StaysHome
<1>3. TypeOK'
  BY <1>2 DEF TypeOK, StaysHome, HeapOK
<1>4. /\ Apart /\ \A u \in Usable : Owns(box[u], Capacity[u], heap, refused)
  BY DEF Sound
<1>5. \A u \in Usable \ {v} : box[u].ptr # null =>
        /\ box[u].ptr # box[v].ptr /\ box[u].ptr \in DOMAIN heap
        /\ box[u].ptr \in DOMAIN h /\ h[box[u].ptr] = heap[box[u].ptr]
        /\ box[u].ptr # c.ptr
  BY <1>1, <1>4 DEF Apart, Owns, StaysHome
<1>6. Apart'
  BY <1>1, <1>2, <1>4, <1>5 DEF Apart
<1>7. fault' = "none" => \A u \in Usable : Owns(box'[u], Capacity[u], heap', refused')
  <2> SUFFICES ASSUME fault' = "none", NEW u \in Usable
               PROVE  Owns(box'[u], Capacity[u], h, r)
    OBVIOUS
  <2>1. CASE u = v
    BY <2>1, <1>2
  <2>2. CASE u # v
    <3>1. box'[u] = box[u] /\ Owns(box[u], Capacity[u], heap, refused)
      BY <2>2, <1>1, <1>2, <1>4
    <3> QED
      BY <3>1, <2>2, <1>5 DEF Owns
  <2> QED
    BY <2>1, <2>2
<1>8. Sound'
  BY <1>1, <1>6, <1>7 DEF Sound
<1>9. Homes'
  <2>1. ASSUME NEW d \in Dyn PROVE box'[d].ptr \in Addr \cup {null}
    BY <1>1, <1>2 DEF Homes, StaysHome
  <2>2. ASSUME NEW p \in Inp
        PROVE  /\ box'[p].ptr = p /\ box'[p].allocated = Capacity[p]
               /\ p \in DOMAIN h /\ h[p].size = Capacity[p] * ITEM
    <3>1. CASE p = v
      BY <3>1, <1>2 DEF StaysHome
    <3>2. CASE p # v
      <4>1. box[p].ptr = p /\ p # null /\ p \in Usable /\ p \in Box
        BY <1>1 DEF Homes
      <4> QED
        BY <4>1, <3>2, <1>2, <1>5 DEF Homes
    <3> QED
      BY <3>1, <3>2
  <2> QED
    BY <2>1, <2>2 DEF Homes
<1> QED
  BY <1>3, <1>8, <1>9

LEMMA ContentsAre ==
  ASSUME VecInv, fault = "none", NEW u \in Usable
  PROVE  /\ Contents(u) \in Seq(Item) /\ Len(Contents(u)) = box[u].used
         /\ box[u].used \in Nat
         /\ box[u].ptr # null => Contents(u) = heap[box[u].ptr].items
         /\ box[u].ptr = null => Contents(u) = <<>>
<1>1. /\ u \in Box /\ box[u] \in Containers /\ HeapOK(heap)
      /\ Owns(box[u], Capacity[u], heap, refused)
  BY DEF Usable, VecInv, TypeOK, Sound, HeapOK
<1>2. box[u].used \in Nat /\ box[u].allocated \in Nat
  BY <1>1, VectorAssumption DEF Containers, Indices
<1>3. CASE box[u].ptr = null
  <2>1. box[u].used = 0
    BY <1>1, <1>2, <1>3 DEF Owns
  <2> QED
    BY <2>1, <1>3 DEF Contents
<1>4. CASE box[u].ptr # null
  <2> DEFINE items == heap[box[u].ptr].items
  <2>1. items \in Seq(Item) /\ Len(items) = box[u].used
    BY <1>1, <1>4 DEF Owns, HeapOK, Block
  <2>2. box[u].used = 0 => items = <<>>
    BY <2>1
  <2>3. Contents(u) = items
    BY <2>2 DEF Contents
  <2> HIDE DEF items
  <2>4. Contents(u) \in Seq(Item) /\ Len(Contents(u)) = box[u].used
    BY <2>1, <2>3
  <2> QED
    BY <2>3, <2>4, <1>2, <1>4 DEF items
<1> QED
  BY <1>3, <1>4

(***************************************************************************)
(* append() of a value or of an item of a usable container.                *)
(***************************************************************************)
Readable(source) ==
  \/ \E x \in Item : source = AsValue(x)
  \/ \E b \in DOMAIN heap, i \in Nat :
       i < Len(heap[b].items) /\ source = AsPlace(b, i)

ItemOf(source) == IF source.at = null THEN source.value
                  ELSE heap[source.at].items[source.i + 1]

LEMMA RoomForOne ==
  ASSUME VecInv, fault = "none", NEW v \in Usable, NEW a \in AppendAnswers(v),
         NEW g,
         g = IF MustGrow(v) THEN Grown(box[v], heap, GROWTH, a)
             ELSE [ok |-> HasRoom(v), c |-> box[v], heap |-> heap]
  PROVE  /\ StaysHome(v, g.c, g.heap) /\ g.ok \in BOOLEAN
         /\ Owns(g.c, Capacity[v], g.heap, refused \/ a = null)
         /\ g.c.used = box[v].used
         /\ g.ok => g.c.ptr # null /\ g.c.used < g.c.allocated
         /\ \A b \in DOMAIN heap \cap DOMAIN g.heap : g.heap[b].items = heap[b].items
         /\ box[v].ptr # null => g.heap[g.c.ptr].items = heap[box[v].ptr].items
<1> USE DEF VecInv
<1>1. /\ v \in Box /\ box[v] \in Containers /\ HeapOK(heap)
      /\ Owns(box[v], Capacity[v], heap, refused) /\ refused \in BOOLEAN
      /\ box[v].used \in Nat /\ box[v].allocated \in Nat
  BY VectorAssumption DEF Usable, TypeOK, Sound, HeapOK, Containers, Indices
<1>2. v \in Dyn => Capacity[v] = IdxMax /\ box[v].ptr \in Addr \cup {null}
  BY <1>1, CapacityBound DEF Homes
<1>3. v \in Inp => /\ box[v].ptr = v /\ box[v].allocated = Capacity[v]
                  /\ v \in DOMAIN heap /\ heap[v].size = Capacity[v] * ITEM
  BY DEF Homes
<1>4. CASE MustGrow(v)
  <2>1. /\ v \in Dyn /\ v \notin Inp /\ a \in Answers(box[v], heap)
        /\ box[v].allocated < IdxMax /\ ~(box[v].used < box[v].allocated)
    BY <1>4, VectorAssumption DEF MustGrow, MayGrowBytes, AppendAnswers, HasRoom
  <2>2. GROWTH \in Nat /\ GROWTH >= ITEM /\ IdxMax \in Nat
    BY VectorAssumption
  <2>3. g = Grown(box[v], heap, GROWTH, a)
    BY <1>4
  <2>4. GrowsWell(box[v], heap, refused, GROWTH, a, g)
    BY <1>1, <1>2, <2>1, <2>2, <2>3, GrownWell
  <2>5. box[v].used <= box[v].allocated
    BY <1>1 DEF Owns
  <2>6. g.ok => g.c.used < g.c.allocated
    BY <2>1, <2>2, <2>4, <2>5, <1>1 DEF GrowsWell, Containers, Indices
  <2> QED
    BY <2>1, <2>4, <2>6, <1>2 DEF GrowsWell, StaysHome
<1>5. CASE ~MustGrow(v)
  <2>1. g = [ok |-> HasRoom(v), c |-> box[v], heap |-> heap]
    BY <1>5
  <2>2. StaysHome(v, box[v], heap)
    BY <1>1, <1>2, <1>3 DEF StaysHome
  <2>3. HasRoom(v) => box[v].ptr # null /\ box[v].used < box[v].allocated
    BY <1>1 DEF HasRoom, Owns
  <2>4. Owns(box[v], Capacity[v], heap, refused \/ a = null)
    BY <1>1 DEF Owns
  <2>5. g.c = box[v] /\ g.heap = heap /\ g.ok = HasRoom(v)
    BY <2>1
  <2>6. HasRoom(v) \in BOOLEAN
    BY DEF HasRoom
  <2> QED
    BY <2>2, <2>3, <2>4, <2>5, <2>6
<1> QED
  BY <1>4, <1>5

LEMMA AppendsWell ==
  ASSUME VecInv, fault = "none", NEW v \in Usable, NEW source, Readable(source),
         NEW a \in AppendAnswers(v)
  PROVE  LET r == Appended(v, source, a) IN
         /\ StaysHome(v, r.c, r.heap)
         /\ r.fault \in Faults /\ r.index \in Counts
         /\ r.fault = "none" => Owns(r.c, Capacity[v], r.heap, refused \/ a = null)
         /\ r.fault = "none" =>
              \/ /\ r.index = IdxInv /\ r.c.used = box[v].used
                 /\ r.c.ptr # null => r.heap[r.c.ptr].items = Contents(v)
              \/ /\ r.index = box[v].used /\ r.index < Capacity[v]
                 /\ r.c.used = box[v].used + 1 /\ ItemOf(source) \in Item
                 /\ r.heap[r.c.ptr].items = Append(Contents(v), ItemOf(source))
         /\ r.fault = "outside" => refused \/ a = null
<1> DEFINE g == IF MustGrow(v) THEN Grown(box[v], heap, GROWTH, a)
                ELSE [ok |-> HasRoom(v), c |-> box[v], heap |-> heap]
           stale == source.at \notin DOMAIN g.heap \cup {null}
           outside == (g.c.used + 1) * ITEM > g.heap[g.c.ptr].size
           item == IF source.at = null THEN source.value
                   ELSE g.heap[source.at].items[source.i + 1]
           r == Appended(v, source, a)
<1>7. g = IF MustGrow(v) THEN Grown(box[v], heap, GROWTH, a)
          ELSE [ok |-> HasRoom(v), c |-> box[v], heap |-> heap]
  OBVIOUS
<1> HIDE DEF g
<1>1. /\ StaysHome(v, g.c, g.heap) /\ g.ok \in BOOLEAN
      /\ Owns(g.c, Capacity[v], g.heap, refused \/ a = null)
      /\ g.c.used = box[v].used
      /\ g.ok => g.c.ptr # null /\ g.c.used < g.c.allocated
      /\ \A b \in DOMAIN heap \cap DOMAIN g.heap : g.heap[b].items = heap[b].items
      /\ box[v].ptr # null => g.heap[g.c.ptr].items = heap[box[v].ptr].items
  BY <1>7, RoomForOne
<1> USE DEF VecInv
<1>2. /\ g.c \in Containers /\ g.c.used \in Indices /\ g.c.allocated \in Indices
      /\ IdxInv \in Nat /\ IdxMax \in Nat /\ IdxMax <= IdxInv
      /\ v \in Box /\ Capacity[v] \in Nat /\ ITEM \in Nat
      /\ null \notin Addr \cup Inp
  BY <1>1, CapacityBound, VectorAssumption DEF StaysHome, Containers, Usable
<1>6. g.c.ptr # null => g.heap[g.c.ptr].items = Contents(v)
  <2>1. CASE box[v].ptr = null /\ g.c.ptr # null
    <3>1. Contents(v) = <<>> /\ box[v].used = 0
      BY <2>1, ContentsAre
    <3>2. /\ g.c.ptr \in DOMAIN g.heap /\ g.heap[g.c.ptr] \in Block
          /\ Len(g.heap[g.c.ptr].items) = 0
      BY <1>1, <2>1, <3>1 DEF Owns, StaysHome, HeapOK
    <3> QED
      BY <3>1, <3>2 DEF Block
  <2>2. CASE box[v].ptr # null
    BY <2>2, <1>1, ContentsAre
  <2> QED
    BY <2>1, <2>2
<1>3. CASE ~g.ok
  <2>1. r = [index |-> IdxInv, fault |-> "none", c |-> g.c, heap |-> g.heap]
    BY <1>3 DEF Appended, g
  <2> HIDE DEF r
  <2>2. r.index = IdxInv /\ r.fault = "none" /\ r.c = g.c /\ r.heap = g.heap
    BY <2>1
  <2> QED
    BY <2>2, <1>1, <1>2, <1>6 DEF Faults, Counts, r
<1>4. CASE g.ok /\ (stale \/ outside)
  <2>1. r = [index |-> g.c.used, fault |-> IF stale THEN "stale" ELSE "outside",
             c |-> g.c, heap |-> g.heap]
    BY <1>4 DEF Appended, g
  <2> HIDE DEF r
  <2>2. /\ r.index = g.c.used /\ r.fault \in {"stale", "outside"}
        /\ r.fault = "outside" => outside
        /\ r.c = g.c /\ r.heap = g.heap
    BY <2>1, <1>4
  <2>3. outside => refused \/ a = null
    <3>1. g.c.ptr \in DOMAIN g.heap /\ g.heap[g.c.ptr].size \in Nat
      BY <1>1, <1>4 DEF Owns, StaysHome, HeapOK, Block
    <3>2. /\ g.c.used + 1 <= g.c.allocated /\ g.c.used + 1 \in Nat
          /\ g.c.allocated \in Nat
      BY <1>1, <1>2, <1>4 DEF Indices
    <3>3. (g.c.used + 1) * ITEM <= g.c.allocated * ITEM
      BY <3>2, <1>2, Product
    <3>4. (g.c.used + 1) * ITEM \in Nat /\ g.c.allocated * ITEM \in Nat
      BY <3>2, <1>2
    <3>5. ~(refused \/ a = null) => g.c.allocated * ITEM <= g.heap[g.c.ptr].size
      BY <1>1, <1>4 DEF Owns
    <3> QED
      BY <3>1, <3>3, <3>4, <3>5
  <2> HIDE DEF outside
  <2> QED
    BY <2>2, <2>3, <1>1, <1>2, SMTT(30) DEF Faults, Counts, Indices, r
<1>5. CASE g.ok /\ ~stale /\ ~outside
  <2> DEFINE used == g.c.used
             ptr == g.c.ptr
             h == [g.heap EXCEPT ![ptr].items = Append(@, item)]
             c == [g.c EXCEPT !.used = @ + 1]
  <2>1. r = [index |-> g.c.used, fault |-> "none", c |-> c, heap |-> h]
    BY <1>5 DEF Appended, g
  <2>2. item \in Item /\ item = ItemOf(source)
    <3>1. CASE \E x \in Item : source = AsValue(x)
      BY <3>1 DEF AsValue, ItemOf
    <3>2. CASE \E b \in DOMAIN heap, i \in Nat :
                 i < Len(heap[b].items) /\ source = AsPlace(b, i)
      <4>1. PICK b \in DOMAIN heap, i \in Nat :
                   i < Len(heap[b].items) /\ source = AsPlace(b, i)
        BY <3>2
      <4>2. source.at = b /\ source.i = i /\ b # null
        BY <4>1, <1>2 DEF AsPlace, TypeOK, Places
      <4>3. b \in DOMAIN g.heap /\ g.heap[b].items = heap[b].items
        BY <4>2, <1>1, <1>5
      <4>4. heap[b].items \in Seq(Item) /\ i + 1 \in 1 .. Len(heap[b].items)
        BY <4>1 DEF TypeOK, Block
      <4> QED
        BY <4>2, <4>3, <4>4 DEF ItemOf
    <3> QED
      BY <3>1, <3>2 DEF Readable
  <2> HIDE DEF item
  <2>3. /\ ptr # null /\ ptr \in DOMAIN g.heap /\ g.heap[ptr] \in Block
        /\ Len(g.heap[ptr].items) = used /\ used + 1 \in Indices
        /\ used + 1 <= g.c.allocated /\ (used + 1) * ITEM <= g.heap[ptr].size
    <3>1. ptr # null /\ ptr \in DOMAIN g.heap /\ used + 1 <= g.c.allocated
      BY <1>1, <1>2, <1>5 DEF Owns, Indices
    <3>2. g.heap[ptr] \in Block /\ Len(g.heap[ptr].items) = used
      BY <3>1, <1>1 DEF StaysHome, HeapOK, Owns
    <3>3. used + 1 \in Indices
      BY <3>1, <1>2 DEF Indices
    <3>4. (used + 1) * ITEM \in Nat /\ g.heap[ptr].size \in Nat
      BY <1>2, <3>2, <3>3 DEF Indices, Block
    <3> QED
      BY <3>1, <3>2, <3>3, <3>4, <1>5
  <2>4. /\ DOMAIN h = DOMAIN g.heap
        /\ h[ptr].size = g.heap[ptr].size
        /\ h[ptr].items = Append(g.heap[ptr].items, item)
        /\ \A b \in DOMAIN g.heap \ {ptr} : h[b] = g.heap[b]
    BY <2>3 DEF Block
  <2>5. h[ptr] \in Block /\ Len(h[ptr].items) = used + 1
    <3> DEFINE items == Append(g.heap[ptr].items, item)
    <3>1. h[ptr] = [g.heap[ptr] EXCEPT !.items = items]
      BY <2>3
    <3>2. items \in Seq(Item) /\ Len(items) = used + 1
      BY <2>2, <2>3 DEF Block
    <3> HIDE DEF items, h
    <3> QED
      BY <2>3, <3>1, <3>2 DEF Block
  <2>6. /\ c \in Containers /\ c.used = used + 1
        /\ c.ptr = ptr /\ c.allocated = g.c.allocated
    BY <1>2, <2>3, SMTT(30) DEF Containers
  <2>7. HeapOK(h)
    BY <1>1, <2>4, <2>5 DEF HeapOK, StaysHome
  <2> HIDE DEF h, c
  <2>8. StaysHome(v, c, h)
    BY <1>1, <2>3, <2>4, <2>6, <2>7 DEF StaysHome
  <2>9. Owns(c, Capacity[v], h, refused \/ a = null)
    BY <1>1, <2>3, <2>4, <2>5, <2>6 DEF Owns
  <2> HIDE DEF r
  <2>10. r.index = used /\ r.fault = "none" /\ r.c = c /\ r.heap = h
    BY <2>1
  <2>11. /\ c.used = box[v].used + 1 /\ h[c.ptr].items = Append(Contents(v), ItemOf(source))
         /\ used = box[v].used
    BY <2>2, <2>3, <2>4, <2>6, <1>1, <1>6
  <2>12. used < Capacity[v]
    BY <2>3, <1>1, <1>2 DEF Owns, Indices
  <2> QED
    BY <2>2, <2>8, <2>9, <2>10, <2>11, <2>12, <1>2, SMTT(30) DEF Faults, Counts, Indices, r
<1> QED
  BY <1>3, <1>4, <1>5

LEMMA Pushes ==
  ASSUME VecInv, fault = "none", NEW v \in Usable, NEW source, Readable(source),
         NEW a \in AppendAnswers(v), Push(v, source, a), moved' = moved,
         job' \in {Idle} \cup Jobs
  PROVE  TypeOK' /\ Sound' /\ Homes'
<1> DEFINE r == Appended(v, source, a)
<1>1. /\ StaysHome(v, r.c, r.heap) /\ r.fault \in Faults
      /\ r.fault = "none" => Owns(r.c, Capacity[v], r.heap, refused \/ a = null)
  BY AppendsWell
<1>2. /\ box' = [box EXCEPT ![v] = r.c] /\ heap' = r.heap /\ fault' = r.fault
      /\ refused' = (refused \/ a = null)
  BY DEF Push
<1> HIDE DEF r
<1>3. (refused \/ a = null) \in BOOLEAN
  BY DEF VecInv, TypeOK
<1> QED
  BY <1>1, <1>2, <1>3, OneChanges

LEMMA ItemReadable ==
  ASSUME VecInv, fault = "none", NEW u \in Usable, NEW i \in Nat, i < box[u].used
  PROVE  Readable(AsPlace(box[u].ptr, i))
<1>1. u \in Box /\ box[u] \in Containers /\ Owns(box[u], Capacity[u], heap, refused)
  BY DEF VecInv, Usable, TypeOK, Sound
<1>2. box[u].used \in Nat /\ box[u].allocated \in Nat
  BY <1>1, VectorAssumption DEF Containers, Indices
<1>3. box[u].ptr \in DOMAIN heap /\ Len(heap[box[u].ptr].items) = box[u].used
  BY <1>1, <1>2 DEF Owns
<1> QED
  BY <1>3 DEF Readable

LEMMA AppendKeeps ==
  ASSUME VecInv, NEW v \in Box, NEW u \in Box, AppendValue(v) \/ AppendItem(v, u)
  PROVE  VecInv'
<1>1. fault = "none" /\ v \in Usable /\ moved' = moved /\ job' = job
  BY DEF AppendValue, AppendItem, Ready
<1>2. JobUsable' /\ job' \in {Idle} \cup Jobs
  BY <1>1 DEF VecInv, JobUsable, Usable, TypeOK
<1>3. CASE AppendValue(v)
  <2>1. PICK x \in Item, a \in AppendAnswers(v) : Push(v, AsValue(x), a)
    BY <1>3 DEF AppendValue
  <2>2. Readable(AsValue(x))
    BY DEF Readable
  <2> QED
    BY <2>1, <2>2, <1>1, <1>2, Pushes DEF VecInv
<1>4. CASE AppendItem(v, u)
  <2>1. u \in Usable
    BY <1>4 DEF AppendItem
  <2>2. PICK i \in 0 .. box[u].used - 1, a \in AppendAnswers(v) :
               Push(v, AsPlace(box[u].ptr, i), a)
    BY <1>4 DEF AppendItem
  <2>3. i \in Nat /\ i < box[u].used
    BY VectorAssumption DEF VecInv, TypeOK, Containers, Indices
  <2>4. Readable(AsPlace(box[u].ptr, i))
    BY <2>1, <2>3, <1>1, ItemReadable
  <2> QED
    BY <2>2, <2>4, <1>1, <1>2, Pushes DEF VecInv
<1> QED
  BY <1>3, <1>4

LEMMA SetKeeps ==
  ASSUME VecInv, NEW v \in Box, Set(v)
  PROVE  VecInv'
<1>1. /\ fault = "none" /\ v \in Usable /\ fault' = fault /\ refused' = refused
      /\ box' = box /\ moved' = moved /\ job' = job
  BY DEF Set, Ready
<1>2. /\ box[v] \in Containers /\ HeapOK(heap) /\ refused \in BOOLEAN
      /\ Owns(box[v], Capacity[v], heap, refused) /\ box \in [Box -> Containers]
      /\ box[v].used \in Nat /\ box[v].allocated \in Nat
  BY <1>1, VectorAssumption DEF VecInv, TypeOK, Sound, HeapOK, Containers, Indices
<1>3. PICK i \in 0 .. box[v].used - 1, x \in Item :
             heap' = [heap EXCEPT ![box[v].ptr].items[i + 1] = x]
  BY DEF Set
<1> DEFINE ptr == box[v].ptr
           old == heap[ptr].items
           new == [old EXCEPT ![i + 1] = x]
<1>4. i + 1 \in 1 .. box[v].used
  BY <1>2
<1>5. ptr \in DOMAIN heap /\ heap[ptr] \in Block /\ Len(old) = box[v].used
  BY <1>2, <1>4 DEF Owns, HeapOK
<1>6. new \in Seq(Item) /\ Len(new) = Len(old)
  BY <1>4, <1>5 DEF Block
<1>7. /\ DOMAIN heap' = DOMAIN heap
      /\ heap'[ptr] = [heap[ptr] EXCEPT !.items = new]
      /\ \A b \in DOMAIN heap \ {ptr} : heap'[b] = heap[b]
  BY <1>3, <1>5
<1> HIDE DEF new
<1>8. /\ heap'[ptr] \in Block /\ heap'[ptr].size = heap[ptr].size
      /\ Len(heap'[ptr].items) = box[v].used
  BY <1>5, <1>6, <1>7 DEF Block
<1>9. HeapOK(heap')
  BY <1>2, <1>7, <1>8 DEF HeapOK
<1>10. StaysHome(v, box[v], heap')
  BY <1>2, <1>7, <1>8, <1>9 DEF StaysHome, VecInv, Homes
<1>11. Owns(box[v], Capacity[v], heap', refused)
  BY <1>2, <1>5, <1>7, <1>8 DEF Owns
<1>12. box' = [box EXCEPT ![v] = box[v]]
  BY <1>1, <1>2
<1>13. JobUsable' /\ job' \in {Idle} \cup Jobs /\ fault' \in Faults
  BY <1>1 DEF VecInv, JobUsable, Usable, TypeOK
<1> QED
  BY <1>1, <1>2, <1>10, <1>11, <1>12, <1>13, OneChanges DEF VecInv

LEMMA ReserveKeeps ==
  ASSUME VecInv, NEW v \in Box, Reserve(v)
  PROVE  VecInv'
<1>1. /\ fault = "none" /\ v \in Usable /\ v \in Dyn /\ v \notin Inp
      /\ moved' = moved /\ job' = job /\ fault' = fault
  BY VectorAssumption DEF Reserve, Ready, MayGrowCount, MayGrowBytes
<1>2. PICK n \in Amounts : \/ MayGrowCount(v, n) /\ Grow(v, n * ITEM)
                           \/ MayGrowBytes(v, n) /\ Grow(v, n)
  BY DEF Reserve
<1>3. n \in Nat /\ n * ITEM \in Nat
  <2>1. n \in Nat /\ ITEM \in Nat
    BY VectorAssumption
  <2> QED
    BY <2>1
<1>4. PICK bytes \in Nat : Grow(v, bytes)
  BY <1>2, <1>3
<1>5. PICK a \in Answers(box[v], heap) :
        LET g == Grown(box[v], heap, bytes, a) IN
        /\ box' = [box EXCEPT ![v] = g.c]
        /\ heap' = g.heap
        /\ refused' = (refused \/ a = null)
  BY <1>4 DEF Grow
<1> DEFINE g == Grown(box[v], heap, bytes, a)
<1>6. /\ box[v] \in Containers /\ HeapOK(heap) /\ refused \in BOOLEAN
      /\ Owns(box[v], IdxMax, heap, refused) /\ Capacity[v] = IdxMax
      /\ box[v].ptr \in Addr \cup {null}
  BY <1>1, CapacityBound DEF VecInv, TypeOK, Sound, HeapOK, Homes
<1>7. GrowsWell(box[v], heap, refused, bytes, a, g)
  BY <1>6, GrownWell
<1> HIDE DEF g
<1>8. /\ StaysHome(v, g.c, g.heap) /\ (refused \/ a = null) \in BOOLEAN
      /\ Owns(g.c, Capacity[v], g.heap, refused \/ a = null)
  BY <1>1, <1>6, <1>7 DEF GrowsWell, StaysHome
<1>9. /\ box' = [box EXCEPT ![v] = g.c] /\ heap' = g.heap
      /\ refused' = (refused \/ a = null)
  BY <1>5 DEF g
<1>10. JobUsable' /\ job' \in {Idle} \cup Jobs /\ fault' \in Faults
  BY <1>1 DEF VecInv, JobUsable, Usable, TypeOK
<1> QED
  BY <1>1, <1>8, <1>9, <1>10, OneChanges DEF VecInv

LEMMA FreeingKeeps ==
  ASSUME VecInv, NEW v \in Box, Free(v)
  PROVE  VecInv'
<1> DEFINE c == Flushed(v)
<1>1. /\ fault = "none" /\ v \in Usable /\ refused' = refused
      /\ moved' = moved /\ job' = job /\ fault' = fault
      /\ box' = [box EXCEPT ![v] = c]
  BY DEF Free, Ready
<1>2. /\ box[v] \in Containers /\ HeapOK(heap) /\ refused \in BOOLEAN
      /\ Capacity[v] \in Nat /\ Capacity[v] * ITEM \in Nat /\ Capacity[v] <= IdxMax
      /\ IdxMax \in Nat /\ ITEM \in Nat /\ Dyn \cap Inp = {}
      /\ null \notin Addr \cup Inp /\ Dyn \cup Inp = Box
  BY <1>1, CapacityBound, Product, VectorAssumption
  DEF VecInv, TypeOK, HeapOK, Box
<1>3. JobUsable' /\ job' \in {Idle} \cup Jobs /\ fault' \in Faults
  BY <1>1 DEF VecInv, JobUsable, Usable, TypeOK
<1>4. CASE v \in Inp
  <2>1. /\ heap' = [heap EXCEPT ![v] = Array(v)] /\ v \in DOMAIN heap
        /\ c = [used |-> 0, allocated |-> Capacity[v], ptr |-> v]
        /\ Array(v) \in Block /\ Array(v).size = Capacity[v] * ITEM
        /\ Len(Array(v).items) = 0 /\ box[v].ptr = v
    BY <1>2, <1>4 DEF Free, Flushed, VecInv, Homes, Array, Block
  <2>2. DOMAIN heap' = DOMAIN heap /\ heap'[v] = Array(v)
        /\ \A b \in DOMAIN heap \ {v} : heap'[b] = heap[b]
    BY <2>1
  <2>3. HeapOK(heap')
    BY <2>1, <2>2, <1>2 DEF HeapOK
  <2>4. StaysHome(v, c, heap')
    BY <2>1, <2>2, <2>3, <1>2, <1>4 DEF StaysHome, Containers, Indices, Places
  <2>5. Owns(c, Capacity[v], heap', refused)
    BY <2>1, <2>2, <1>2, <1>4 DEF Owns
  <2> QED
    BY <1>1, <1>2, <1>3, <2>4, <2>5, OneChanges DEF VecInv
<1>5. CASE v \in Dyn
  <2>1. /\ heap' = Without(heap, box[v].ptr)
        /\ c = [used |-> 0, allocated |-> 0, ptr |-> null]
    BY <1>2, <1>5 DEF Free, Flushed
  <2>2. /\ DOMAIN heap' = DOMAIN heap \ {box[v].ptr}
        /\ \A b \in DOMAIN heap' : heap'[b] = heap[b]
    BY <2>1 DEF Without
  <2>3. HeapOK(heap') /\ null \notin DOMAIN heap
    BY <2>2, <1>2 DEF HeapOK, Places
  <2>4. StaysHome(v, c, heap')
    BY <2>1, <2>2, <2>3, <1>2, <1>5 DEF StaysHome, Containers, Indices, Places
  <2>5. Owns(c, Capacity[v], heap', refused)
    BY <2>1, <1>2 DEF Owns
  <2> QED
    BY <1>1, <1>2, <1>3, <2>4, <2>5, OneChanges DEF VecInv
<1> QED
  BY <1>2, <1>4, <1>5

(***************************************************************************)
(* Assignment: the block goes to v with all that was true of it, and what  *)
(* v had is in no other hands.                                             *)
(***************************************************************************)
LEMMA AssignKeeps ==
  ASSUME VecInv, NEW v \in Box, NEW u \in Box, Assign(v, u)
  PROVE  VecInv'
<1>1. /\ fault = "none" /\ v \in Dyn /\ u \in Dyn /\ u \in Usable /\ u # v
      /\ job = Idle /\ job' = job /\ refused' = refused /\ fault' = fault
      /\ box' = [box EXCEPT ![v] = box[u]]
      /\ heap' = IF v \in moved THEN heap ELSE Without(heap, box[v].ptr)
      /\ moved' = (moved \ {v}) \cup (IF box[u].ptr = null THEN {} ELSE {u})
  BY DEF Assign, Ready, VecInv, TypeOK, Jobs, Idle
<1>2. /\ box \in [Box -> Containers] /\ HeapOK(heap) /\ moved \subseteq Dyn
      /\ Dyn \subseteq Box /\ Inp \subseteq Box /\ Dyn \cap Inp = {} /\ Addr \cap Inp = {}
      /\ null \notin Addr \cup Inp
      /\ Apart /\ \A w \in Usable : Owns(box[w], Capacity[w], heap, refused)
  BY <1>1, VectorAssumption DEF VecInv, TypeOK, HeapOK, Sound, Box
<1>3. /\ box' \in [Box -> Containers] /\ box'[v] = box[u]
      /\ \A w \in Box \ {v} : box'[w] = box[w]
  BY <1>1, <1>2
<1>4. /\ DOMAIN heap' \subseteq DOMAIN heap
      /\ \A b \in DOMAIN heap' : heap'[b] = heap[b]
      /\ v \in moved => heap' = heap
      /\ \A b \in DOMAIN heap : b # box[v].ptr => b \in DOMAIN heap'
  BY <1>1 DEF Without
<1>5. moved' \subseteq Dyn /\ v \notin moved'
  BY <1>1, <1>2
<1>6. TypeOK'
  BY <1>1, <1>2, <1>3, <1>4, <1>5 DEF VecInv, TypeOK, HeapOK
<1>7. \A w \in Usable' \ {v} : w \in Usable /\ (w = u => box[u].ptr = null)
  BY <1>1 DEF Usable
<1>8. Apart'
  <2> SUFFICES ASSUME NEW w \in Usable', NEW x \in Usable', w # x,
                      box'[w].ptr = box'[x].ptr, box'[w].ptr # null
               PROVE  FALSE
    BY DEF Apart
  <2>1. w \in Box /\ x \in Box
    BY DEF Usable
  <2>2. CASE w # v /\ x # v
    BY <2>1, <2>2, <1>2, <1>3, <1>7 DEF Apart
  <2>3. CASE w = v \/ x = v
    BY <2>1, <2>3, <1>1, <1>2, <1>3, <1>7 DEF Apart
  <2> QED
    BY <2>2, <2>3
<1>9. ASSUME NEW w \in Usable
      PROVE  /\ v # w => Owns(box[w], Capacity[w], heap', refused)
  <2>1. Owns(box[w], Capacity[w], heap, refused) /\ w \in Box
    BY <1>2 DEF Usable
  <2>2. v # w /\ box[w].ptr # null => box[w].ptr \in DOMAIN heap'
    BY <2>1, <1>1, <1>2, <1>4 DEF Owns, Apart, Usable
  <2> QED
    BY <2>1, <2>2, <1>4 DEF Owns
<1>10. ASSUME NEW w \in Usable'
       PROVE  Owns(box'[w], Capacity[w], heap', refused')
  <2>1. w \in Box
    BY DEF Usable
  <2>2. CASE w = v
    <3>1. Capacity[v] = IdxMax /\ Capacity[u] = IdxMax
      BY <1>1, <1>2, CapacityBound
    <3>2. Owns(box[u], Capacity[u], heap', refused)
      BY <1>1, <1>9
    <3> QED
      BY <2>2, <3>1, <3>2, <1>1, <1>3
  <2>3. CASE w # v
    BY <2>1, <2>3, <1>1, <1>3, <1>7, <1>9
  <2> QED
    BY <2>2, <2>3
<1>11. Homes'
  <2>1. \A d \in Dyn : box'[d].ptr \in Addr \cup {null}
    BY <1>1, <1>2, <1>3 DEF VecInv, Homes
  <2>2. ASSUME NEW p \in Inp
        PROVE  /\ box'[p] = box[p] /\ p \in DOMAIN heap' /\ heap'[p] = heap[p]
    <3>1. p \in Box /\ p # v /\ p # box[v].ptr /\ p \in DOMAIN heap
      BY <1>1, <1>2 DEF VecInv, Homes
    <3> QED
      BY <3>1, <1>3, <1>4
  <2> QED
    BY <2>1, <2>2 DEF VecInv, Homes
<1>12. JobUsable'
  BY <1>1 DEF JobUsable, Idle
<1> QED
  BY <1>1, <1>6, <1>8, <1>10, <1>11, <1>12 DEF VecInv, Sound

(***************************************************************************)
(* Copies: the first n items of u are in place of those of a container     *)
(* that has room for them.                                                 *)
(***************************************************************************)
LEMMA Copied ==
  ASSUME VecInv, fault = "none", NEW u \in Usable, NEW n \in Nat, n <= box[u].used,
         NEW h, HeapOK(h), NEW ptr \in DOMAIN h
  PROVE  LET new == CopyInto(h, ptr, n, u) IN
         /\ HeapOK(new) /\ DOMAIN new = DOMAIN h
         /\ new[ptr].size = h[ptr].size /\ Len(new[ptr].items) = n
         /\ new[ptr].items = SubSeq(Contents(u), 1, n)
         /\ \A b \in DOMAIN h \ {ptr} : new[b] = h[b]
<1> DEFINE items == SubSeq(Contents(u), 1, n)
           new == CopyInto(h, ptr, n, u)
<1>1. Contents(u) \in Seq(Item) /\ Len(Contents(u)) = box[u].used /\ box[u].used \in Nat
  BY ContentsAre
<1>2. items \in Seq(Item) /\ Len(items) = n
  BY <1>1
<1> HIDE DEF items
<1>3. h[ptr] \in Block
  BY DEF HeapOK
<1>4. /\ DOMAIN new = DOMAIN h /\ new[ptr] = [h[ptr] EXCEPT !.items = items]
      /\ \A b \in DOMAIN h \ {ptr} : new[b] = h[b]
  BY DEF CopyInto, items
<1> HIDE DEF new
<1>5. new[ptr] \in Block /\ new[ptr].items = items /\ new[ptr].size = h[ptr].size
  BY <1>2, <1>3, <1>4 DEF Block
<1> QED
  BY <1>2, <1>4, <1>5 DEF HeapOK, new, items

LEMMA CopyKeeps ==
  ASSUME VecInv, NEW v \in Box, NEW u \in Box, Copy(v, u)
  PROVE  VecInv'
<1> DEFINE n == box[u].used
<1>1. /\ fault = "none" /\ v \in Usable /\ u \in Usable /\ v \in Dyn /\ v \notin Inp
      /\ moved' = moved /\ job' = job /\ fault' = fault /\ box[v] = Flushed(v)
  BY VectorAssumption DEF Copy, Ready
<1>2. /\ box[v] \in Containers /\ HeapOK(heap) /\ refused \in BOOLEAN
      /\ box \in [Box -> Containers] /\ n \in Indices /\ n \in Nat /\ ITEM \in Nat
      /\ Owns(box[v], IdxMax, heap, refused) /\ Capacity[v] = IdxMax
      /\ box[v].ptr = null
  BY <1>1, CapacityBound, VectorAssumption
  DEF VecInv, TypeOK, Sound, HeapOK, Containers, Indices, Flushed
<1>3. n * ITEM \in Nat
  BY <1>2
<1>4. PICK a \in Answers(box[v], heap) :
        LET g == Grown(box[v], heap, n * ITEM, a) IN
        /\ refused' = (refused \/ a = null)
        /\ IF g.ok
           THEN /\ box' = [box EXCEPT ![v] = [g.c EXCEPT !.used = n]]
                /\ heap' = CopyInto(g.heap, g.c.ptr, n, u)
           ELSE UNCHANGED <<box, heap>>
  BY DEF Copy
<1> DEFINE g == Grown(box[v], heap, n * ITEM, a)
           c == [g.c EXCEPT !.used = n]
<1>5. GrowsWell(box[v], heap, refused, n * ITEM, a, g)
  BY <1>2, <1>3, GrownWell
<1>6. (refused \/ a = null) \in BOOLEAN /\ refused' = (refused \/ a = null)
  BY <1>2, <1>4
<1>7. JobUsable' /\ job' \in {Idle} \cup Jobs /\ fault' \in Faults
  BY <1>1 DEF VecInv, JobUsable, Usable, TypeOK
<1>8. CASE g.ok
  <2>1. /\ box' = [box EXCEPT ![v] = c] /\ heap' = CopyInto(g.heap, g.c.ptr, n, u)
    BY <1>4, <1>8 DEF CopyInto
  <2> HIDE DEF g
  <2>2. /\ HeapOK(g.heap) /\ g.c.ptr \in DOMAIN g.heap /\ g.c.ptr # null
        /\ n <= g.c.allocated /\ g.c.allocated * ITEM <= g.heap[g.c.ptr].size
        /\ g.c \in Containers /\ g.c.allocated <= IdxMax /\ g.c.ptr \in Addr \cup {null}
        /\ g.c.ptr \notin DOMAIN heap \/ g.c.ptr = box[v].ptr
        /\ \A b \in DOMAIN heap \ {box[v].ptr} : b \in DOMAIN g.heap /\ g.heap[b] = heap[b]
    BY <1>2, <1>3, <1>5, <1>8 DEF GrowsWell, Owns
  <2>3. /\ HeapOK(heap') /\ DOMAIN heap' = DOMAIN g.heap
        /\ heap'[g.c.ptr].size = g.heap[g.c.ptr].size
        /\ Len(heap'[g.c.ptr].items) = n
        /\ \A b \in DOMAIN g.heap \ {g.c.ptr} : heap'[b] = g.heap[b]
    BY <1>1, <1>2, <2>1, <2>2, Copied
  <2>4. /\ c \in Containers /\ c.used = n /\ c.ptr = g.c.ptr
        /\ c.allocated = g.c.allocated
    BY <1>2, <2>2 DEF Containers
  <2>5. n * ITEM <= g.heap[g.c.ptr].size
    <3>1. g.c.allocated \in Nat /\ g.heap[g.c.ptr].size \in Nat
      BY <2>2, VectorAssumption DEF Containers, Indices, HeapOK, Block
    <3>2. n * ITEM <= g.c.allocated * ITEM /\ g.c.allocated * ITEM \in Nat
      BY <3>1, <2>2, <1>2, Product
    <3> QED
      BY <3>1, <3>2, <2>2, <1>3
  <2> HIDE DEF c
  <2>6. StaysHome(v, c, heap')
    BY <2>2, <2>3, <2>4, <1>1, <1>2 DEF StaysHome
  <2>7. Owns(c, Capacity[v], heap', refused \/ a = null)
    BY <2>2, <2>3, <2>4, <2>5, <1>2 DEF Owns
  <2> QED
    BY <1>1, <1>6, <1>7, <2>1, <2>6, <2>7, OneChanges DEF VecInv
<1>9. CASE ~g.ok
  <2>1. box' = box /\ heap' = heap
    BY <1>4, <1>9
  <2> HIDE DEF g
  <2>2. box' = [box EXCEPT ![v] = box[v]]
    BY <2>1, <1>2
  <2>3. StaysHome(v, box[v], heap')
    BY <2>1, <1>1, <1>2 DEF StaysHome
  <2>4. Owns(box[v], Capacity[v], heap', refused \/ a = null)
    BY <2>1, <1>2 DEF Owns
  <2> QED
    BY <1>1, <1>6, <1>7, <2>2, <2>3, <2>4, OneChanges DEF VecInv
<1> QED
  BY <1>8, <1>9

LEMMA FillKeeps ==
  ASSUME VecInv, NEW v \in Box, NEW u \in Box, Fill(v, u)
  PROVE  VecInv'
<1> DEFINE n == Lesser(Capacity[v], box[u].used)
           c == [box[v] EXCEPT !.used = n]
<1>1. /\ fault = "none" /\ v \in Usable /\ u \in Usable /\ v \in Inp /\ v \notin Dyn
      /\ moved' = moved /\ job' = job /\ fault' = fault /\ refused' = refused
  BY VectorAssumption DEF Fill, Ready, Usable, VecInv, TypeOK
<1>2. /\ box[v] \in Containers /\ box[u] \in Containers /\ HeapOK(heap)
      /\ refused \in BOOLEAN /\ box \in [Box -> Containers]
      /\ Capacity[v] \in Nat /\ Capacity[v] <= IdxMax /\ IdxMax \in Nat
      /\ ITEM \in Nat /\ null \notin Addr \cup Inp
      /\ box[v].ptr = v /\ box[v].allocated = Capacity[v]
      /\ v \in DOMAIN heap /\ heap[v].size = Capacity[v] * ITEM
  BY <1>1, CapacityBound, VectorAssumption DEF VecInv, TypeOK, HeapOK, Homes
<1>3. /\ n \in Indices /\ n \in Nat /\ n <= Capacity[v] /\ n <= box[u].used
      /\ n * ITEM <= Capacity[v] * ITEM
  <2>1. n \in Nat /\ n <= Capacity[v] /\ n <= box[u].used
    BY <1>2 DEF Containers, Indices, Lesser
  <2> QED
    BY <2>1, <1>2, Product DEF Indices
<1>4. box' = [box EXCEPT ![v] = c] /\ heap' = CopyInto(heap, v, n, u)
  <2>1. box' = [box EXCEPT ![v].used = n] /\ heap' = CopyInto(heap, v, n, u)
    BY DEF Fill
  <2> QED
    BY <2>1, <1>2 DEF CopyInto
<1> HIDE DEF n
<1>5. /\ HeapOK(heap') /\ DOMAIN heap' = DOMAIN heap
      /\ heap'[v].size = heap[v].size /\ Len(heap'[v].items) = n
      /\ \A b \in DOMAIN heap \ {v} : heap'[b] = heap[b]
  BY <1>1, <1>2, <1>3, <1>4, Copied
<1>6. c \in Containers /\ c.used = n /\ c.ptr = v /\ c.allocated = Capacity[v]
  BY <1>2, <1>3 DEF Containers
<1> HIDE DEF c
<1>7. StaysHome(v, c, heap')
  BY <1>1, <1>2, <1>5, <1>6 DEF StaysHome
<1>8. Owns(c, Capacity[v], heap', refused)
  BY <1>1, <1>2, <1>3, <1>5, <1>6 DEF Owns
<1>9. JobUsable' /\ job' \in {Idle} \cup Jobs /\ fault' \in Faults
  BY <1>1 DEF VecInv, JobUsable, Usable, TypeOK
<1> QED
  BY <1>1, <1>2, <1>4, <1>7, <1>8, <1>9, OneChanges DEF VecInv

LEMMA RangeKeeps ==
  ASSUME VecInv, NEW v \in Box, NEW u \in Box, Range(v, u)
  PROVE  VecInv'
<1>1. /\ {u, v} \subseteq Usable /\ box' = box /\ heap' = heap /\ moved' = moved
      /\ refused' = refused /\ fault' = fault
  BY DEF Range
<1>2. /\ box[u] \in Containers /\ box[v] \in Containers
      /\ IdxInv \in Nat /\ IdxMax \in 1 .. IdxInv /\ Amounts \subseteq Counts
  BY VectorAssumption DEF VecInv, TypeOK, Counts
<1>3. box[u].used \in Counts /\ box[v].used \in Counts
  BY <1>2 DEF Containers, Indices, Counts
<1>4. PICK begin \in 0 .. box[u].used - 1, n \in Amounts \cup {box[u].used} :
        LET end == (begin + n) % (IdxInv + 1) IN
        job' = [at |-> "loop", to |-> v, from |-> u, begin |-> begin, end |-> end,
                count |-> IF end > box[u].used THEN box[u].used - begin ELSE n,
                i |-> begin, k |-> IdxInv, base |-> box[v].used,
                within |-> begin + n <= box[u].used]
  BY DEF Range
<1> DEFINE end == (begin + n) % (IdxInv + 1)
           count == IF end > box[u].used THEN box[u].used - begin ELSE n
<1>5. begin \in Counts /\ n \in Counts /\ begin <= box[u].used /\ IdxInv \in Counts
  BY <1>2, <1>3 DEF Counts
<1>6. end \in Counts
  BY <1>2, <1>5 DEF Counts
<1> HIDE DEF end
<1>7. count \in Counts
  BY <1>3, <1>5 DEF Counts
<1> HIDE DEF count
<1>8. (begin + n <= box[u].used) \in BOOLEAN
  OBVIOUS
<1>9. /\ job' \in Jobs /\ job'.to = v /\ job'.from = u
  BY <1>3, <1>4, <1>5, <1>6, <1>7, <1>8 DEF Jobs, end, count
<1> QED
  BY <1>1, <1>9
  DEF VecInv, TypeOK, Sound, Homes, JobUsable, Apart, Usable

LEMMA RangeReads ==
  ASSUME VecInv, fault = "none", job \in Jobs, job.from \in Usable
  PROVE  Readable(RangeSource)
<1>1. CASE job.i < box[job.from].used
  <2>1. job.i \in Nat
    BY DEF Jobs, Counts
  <2>2. Readable(AsPlace(box[job.from].ptr, job.i))
    BY <1>1, <2>1, ItemReadable
  <2> QED
    BY <1>1, <2>2 DEF RangeSource
<1>2. CASE ~(job.i < box[job.from].used)
  BY <1>2 DEF RangeSource, Readable, Item
<1> QED
  BY <1>1, <1>2

LEMMA RangeItemKeeps ==
  ASSUME VecInv, RangeItem
  PROVE  VecInv'
<1>1. /\ fault = "none" /\ job \in Jobs /\ job.at = "loop" /\ job.i < job.end
      /\ moved' = moved /\ {job.to, job.from} \subseteq Usable
      /\ IdxInv \in Nat /\ IdxMax \in 1 .. IdxInv
  BY VectorAssumption DEF RangeItem, VecInv, TypeOK, JobUsable, Idle
<1>2. Readable(RangeSource)
  BY <1>1, RangeReads
<1>3. PICK a \in AppendAnswers(job.to) :
        LET k == Appended(job.to, RangeSource, a).index IN
        /\ Push(job.to, RangeSource, a)
        /\ job' = IF IsInv(job.to, k) THEN [job EXCEPT !.k = k, !.at = "out"]
                  ELSE [job EXCEPT !.k = k, !.i = @ + 1]
  BY DEF RangeItem
<1> DEFINE k == Appended(job.to, RangeSource, a).index
<1>4. k \in Counts
  BY <1>1, <1>2, AppendsWell
<1> HIDE DEF k
<1>5. job.i + 1 \in Counts
  BY <1>1 DEF Jobs, Counts
<1>6. \/ job' = [job EXCEPT !.k = k, !.at = "out"]
      \/ job' = [job EXCEPT !.k = k, !.i = job.i + 1]
  BY <1>3 DEF k
<1>7. job' \in Jobs /\ job'.to = job.to /\ job'.from = job.from
  <2>1. CASE job' = [job EXCEPT !.k = k, !.at = "out"]
    BY <2>1, <1>1, <1>4 DEF Jobs
  <2>2. CASE job' = [job EXCEPT !.k = k, !.i = job.i + 1]
    BY <2>2, <1>1, <1>4, <1>5 DEF Jobs
  <2> QED
    BY <1>6, <2>1, <2>2
<1>8. TypeOK' /\ Sound' /\ Homes'
  BY <1>1, <1>2, <1>3, <1>7, Pushes
<1>9. JobUsable'
  BY <1>1, <1>7 DEF JobUsable, Usable
<1> QED
  BY <1>8, <1>9 DEF VecInv

(***************************************************************************)
(* The invariant holds.                                                    *)
(***************************************************************************)
LEMMA VecInit ==
  Init => VecInv
<1> SUFFICES ASSUME Init PROVE VecInv
  OBVIOUS
<1>1. /\ box = [v \in Box |-> Flushed(v)] /\ heap = [p \in Inp |-> Array(p)]
      /\ moved = {} /\ job = Idle /\ refused = FALSE /\ fault = "none"
  BY DEF Init
<1>2. /\ Box = Dyn \cup Inp /\ Dyn \cap Inp = {} /\ null \notin Addr \cup Inp
      /\ ITEM \in Nat /\ IdxMax \in Nat
  BY VectorAssumption DEF Box
<1>3. ASSUME NEW d \in Dyn
      PROVE  /\ box[d] = [used |-> 0, allocated |-> 0, ptr |-> null]
             /\ box[d] \in Containers /\ Owns(box[d], Capacity[d], heap, refused)
  <2>1. box[d] = [used |-> 0, allocated |-> 0, ptr |-> null] /\ Capacity[d] \in Nat
    BY <1>1, <1>2, CapacityBound DEF Flushed
  <2> QED
    BY <2>1, <1>2 DEF Containers, Indices, Owns
<1>4. ASSUME NEW p \in Inp
      PROVE  /\ box[p] = [used |-> 0, allocated |-> Capacity[p], ptr |-> p]
             /\ box[p] \in Containers /\ Owns(box[p], Capacity[p], heap, refused)
             /\ p \in DOMAIN heap /\ heap[p] \in Block
             /\ heap[p].size = Capacity[p] * ITEM
  <2>1. /\ box[p] = [used |-> 0, allocated |-> Capacity[p], ptr |-> p]
        /\ heap[p] = [size |-> Capacity[p] * ITEM, items |-> <<>>]
        /\ p \in DOMAIN heap /\ Capacity[p] \in Nat /\ Capacity[p] <= IdxMax
    BY <1>1, <1>2, CapacityBound DEF Flushed, Array
  <2>2. Capacity[p] * ITEM \in Nat
    BY <2>1, <1>2
  <2>3. heap[p] \in Block /\ heap[p].size = Capacity[p] * ITEM /\ Len(heap[p].items) = 0
    BY <2>1, <2>2 DEF Block
  <2> QED
    BY <2>1, <2>2, <2>3, <1>2 DEF Containers, Indices, Owns, Places
<1>5. TypeOK
  BY <1>1, <1>2, <1>3, <1>4 DEF TypeOK, Places, Faults
<1>8. /\ \A d \in Dyn : box[d].ptr = null
      /\ \A p \in Inp : box[p].ptr = p /\ box[p].allocated = Capacity[p]
  <2>1. ASSUME NEW d \in Dyn PROVE box[d].ptr = null
    BY <1>3
  <2>2. ASSUME NEW p \in Inp PROVE box[p].ptr = p /\ box[p].allocated = Capacity[p]
    <3>1. box[p] = [used |-> 0, allocated |-> Capacity[p], ptr |-> p]
      BY <1>4
    <3> QED
      BY <3>1
  <2> QED
    BY <2>1, <2>2
<1>6. Apart
  BY <1>2, <1>8 DEF Apart, Usable
<1>7. Sound
  BY <1>2, <1>3, <1>4, <1>6 DEF Sound, Usable
<1> QED
  BY <1>1, <1>4, <1>5, <1>7, <1>8 DEF VecInv, Homes, JobUsable, Idle

LEMMA VecStep ==
  VecInv /\ [Next]_vars => VecInv'
<1> SUFFICES ASSUME VecInv, [Next]_vars PROVE VecInv'
  OBVIOUS
<1>1. CASE \E v \in Box : AppendValue(v) \/ Set(v) \/ Reserve(v) \/ Free(v)
  BY <1>1, AppendKeeps, SetKeeps, ReserveKeeps, FreeingKeeps
<1>2. CASE \E v, u \in Box : AppendItem(v, u) \/ Assign(v, u) \/ Copy(v, u)
                              \/ Fill(v, u) \/ Range(v, u)
  BY <1>2, AppendKeeps, AssignKeeps, CopyKeeps, FillKeeps, RangeKeeps
<1>3. CASE RangeItem
  BY <1>3, RangeItemKeeps
<1>4. CASE UNCHANGED vars
  BY <1>4 DEF vars, VecInv, TypeOK, Sound, Homes, JobUsable, Apart, Usable
<1>5. CASE \E v \in Box : Misuse(v)
  BY <1>5 DEF Misuse, VecInv, TypeOK, Faults, Sound, Homes, JobUsable, Usable
<1>6. CASE RangeDone
  BY <1>6 DEF RangeDone, VecInv, TypeOK, Sound, Homes, JobUsable, Apart, Usable, Idle
<1> QED
  BY <1>1, <1>2, <1>3, <1>4, <1>5, <1>6 DEF Next, Faulty

(***************************************************************************)
(* Whatever the client does and realloc(3) answers, every container has    *)
(* its own block, its fields agree with that block, and a range append     *)
(* works on containers that may be used (dynmem.hh, inplace.hh).           *)
(***************************************************************************)
THEOREM VectorsInvariant == Spec => []VecInv
<1> QED
  BY VecInit, VecStep, PTL DEF Spec

(***************************************************************************)
(* Every variable of Vectors keeps its type: in particular the indices     *)
(* stay within idx_max, whatever realloc(3) and the client do.             *)
(***************************************************************************)
THEOREM VectorsTypeCorrect == Spec => []TypeOK
<1>1. VecInv => TypeOK
  BY DEF VecInv
<1> QED
  BY <1>1, VectorsInvariant, PTL

(***************************************************************************)
(* Every container in use owns its block, which no other one has, and its  *)
(* items are inside of it.                                                 *)
(***************************************************************************)
THEOREM VectorsSound == Spec => []Sound
<1>1. VecInv => Sound
  BY DEF VecInv
<1> QED
  BY <1>1, VectorsInvariant, PTL

(***************************************************************************)
(* The refinement: every step of a container is a step of module Boxes or  *)
(* changes nothing of what a container holds.                              *)
(***************************************************************************)
LEMMA Allowed ==
  ASSUME fault = "none", fault' = "none", refused \in BOOLEAN, refused' \in BOOLEAN,
         refused => refused', NEW v \in Box, NEW u \in Box,
         \/ Promise!AppendItem(v) \/ Promise!SetItem(v) \/ Promise!Clear(v)
         \/ Promise!Copy(v, u) \/ Promise!Move(v, u) \/ UNCHANGED Held
  PROVE  Promise!Next
<1> DEFINE excused == refused \/ fault \in {"stale", "moved"}
<1>1. excused' \in {excused, TRUE}
  <2>1. CASE refused'
    BY <2>1
  <2>2. CASE ~refused'
    BY <2>2
  <2> QED
    BY <2>1, <2>2
<1> HIDE DEF excused
<1>2. UNCHANGED (fault # "none") /\ ~(fault # "none")
  OBVIOUS
<1> QED
  BY <1>1, <1>2 DEF Promise!Next, excused

LEMMA Breaks ==
  ASSUME fault = "none", fault' # "none", refused' \/ fault' \in {"stale", "moved"}
  PROVE  Promise!Next
<1>1. Held' = Promise!Nothing
  BY DEF Held, Promise!Nothing
<1>2. (fault # "none")' = TRUE /\ ~(fault # "none")
  OBVIOUS
<1> QED
  BY <1>1, <1>2 DEF Promise!Next, Promise!Break

(***************************************************************************)
(* What the containers hold after a step that changes one of them.         *)
(***************************************************************************)
LEMMA HeldAfter ==
  ASSUME VecInv, fault = "none", fault' = "none", NEW v \in Usable, NEW c, NEW h,
         StaysHome(v, c, h), box' = [box EXCEPT ![v] = c], heap' = h, moved' = moved
  PROVE  Held' = [Held EXCEPT ![v] = IF c.used = 0 THEN <<>> ELSE h[c.ptr].items]
<1> DEFINE new == IF c.used = 0 THEN <<>> ELSE h[c.ptr].items
<1>1. v \in Box /\ box \in [Box -> Containers] /\ v \notin moved
  BY DEF Usable, VecInv, TypeOK
<1>2. box'[v] = c /\ \A u \in Box \ {v} : box'[u] = box[u]
  BY <1>1
<1>3. ASSUME NEW u \in Usable, u # v
      PROVE  Contents(u)' = Contents(u)
  <2>1. u \in Box /\ Owns(box[u], Capacity[u], heap, refused) /\ Apart /\ box'[u] = box[u]
    BY <1>2, <1>3 DEF Usable, VecInv, Sound
  <2>2. CASE box[u].used = 0
    BY <2>1, <2>2 DEF Contents
  <2>3. CASE box[u].used # 0
    <3>1. box[u].ptr # null /\ box[u].ptr \in DOMAIN heap
      BY <2>1, <2>3, VectorAssumption DEF Owns, VecInv, TypeOK, Containers, Indices
    <3>2. box[u].ptr # box[v].ptr
      BY <2>1, <3>1, <1>3 DEF Apart
    <3>3. h[box[u].ptr] = heap[box[u].ptr]
      BY <3>1, <3>2 DEF StaysHome
    <3> QED
      BY <2>1, <2>3, <3>3 DEF Contents
  <2> QED
    BY <2>2, <2>3
<1>4. Contents(v)' = new
  BY <1>2 DEF Contents
<1> HIDE DEF new
<1>5. Held' = [u \in Box |-> IF u \in moved THEN <<>> ELSE Contents(u)']
  BY DEF Held
<1>6. Held = [u \in Box |-> IF u \in moved THEN <<>> ELSE Contents(u)]
  BY DEF Held
<1>7. \A u \in Box \ {v} : Held'[u] = Held[u]
  BY <1>3, <1>5, <1>6 DEF Usable
<1>8. Held'[v] = new
  BY <1>1, <1>4, <1>5
<1> QED
  BY <1>1, <1>5, <1>6, <1>7, <1>8 DEF new

LEMMA HeldNow ==
  ASSUME fault = "none", NEW u \in Usable
  PROVE  u \in Box /\ Held[u] = Contents(u) /\ DOMAIN Held = Box
BY DEF Held, Usable

LEMMA PushKeepsPromise ==
  ASSUME VecInv, fault = "none", NEW v \in Usable, NEW source, Readable(source),
         NEW a \in AppendAnswers(v), Push(v, source, a), moved' = moved
  PROVE  Promise!Next
<1> DEFINE r == Appended(v, source, a)
<1>1. /\ box' = [box EXCEPT ![v] = r.c] /\ heap' = r.heap /\ fault' = r.fault
      /\ refused' = (refused \/ a = null)
  BY DEF Push
<1>2. /\ StaysHome(v, r.c, r.heap) /\ r.fault \in Faults
      /\ r.fault = "none" => Owns(r.c, Capacity[v], r.heap, refused \/ a = null)
      /\ r.fault = "none" =>
           \/ /\ r.c.used = box[v].used
              /\ r.c.ptr # null => r.heap[r.c.ptr].items = Contents(v)
           \/ \E x \in Item : /\ r.c.used = box[v].used + 1
                            /\ r.heap[r.c.ptr].items = Append(Contents(v), x)
      /\ r.fault = "outside" => refused \/ a = null
  BY AppendsWell
<1> HIDE DEF r
<1>3. /\ refused \in BOOLEAN /\ refused' \in BOOLEAN /\ (refused => refused')
      /\ fault' \in Faults
  BY <1>1, <1>2 DEF VecInv, TypeOK
<1>4. CASE fault' # "none" /\ fault' # "moved"
  <2>1. fault' = "outside" => refused'
    BY <1>1, <1>2
  <2> QED
    BY <2>1, <1>3, <1>4, Breaks DEF Faults
<1>5. CASE fault' = "moved"
  BY <1>5, Breaks
<1>6. CASE fault' = "none"
  <2> DEFINE new == IF r.c.used = 0 THEN <<>> ELSE r.heap[r.c.ptr].items
  <2>1. Held' = [Held EXCEPT ![v] = new]
    BY <1>1, <1>2, <1>6, HeldAfter
  <2>2. /\ v \in Box /\ Held[v] = Contents(v) /\ DOMAIN Held = Box
    BY HeldNow
  <2>3. /\ Contents(v) \in Seq(Item) /\ Len(Contents(v)) = box[v].used
        /\ box[v].used \in Nat
    BY ContentsAre
  <2>4. /\ Owns(r.c, Capacity[v], r.heap, refused \/ a = null) /\ r.c \in Containers
    BY <1>1, <1>2, <1>6 DEF StaysHome
  <2>5. CASE /\ r.c.used = box[v].used
             /\ r.c.ptr # null => r.heap[r.c.ptr].items = Contents(v)
    <3>1. new = Contents(v)
      <4>1. CASE r.c.used = 0
        BY <4>1, <2>3, <2>5
      <4>2. CASE r.c.used # 0
        <5>1. r.c.ptr # null
          BY <4>2, <2>4, VectorAssumption DEF Owns, Containers, Indices
        <5> QED
          BY <5>1, <4>2, <2>5
      <4> QED
        BY <4>1, <4>2
    <3> HIDE DEF new
    <3>2. [Held EXCEPT ![v] = Contents(v)] = Held
      BY <2>2 DEF Held
    <3>3. UNCHANGED Held
      BY <2>1, <3>1, <3>2
    <3> QED
      BY <3>3, <2>2, <1>3, <1>6, Allowed
  <2>6. CASE \E x \in Item : /\ r.c.used = box[v].used + 1
                           /\ r.heap[r.c.ptr].items = Append(Contents(v), x)
    <3>1. PICK x \in Item : /\ r.c.used = box[v].used + 1
                           /\ r.heap[r.c.ptr].items = Append(Contents(v), x)
      BY <2>6
    <3>2. new = Append(Held[v], x)
      BY <3>1, <2>2, <2>3
    <3>3. Len(Held[v]) < Capacity[v]
      <4>1. /\ r.c.used <= r.c.allocated /\ r.c.allocated <= Capacity[v]
            /\ r.c.allocated \in Nat /\ Capacity[v] \in Nat
        BY <2>2, <2>4, CapacityBound, VectorAssumption DEF Owns, Containers, Indices
      <4> QED
        BY <4>1, <3>1, <2>2, <2>3
    <3> HIDE DEF new
    <3>4. Held' = [Held EXCEPT ![v] = Append(@, x)]
      BY <2>1, <3>2
    <3>5. Promise!AppendItem(v)
      BY <3>3, <3>4 DEF Promise!AppendItem
    <3> QED
      BY <3>5, <2>2, <1>3, <1>6, Allowed
  <2> QED
    BY <2>5, <2>6, <1>1, <1>2, <1>6
<1> QED
  BY <1>4, <1>5, <1>6

LEMMA AppendsAsPromised ==
  ASSUME VecInv, NEW v \in Box, NEW u \in Box, AppendValue(v) \/ AppendItem(v, u)
  PROVE  Promise!Next
<1>1. fault = "none" /\ v \in Usable /\ moved' = moved
  BY DEF AppendValue, AppendItem, Ready
<1>2. CASE AppendValue(v)
  <2>1. PICK x \in Item, a \in AppendAnswers(v) : Push(v, AsValue(x), a)
    BY <1>2 DEF AppendValue
  <2>2. Readable(AsValue(x))
    BY DEF Readable
  <2> QED
    BY <2>1, <2>2, <1>1, PushKeepsPromise
<1>3. CASE AppendItem(v, u)
  <2>1. u \in Usable
    BY <1>3 DEF AppendItem
  <2>2. PICK i \in 0 .. box[u].used - 1, a \in AppendAnswers(v) :
               Push(v, AsPlace(box[u].ptr, i), a)
    BY <1>3 DEF AppendItem
  <2>3. i \in Nat /\ i < box[u].used
    BY VectorAssumption DEF VecInv, TypeOK, Containers, Indices
  <2>4. Readable(AsPlace(box[u].ptr, i))
    BY <2>1, <2>3, <1>1, ItemReadable
  <2> QED
    BY <2>2, <2>4, <1>1, PushKeepsPromise
<1> QED
  BY <1>2, <1>3

LEMMA RangeAppendsAsPromised ==
  ASSUME VecInv, RangeItem
  PROVE  Promise!Next
<1>1. /\ fault = "none" /\ job \in Jobs /\ {job.to, job.from} \subseteq Usable
      /\ moved' = moved
  BY DEF RangeItem, VecInv, TypeOK, JobUsable, Idle
<1>2. Readable(RangeSource)
  BY <1>1, RangeReads
<1>3. PICK a \in AppendAnswers(job.to) : Push(job.to, RangeSource, a)
  BY DEF RangeItem
<1> QED
  BY <1>1, <1>2, <1>3, PushKeepsPromise

(***************************************************************************)
(* set() writes one item; the others are out of its reach.                 *)
(***************************************************************************)
LEMMA SetsAsPromised ==
  ASSUME VecInv, NEW v \in Box, Set(v)
  PROVE  Promise!Next
<1>1. /\ fault = "none" /\ v \in Usable /\ fault' = fault /\ refused' = refused
      /\ box' = box /\ moved' = moved
  BY DEF Set, Ready
<1>2. PICK i \in 0 .. box[v].used - 1, x \in Item :
             heap' = [heap EXCEPT ![box[v].ptr].items[i + 1] = x]
  BY DEF Set
<1> DEFINE ptr == box[v].ptr
           new == [Contents(v) EXCEPT ![i + 1] = x]
<1>3. /\ Contents(v) \in Seq(Item) /\ Len(Contents(v)) = box[v].used
      /\ box[v].used \in Nat /\ Held[v] = Contents(v) /\ DOMAIN Held = Box
      /\ ptr # null => Contents(v) = heap[ptr].items
      /\ ptr = null => Contents(v) = <<>>
  BY <1>1, ContentsAre, HeldNow
<1>4. i + 1 \in DOMAIN Contents(v) /\ ptr # null /\ box[v].used # 0
  BY <1>3
<1>5. ptr \in DOMAIN heap /\ heap[ptr] \in Block
  BY <1>1, <1>4 DEF VecInv, TypeOK, Sound, Owns
<1>6. /\ DOMAIN heap' = DOMAIN heap /\ heap'[ptr].items = new
      /\ \A b \in DOMAIN heap \ {ptr} : heap'[b] = heap[b]
  BY <1>2, <1>3, <1>4, <1>5 DEF Block
<1> HIDE DEF new
<1>7. Contents(v)' = new
  BY <1>1, <1>4, <1>6 DEF Contents
<1>8. ASSUME NEW u \in Usable, u # v
      PROVE  Contents(u)' = Contents(u)
  <2>1. u \in Box /\ Owns(box[u], Capacity[u], heap, refused) /\ Apart
        /\ box[u] \in Containers
    BY <1>1 DEF Usable, VecInv, TypeOK, Sound
  <2>2. box[u].used # 0 => /\ box[u].ptr # null /\ box[u].ptr \in DOMAIN heap
                           /\ box[u].ptr # ptr
    BY <2>1, <1>1, <1>8, VectorAssumption DEF Owns, Apart, Containers, Indices
  <2> QED
    BY <2>2, <1>1, <1>6 DEF Contents
<1>9. Held' = [Held EXCEPT ![v] = new]
  <2>1. Held' = [u \in Box |-> IF u \in moved THEN <<>> ELSE Contents(u)']
    BY <1>1 DEF Held
  <2>2. Held = [u \in Box |-> IF u \in moved THEN <<>> ELSE Contents(u)]
    BY <1>1 DEF Held
  <2>3. \A u \in Box \ {v} : Held'[u] = Held[u]
    BY <2>1, <2>2, <1>8 DEF Usable
  <2>4. Held'[v] = new
    BY <1>1, <1>7, <2>1 DEF Usable
  <2> QED
    BY <2>1, <2>2, <2>3, <2>4
<1>10. Promise!SetItem(v)
  <2>1. Held' = [Held EXCEPT ![v][i + 1] = x]
    BY <1>3, <1>9 DEF new
  <2> QED
    BY <1>3, <1>4, <2>1 DEF Promise!SetItem
<1>11. refused \in BOOLEAN /\ refused' \in BOOLEAN
  BY <1>1 DEF VecInv, TypeOK
<1> QED
  BY <1>1, <1>10, <1>11, Allowed

LEMMA ReservesAsPromised ==
  ASSUME VecInv, NEW v \in Box, Reserve(v)
  PROVE  Promise!Next
<1>1. /\ fault = "none" /\ v \in Usable /\ v \in Dyn /\ v \notin Inp
      /\ moved' = moved /\ fault' = fault
  BY VectorAssumption DEF Reserve, Ready, MayGrowCount, MayGrowBytes
<1>2. PICK n \in Amounts : \/ MayGrowCount(v, n) /\ Grow(v, n * ITEM)
                           \/ MayGrowBytes(v, n) /\ Grow(v, n)
  BY DEF Reserve
<1>3. n \in Nat /\ ITEM \in Nat
  BY VectorAssumption
<1>4. n * ITEM \in Nat
  BY <1>3
<1>5. PICK bytes \in Nat : Grow(v, bytes)
  BY <1>2, <1>3, <1>4
<1>6. PICK a \in Answers(box[v], heap) :
        LET g == Grown(box[v], heap, bytes, a) IN
        /\ box' = [box EXCEPT ![v] = g.c]
        /\ heap' = g.heap
        /\ refused' = (refused \/ a = null)
  BY <1>5 DEF Grow
<1> DEFINE g == Grown(box[v], heap, bytes, a)
<1>7. /\ box[v] \in Containers /\ HeapOK(heap) /\ refused \in BOOLEAN
      /\ Owns(box[v], IdxMax, heap, refused) /\ box[v].ptr \in Addr \cup {null}
  BY <1>1, CapacityBound DEF VecInv, TypeOK, Sound, HeapOK, Homes
<1>8. GrowsWell(box[v], heap, refused, bytes, a, g)
  BY <1>7, GrownWell
<1>9. /\ box' = [box EXCEPT ![v] = g.c] /\ heap' = g.heap
      /\ refused' = (refused \/ a = null)
  BY <1>6
<1> HIDE DEF g
<1>10. StaysHome(v, g.c, g.heap)
  BY <1>1, <1>8 DEF GrowsWell, StaysHome
<1> DEFINE new == IF g.c.used = 0 THEN <<>> ELSE g.heap[g.c.ptr].items
<1>11. Held' = [Held EXCEPT ![v] = new]
  BY <1>1, <1>9, <1>10, HeldAfter
<1>12. /\ Held[v] = Contents(v) /\ Len(Contents(v)) = box[v].used
       /\ Contents(v) \in Seq(Item)
       /\ box[v].ptr # null => Contents(v) = heap[box[v].ptr].items
       /\ box[v].ptr = null => Contents(v) = <<>>
  BY <1>1, ContentsAre, HeldNow
<1>13. new = Held[v]
  BY <1>8, <1>12 DEF GrowsWell
<1> HIDE DEF new
<1>14. UNCHANGED Held
  <2>1. [Held EXCEPT ![v] = Held[v]] = Held
    BY DEF Held
  <2> QED
    BY <1>11, <1>13, <2>1
<1>15. refused' \in BOOLEAN /\ (refused => refused')
  BY <1>7, <1>9
<1> QED
  BY <1>1, <1>7, <1>14, <1>15, Allowed

LEMMA FreesAsPromised ==
  ASSUME VecInv, NEW v \in Box, Free(v)
  PROVE  Promise!Next
<1>1. /\ fault = "none" /\ v \in Usable /\ refused' = refused
      /\ moved' = moved /\ fault' = fault /\ box' = [box EXCEPT ![v] = Flushed(v)]
      /\ box \in [Box -> Containers] /\ refused \in BOOLEAN
  BY DEF Free, Ready, VecInv, TypeOK
<1>2. box'[v] = Flushed(v) /\ \A u \in Box \ {v} : box'[u] = box[u]
  BY <1>1
<1>3. Contents(v)' = <<>>
  BY <1>2 DEF Contents, Flushed
<1>4. \A b \in DOMAIN heap \ {box[v].ptr} : heap'[b] = heap[b]
  BY DEF Free, Without, VecInv, Homes
<1>5. ASSUME NEW u \in Usable, u # v
      PROVE  Contents(u)' = Contents(u)
  <2>1. u \in Box /\ Owns(box[u], Capacity[u], heap, refused) /\ Apart
        /\ box[u] \in Containers
    BY <1>1 DEF Usable, VecInv, TypeOK, Sound
  <2>2. box[u].used # 0 => /\ box[u].ptr # null /\ box[u].ptr \in DOMAIN heap
                           /\ box[u].ptr # box[v].ptr
    BY <2>1, <1>1, <1>5, VectorAssumption DEF Owns, Apart, Containers, Indices
  <2> QED
    BY <2>1, <2>2, <1>2, <1>4, <1>5 DEF Contents
<1>6. Held' = [Held EXCEPT ![v] = <<>>]
  <2>1. Held' = [u \in Box |-> IF u \in moved THEN <<>> ELSE Contents(u)']
    BY <1>1 DEF Held
  <2>2. Held = [u \in Box |-> IF u \in moved THEN <<>> ELSE Contents(u)]
    BY <1>1 DEF Held
  <2>3. \A u \in Box \ {v} : Held'[u] = Held[u]
    BY <2>1, <2>2, <1>5 DEF Usable
  <2>4. Held'[v] = <<>>
    BY <1>3, <2>1
  <2> QED
    BY <2>1, <2>2, <2>3, <2>4
<1>7. Promise!Clear(v)
  BY <1>6 DEF Promise!Clear
<1> QED
  BY <1>1, <1>7, Allowed

(***************************************************************************)
(* Assignment moves the items: what was assigned must not be used again,   *)
(* and holds nothing as far as the promise goes.                           *)
(***************************************************************************)
LEMMA AssignsAsPromised ==
  ASSUME VecInv, NEW v \in Box, NEW u \in Box, Assign(v, u)
  PROVE  Promise!Next
<1>1. /\ fault = "none" /\ v \in Dyn /\ u \in Dyn /\ u \in Usable /\ u # v
      /\ refused' = refused /\ fault' = fault /\ refused \in BOOLEAN
      /\ box' = [box EXCEPT ![v] = box[u]] /\ box \in [Box -> Containers]
      /\ heap' = IF v \in moved THEN heap ELSE Without(heap, box[v].ptr)
      /\ moved' = (moved \ {v}) \cup (IF box[u].ptr = null THEN {} ELSE {u})
  BY DEF Assign, Ready, VecInv, TypeOK
<1>2. /\ box'[v] = box[u] /\ \A w \in Box \ {v} : box'[w] = box[w]
      /\ \A w \in Box \ {v, u} : w \in moved' <=> w \in moved
      /\ v \notin moved' /\ (box[u].ptr # null => u \in moved')
  BY <1>1
<1>3. ASSUME NEW w \in Usable, w # v, box[w].used # 0
      PROVE  /\ box[w].ptr # null /\ heap'[box[w].ptr] = heap[box[w].ptr]
  <2>1. w \in Box /\ Owns(box[w], Capacity[w], heap, refused) /\ Apart
        /\ box[w] \in Containers
    BY <1>1 DEF Usable, VecInv, TypeOK, Sound
  <2>2. box[w].ptr # null /\ box[w].ptr \in DOMAIN heap
    BY <2>1, <1>3, VectorAssumption DEF Owns, Containers, Indices
  <2>3. v \notin moved => box[w].ptr # box[v].ptr
    BY <2>1, <2>2, <1>3 DEF Apart, Usable
  <2> QED
    BY <2>2, <2>3, <1>1 DEF Without
<1>4. Contents(v)' = Contents(u)
  BY <1>1, <1>2, <1>3 DEF Contents
<1>5. ASSUME NEW w \in Usable, w # v
      PROVE  Contents(w)' = Contents(w)
  BY <1>2, <1>3, <1>5 DEF Contents, Usable
<1>6. box[u].ptr = null => Contents(u) = <<>>
  BY <1>1, ContentsAre
<1>7. Held' = [w \in Box |-> IF w \in moved' THEN <<>> ELSE Contents(w)']
  BY <1>1 DEF Held
<1>8. Held = [w \in Box |-> IF w \in moved THEN <<>> ELSE Contents(w)]
  BY <1>1 DEF Held
<1>9. Held'[v] = Held[u]
  BY <1>1, <1>2, <1>4, <1>7, <1>8 DEF Usable
<1>10. Held'[u] = <<>>
  BY <1>1, <1>2, <1>5, <1>6, <1>7
<1>11. \A w \in Box \ {v, u} : Held'[w] = Held[w]
  BY <1>2, <1>5, <1>7, <1>8 DEF Usable
<1>12. Held' = [Held EXCEPT ![v] = Held[u], ![u] = <<>>]
  <2> DEFINE new == [Held EXCEPT ![v] = Held[u], ![u] = <<>>]
  <2>1. DOMAIN Held' = Box /\ DOMAIN new = Box /\ new = [w \in Box |-> new[w]]
    BY <1>7, <1>8
  <2>2. new[u] = <<>> /\ new[v] = Held[u] /\ \A w \in Box \ {v, u} : new[w] = Held[w]
    BY <1>1, <1>8
  <2>3. Held' = [w \in Box |-> Held'[w]]
    BY <1>7
  <2> HIDE DEF new
  <2>4. \A w \in Box : Held'[w] = new[w]
    BY <2>2, <1>9, <1>10, <1>11
  <2>5. Held' = new
    BY <2>1, <2>3, <2>4
  <2> QED
    BY <2>5 DEF new
<1>13. Promise!Move(v, u)
  BY <1>1, <1>12 DEF Promise!Move
<1> QED
  BY <1>1, <1>13, Allowed

LEMMA CopiesAsPromised ==
  ASSUME VecInv, NEW v \in Box, NEW u \in Box, Copy(v, u)
  PROVE  Promise!Next
<1> DEFINE n == box[u].used
<1>1. /\ fault = "none" /\ v \in Usable /\ u \in Usable /\ v \in Dyn /\ v \notin Inp
      /\ moved' = moved /\ fault' = fault /\ box[v] = Flushed(v)
  BY VectorAssumption DEF Copy, Ready
<1>2. /\ box[v] \in Containers /\ HeapOK(heap) /\ refused \in BOOLEAN
      /\ box \in [Box -> Containers] /\ n \in Indices /\ n \in Nat /\ ITEM \in Nat
      /\ Owns(box[v], IdxMax, heap, refused) /\ Capacity[v] = IdxMax
      /\ box[v].ptr = null /\ n <= IdxMax
  BY <1>1, CapacityBound, VectorAssumption
  DEF VecInv, TypeOK, Sound, HeapOK, Containers, Indices, Flushed
<1>3. n * ITEM \in Nat
  BY <1>2
<1>4. PICK a \in Answers(box[v], heap) :
        LET g == Grown(box[v], heap, n * ITEM, a) IN
        /\ refused' = (refused \/ a = null)
        /\ IF g.ok
           THEN /\ box' = [box EXCEPT ![v] = [g.c EXCEPT !.used = n]]
                /\ heap' = CopyInto(g.heap, g.c.ptr, n, u)
           ELSE UNCHANGED <<box, heap>>
  BY DEF Copy
<1> DEFINE g == Grown(box[v], heap, n * ITEM, a)
           c == [g.c EXCEPT !.used = n]
<1>5. GrowsWell(box[v], heap, refused, n * ITEM, a, g)
  BY <1>2, <1>3, GrownWell
<1>6. refused' \in BOOLEAN /\ (refused => refused')
  BY <1>2, <1>4
<1>7. CASE ~g.ok
  <2>1. UNCHANGED Held
    BY <1>1, <1>4, <1>7 DEF Held, Contents
  <2> QED
    BY <2>1, <1>1, <1>2, <1>6, Allowed
<1>8. CASE g.ok
  <2>1. /\ box' = [box EXCEPT ![v] = c] /\ heap' = CopyInto(g.heap, g.c.ptr, n, u)
    BY <1>4, <1>8
  <2> HIDE DEF g
  <2>2. /\ HeapOK(g.heap) /\ g.c.ptr \in DOMAIN g.heap
        /\ g.c \in Containers /\ g.c.ptr \in Addr \cup {null}
        /\ g.c.ptr \notin DOMAIN heap \/ g.c.ptr = box[v].ptr
        /\ \A b \in DOMAIN heap \ {box[v].ptr} : b \in DOMAIN g.heap /\ g.heap[b] = heap[b]
    BY <1>5, <1>8 DEF GrowsWell, Owns
  <2>3. /\ HeapOK(heap') /\ DOMAIN heap' = DOMAIN g.heap
        /\ heap'[g.c.ptr].items = SubSeq(Contents(u), 1, n)
        /\ \A b \in DOMAIN g.heap \ {g.c.ptr} : heap'[b] = g.heap[b]
    BY <1>1, <1>2, <2>1, <2>2, Copied
  <2>4. c \in Containers /\ c.used = n /\ c.ptr = g.c.ptr
    BY <1>2, <2>2 DEF Containers
  <2> HIDE DEF c
  <2>5. StaysHome(v, c, heap')
    BY <2>2, <2>3, <2>4, <1>1, <1>2 DEF StaysHome
  <2> DEFINE new == IF c.used = 0 THEN <<>> ELSE heap'[c.ptr].items
  <2>6. Held' = [Held EXCEPT ![v] = new]
    BY <2>1, <2>5, <1>1, HeldAfter
  <2>7. /\ Held[u] = Contents(u) /\ Contents(u) \in Seq(Item) /\ Len(Contents(u)) = n
    BY <1>1, ContentsAre, HeldNow
  <2>8. Promise!Lesser(Len(Held[u]), Capacity[v]) = n
    BY <2>7, <1>2, VectorAssumption DEF Promise!Lesser
  <2>9. n = 0 => SubSeq(Held[u], 1, n) = <<>>
    BY <2>7
  <2>10. new = SubSeq(Held[u], 1, n)
    BY <2>3, <2>4, <2>7, <2>9
  <2>11. Promise!Copy(v, u)
    BY <2>6, <2>8, <2>10 DEF Promise!Copy
  <2> QED
    BY <2>11, <1>1, <1>2, <1>6, Allowed
<1> QED
  BY <1>7, <1>8

LEMMA FillsAsPromised ==
  ASSUME VecInv, NEW v \in Box, NEW u \in Box, Fill(v, u)
  PROVE  Promise!Next
<1> DEFINE n == Lesser(Capacity[v], box[u].used)
           c == [box[v] EXCEPT !.used = n]
<1>1. /\ fault = "none" /\ v \in Usable /\ u \in Usable /\ v \in Inp /\ v \notin Dyn
      /\ moved' = moved /\ fault' = fault /\ refused' = refused /\ refused \in BOOLEAN
  BY VectorAssumption DEF Fill, Ready, Usable, VecInv, TypeOK
<1>2. /\ box[v] \in Containers /\ box[u] \in Containers /\ HeapOK(heap)
      /\ box \in [Box -> Containers] /\ Capacity[v] \in Nat /\ Capacity[v] <= IdxMax
      /\ IdxMax \in Nat /\ box[v].ptr = v /\ box[v].allocated = Capacity[v]
      /\ v \in DOMAIN heap /\ heap[v].size = Capacity[v] * ITEM
  BY <1>1, CapacityBound, VectorAssumption DEF VecInv, TypeOK, HeapOK, Homes
<1>3. n \in Indices /\ n \in Nat /\ n <= box[u].used
  BY <1>2 DEF Containers, Indices, Lesser
<1>4. /\ Held[u] = Contents(u) /\ Contents(u) \in Seq(Item)
      /\ Len(Contents(u)) = box[u].used /\ box[u].used \in Nat
  BY <1>1, ContentsAre, HeldNow
<1>5. Promise!Lesser(Len(Held[u]), Capacity[v]) = n
  BY <1>2, <1>4 DEF Promise!Lesser, Lesser
<1>6. box' = [box EXCEPT ![v] = c] /\ heap' = CopyInto(heap, v, n, u)
  <2>1. box' = [box EXCEPT ![v].used = n] /\ heap' = CopyInto(heap, v, n, u)
    BY DEF Fill
  <2> QED
    BY <2>1, <1>2
<1> HIDE DEF n
<1>7. /\ HeapOK(heap') /\ DOMAIN heap' = DOMAIN heap
      /\ heap'[v].size = heap[v].size /\ heap'[v].items = SubSeq(Contents(u), 1, n)
      /\ \A b \in DOMAIN heap \ {v} : heap'[b] = heap[b]
  BY <1>1, <1>2, <1>3, <1>6, Copied
<1>8. c \in Containers /\ c.used = n /\ c.ptr = v /\ c.allocated = Capacity[v]
  BY <1>2, <1>3 DEF Containers
<1> HIDE DEF c
<1>9. StaysHome(v, c, heap')
  BY <1>1, <1>2, <1>7, <1>8 DEF StaysHome
<1> DEFINE new == IF c.used = 0 THEN <<>> ELSE heap'[c.ptr].items
<1>10. Held' = [Held EXCEPT ![v] = new]
  BY <1>1, <1>6, <1>9, HeldAfter
<1>11. n = 0 => SubSeq(Held[u], 1, n) = <<>>
  BY <1>4
<1>12. new = SubSeq(Held[u], 1, n)
  BY <1>4, <1>7, <1>8, <1>11
<1>13. Promise!Copy(v, u)
  BY <1>5, <1>10, <1>12 DEF Promise!Copy
<1> QED
  BY <1>1, <1>13, Allowed

LEMMA RestsAsPromised ==
  ASSUME VecInv, (\E v, u \in Box : Range(v, u)) \/ RangeDone \/ UNCHANGED vars
  PROVE  UNCHANGED Promise!vars
BY DEF Range, RangeDone, vars, Promise!vars, Held, Contents

LEMMA PromiseStep ==
  VecInv /\ [Next]_vars => [Promise!Next]_Promise!vars
<1> SUFFICES ASSUME VecInv, [Next]_vars PROVE Promise!Next \/ UNCHANGED Promise!vars
  OBVIOUS
<1>1. CASE \E v \in Box : AppendValue(v) \/ Set(v) \/ Reserve(v) \/ Free(v)
  BY <1>1, AppendsAsPromised, SetsAsPromised, ReservesAsPromised, FreesAsPromised
<1>2. CASE \E v \in Box : Misuse(v)
  <2>1. fault = "none" /\ fault' = "moved"
    BY <1>2 DEF Misuse, Ready
  <2> QED
    BY <2>1, Breaks
<1>3. CASE \E v, u \in Box : AppendItem(v, u) \/ Assign(v, u) \/ Copy(v, u) \/ Fill(v, u)
  BY <1>3, AppendsAsPromised, AssignsAsPromised, CopiesAsPromised, FillsAsPromised
<1>4. CASE RangeItem
  BY <1>4, RangeAppendsAsPromised
<1>5. CASE (\E v, u \in Box : Range(v, u)) \/ RangeDone \/ UNCHANGED vars
  BY <1>5, RestsAsPromised
<1> QED
  BY <1>1, <1>2, <1>3, <1>4, <1>5 DEF Next, Faulty

(***************************************************************************)
(* Until memory is refused or a rule broken, the containers are sequences  *)
(* of their own that only their own calls change, however many there are,  *)
(* wherever realloc(3) puts their blocks and whatever their sizes.         *)
(***************************************************************************)
THEOREM VectorsImplement == Spec => Implements
<1>1. Init => Promise!Init
  <2> SUFFICES ASSUME Init PROVE Promise!Init
    OBVIOUS
  <2>1. /\ \A v \in Box : box[v].used = 0
        /\ moved = {} /\ refused = FALSE /\ fault = "none"
    BY DEF Init, Flushed
  <2>2. Held = Promise!Nothing
    BY <2>1 DEF Held, Contents, Promise!Nothing
  <2> QED
    BY <2>1, <2>2 DEF Promise!Init
<1> QED
  BY <1>1, PromiseStep, VectorsInvariant, PTL DEF Spec, Implements, Promise!Spec

(***************************************************************************)
(* The append of a range: what it has appended so far, and for a range     *)
(* that the source has, that end and count fit together.                   *)
(***************************************************************************)
Loaded ==
  /\ job.begin <= job.i /\ job.base <= box[job.to].used
  /\ box[job.to].used - job.base = job.i - job.begin
  /\ job.at = "out" => IsInv(job.to, job.k)
  /\ job.at = "loop" => \/ job.i = job.begin /\ job.k = IdxInv
                        \/ ~IsInv(job.to, job.k)
  /\ job.within =>
       /\ job.i <= job.end /\ job.end <= box[job.from].used
       /\ job.count = job.end - job.begin
       /\ \A j \in 1 .. job.i - job.begin :
            Contents(job.to)[job.base + j] = Contents(job.from)[job.begin + j]

RangeInv == VecInv /\ (fault = "none" /\ job.at # "idle" => Loaded)

LEMMA InvalidIndex ==
  ASSUME NEW v \in Box
  PROVE  /\ IsInv(v, IdxInv)
         /\ \A k \in Nat : k < Capacity[v] => ~IsInv(v, k)
<1>1. /\ Capacity[v] \in Nat /\ Capacity[v] <= IdxMax /\ (v \in Dyn => Capacity[v] = IdxMax)
      /\ IdxInv \in Nat /\ IdxMax \in Nat /\ IdxMax < IdxInv
      /\ v \in Dyn \/ v \in Inp
  BY CapacityBound, VectorAssumption DEF Box
<1> QED
  BY <1>1 DEF IsInv

LEMMA JobNow ==
  ASSUME VecInv, fault = "none", job.at # "idle"
  PROVE  /\ job \in Jobs /\ job.to \in Usable /\ job.from \in Usable
         /\ job.to \in Box /\ job.from \in Box
         /\ job.begin \in Nat /\ job.end \in Nat /\ job.i \in Nat /\ job.k \in Nat
         /\ job.base \in Nat /\ job.count \in Nat
         /\ IdxInv \in Nat /\ IdxMax \in Nat
BY VectorAssumption DEF VecInv, TypeOK, JobUsable, Usable, Jobs, Counts, Idle

LEMMA RangeLoads ==
  ASSUME RangeInv, NEW v \in Box, NEW u \in Box, Range(v, u)
  PROVE  Loaded'
<1>1. /\ fault = "none" /\ {u, v} \subseteq Usable /\ box' = box /\ heap' = heap /\ VecInv
  BY DEF Range, Ready, RangeInv
<1>2. PICK begin \in 0 .. box[u].used - 1, n \in Amounts \cup {box[u].used} :
        LET end == (begin + n) % (IdxInv + 1) IN
        job' = [at |-> "loop", to |-> v, from |-> u, begin |-> begin, end |-> end,
                count |-> IF end > box[u].used THEN box[u].used - begin ELSE n,
                i |-> begin, k |-> IdxInv, base |-> box[v].used,
                within |-> begin + n <= box[u].used]
  BY DEF Range
<1> DEFINE end == (begin + n) % (IdxInv + 1)
           count == IF end > box[u].used THEN box[u].used - begin ELSE n
<1>3. /\ job'.at = "loop" /\ job'.to = v /\ job'.from = u /\ job'.begin = begin
      /\ job'.end = end /\ job'.count = count /\ job'.i = begin /\ job'.k = IdxInv
      /\ job'.base = box[v].used /\ (job'.within => begin + n <= box[u].used)
  BY <1>2
<1>4. /\ box[u].used \in Indices /\ box[v].used \in Nat /\ box[u].used \in Nat
      /\ n \in Nat /\ begin \in Nat /\ IdxInv \in Nat /\ box[u].used <= IdxInv
  BY <1>1, VectorAssumption DEF VecInv, TypeOK, Containers, Indices
<1>5. begin + n <= box[u].used => /\ end = begin + n /\ count = n
  BY <1>4
<1> HIDE DEF end, count
<1>6. ASSUME job'.within
      PROVE  /\ job'.i <= job'.end /\ job'.end <= box'[job'.from].used
             /\ job'.count = job'.end - job'.begin
  <2>1. /\ job'.i = begin /\ job'.end = begin + n /\ job'.count = n
        /\ job'.begin = begin /\ box'[job'.from].used = box[u].used
        /\ begin + n <= box[u].used
    BY <1>1, <1>3, <1>5, <1>6
  <2> QED
    BY <2>1, <1>4
<1>7. job'.i - job'.begin = 0 /\ box'[job'.to].used - job'.base = 0
      /\ job'.begin <= job'.i /\ job'.base <= box'[job'.to].used
  BY <1>1, <1>3, <1>4
<1> QED
  BY <1>3, <1>6, <1>7 DEF Loaded

(***************************************************************************)
(* What the two containers of the range hold after one more append.        *)
(***************************************************************************)
LEMMA PushedContents ==
  ASSUME VecInv, fault = "none", fault' = "none", NEW v \in Usable, NEW source,
         Readable(source), NEW a \in AppendAnswers(v), Push(v, source, a), moved' = moved
  PROVE  LET k == Appended(v, source, a).index IN
         /\ \/ k = IdxInv /\ box'[v].used = box[v].used /\ Contents(v)' = Contents(v)
            \/ /\ k = box[v].used /\ k < Capacity[v] /\ box'[v].used = box[v].used + 1
               /\ ItemOf(source) \in Item
               /\ Contents(v)' = Append(Contents(v), ItemOf(source))
         /\ \A u \in Usable \ {v} : box'[u] = box[u] /\ Contents(u)' = Contents(u)
<1> DEFINE r == Appended(v, source, a)
<1>1. /\ box' = [box EXCEPT ![v] = r.c] /\ heap' = r.heap /\ fault' = r.fault
  BY DEF Push
<1>2. /\ StaysHome(v, r.c, r.heap)
      /\ Owns(r.c, Capacity[v], r.heap, refused \/ a = null)
      /\ \/ /\ r.index = IdxInv /\ r.c.used = box[v].used
            /\ r.c.ptr # null => r.heap[r.c.ptr].items = Contents(v)
         \/ /\ r.index = box[v].used /\ r.index < Capacity[v]
            /\ r.c.used = box[v].used + 1 /\ ItemOf(source) \in Item
            /\ r.heap[r.c.ptr].items = Append(Contents(v), ItemOf(source))
  BY <1>1, AppendsWell
<1> HIDE DEF r
<1>3. /\ v \in Box /\ box \in [Box -> Containers] /\ Usable \subseteq Box
      /\ Contents(v) \in Seq(Item) /\ Len(Contents(v)) = box[v].used
      /\ box[v].used \in Nat
  BY ContentsAre DEF Usable, VecInv, TypeOK
<1>4. box'[v] = r.c /\ \A u \in Box \ {v} : box'[u] = box[u]
  BY <1>1, <1>3
<1> DEFINE new == IF r.c.used = 0 THEN <<>> ELSE r.heap[r.c.ptr].items
<1>5. Contents(v)' = new
  BY <1>1, <1>4 DEF Contents
<1>6. ASSUME r.c.used = box[v].used, r.c.ptr # null => r.heap[r.c.ptr].items = Contents(v)
      PROVE  new = Contents(v)
  <2>1. CASE r.c.used = 0
    BY <2>1, <1>3, <1>6
  <2>2. CASE r.c.used # 0
    <3>1. r.c.ptr # null
      BY <2>2, <1>2, VectorAssumption DEF Owns, StaysHome, Containers, Indices
    <3> QED
      BY <3>1, <2>2, <1>6
  <2> QED
    BY <2>1, <2>2
<1>7. ASSUME r.c.used = box[v].used + 1 PROVE new = r.heap[r.c.ptr].items
  BY <1>3, <1>7
<1>8. Held' = [Held EXCEPT ![v] = new]
  BY <1>1, <1>2, HeldAfter
<1> HIDE DEF new
<1>9. ASSUME NEW u \in Usable \ {v} PROVE Contents(u)' = Contents(u)
  <2>1. Held[u] = Contents(u) /\ DOMAIN Held = Box
    BY HeldNow
  <2>2. Held'[u] = Contents(u)' /\ u \in Box
    BY DEF Held, Usable
  <2>3. Held'[u] = Held[u]
    BY <1>8, <2>1, <2>2
  <2> QED
    BY <2>1, <2>2, <2>3
<1> QED
  BY <1>2, <1>3, <1>4, <1>5, <1>6, <1>7, <1>9 DEF r

LEMMA RangeItemLoads ==
  ASSUME RangeInv, RangeItem, fault' = "none"
  PROVE  Loaded'
<1>1. PICK v, u : v = job.to /\ u = job.from
  OBVIOUS
<1>2. /\ fault = "none" /\ job.at = "loop" /\ job.at # "idle" /\ job.i < job.end
      /\ moved' = moved /\ VecInv /\ Loaded
  BY DEF RangeItem, RangeInv
<1>3. /\ job \in Jobs /\ v \in Usable /\ u \in Usable /\ v \in Box /\ u \in Box
      /\ job.begin \in Nat /\ job.end \in Nat /\ job.i \in Nat /\ job.k \in Nat
      /\ job.base \in Nat /\ job.count \in Nat
  BY <1>1, <1>2, JobNow
<1>4. Readable(RangeSource)
  BY <1>1, <1>2, <1>3, RangeReads
<1>5. PICK a \in AppendAnswers(v) :
        LET k == Appended(v, RangeSource, a).index IN
        /\ Push(v, RangeSource, a)
        /\ job' = IF IsInv(v, k) THEN [job EXCEPT !.k = k, !.at = "out"]
                  ELSE [job EXCEPT !.k = k, !.i = @ + 1]
  BY <1>1 DEF RangeItem
<1>6. PICK source, k : source = RangeSource /\ k = Appended(v, source, a).index
  OBVIOUS
<1>7. PICK x : x = ItemOf(source)
  OBVIOUS
<1>8. /\ \/ k = IdxInv /\ box'[v].used = box[v].used /\ Contents(v)' = Contents(v)
         \/ /\ k = box[v].used /\ k < Capacity[v] /\ box'[v].used = box[v].used + 1
            /\ x \in Item /\ Contents(v)' = Append(Contents(v), x)
      /\ \A w \in Usable \ {v} : box'[w] = box[w] /\ Contents(w)' = Contents(w)
  BY <1>2, <1>3, <1>4, <1>5, <1>6, <1>7, PushedContents
<1>9. job' = IF IsInv(v, k) THEN [job EXCEPT !.k = k, !.at = "out"]
             ELSE [job EXCEPT !.k = k, !.i = @ + 1]
  BY <1>5, <1>6
<1>10. /\ Contents(v) \in Seq(Item) /\ Len(Contents(v)) = box[v].used /\ box[v].used \in Nat
       /\ Contents(u) \in Seq(Item) /\ Len(Contents(u)) = box[u].used /\ box[u].used \in Nat
  BY <1>2, <1>3, ContentsAre
<1>11. /\ job.begin <= job.i /\ job.base <= box[v].used
       /\ box[v].used - job.base = job.i - job.begin
       /\ job.within =>
            /\ job.end <= box[u].used /\ job.count = job.end - job.begin
            /\ \A j \in 1 .. job.i - job.begin :
                 Contents(v)[job.base + j] = Contents(u)[job.begin + j]
  BY <1>1, <1>2 DEF Loaded
<1>12. CASE k = IdxInv /\ box'[v].used = box[v].used /\ Contents(v)' = Contents(v)
  <2>1. IsInv(v, k)
    BY <1>3, <1>12, InvalidIndex
  <2>2. job' = [job EXCEPT !.k = k, !.at = "out"]
    BY <1>9, <2>1
  <2>3. /\ job'.at = "out" /\ job'.to = v /\ job'.from = u /\ job'.begin = job.begin
        /\ job'.end = job.end /\ job'.i = job.i /\ job'.k = k /\ job'.base = job.base
        /\ job'.count = job.count /\ job'.within = job.within
    BY <2>2, <1>1, <1>3 DEF Jobs
  <2>4. box'[u].used = box[u].used /\ Contents(u)' = Contents(u)
    <3>1. CASE u = v
      BY <3>1, <1>12
    <3>2. CASE u # v
      BY <3>2, <1>3, <1>8
    <3> QED
      BY <3>1, <3>2
  <2> QED
    BY <2>1, <2>3, <2>4, <1>2, <1>3, <1>10, <1>11, <1>12 DEF Loaded
<1>13. CASE /\ k = box[v].used /\ k < Capacity[v] /\ box'[v].used = box[v].used + 1
            /\ x \in Item /\ Contents(v)' = Append(Contents(v), x)
  <2>1. ~IsInv(v, k)
    BY <1>3, <1>10, <1>13, InvalidIndex
  <2>2. job' = [job EXCEPT !.k = k, !.i = @ + 1]
    BY <1>9, <2>1
  <2>3. /\ job'.at = "loop" /\ job'.to = v /\ job'.from = u /\ job'.begin = job.begin
        /\ job'.end = job.end /\ job'.i = job.i + 1 /\ job'.k = k /\ job'.base = job.base
        /\ job'.count = job.count /\ job'.within = job.within
    BY <2>2, <1>1, <1>2, <1>3 DEF Jobs
  <2>4. /\ box[u].used <= box'[u].used
        /\ \A i \in 1 .. box[u].used : Contents(u)'[i] = Contents(u)[i]
    <3>1. CASE u = v
      BY <3>1, <1>10, <1>13
    <3>2. CASE u # v
      BY <3>2, <1>3, <1>8, <1>10
    <3> QED
      BY <3>1, <3>2
  <2>5. ASSUME job.within PROVE x = Contents(u)[job.i + 1]
    <3>1. job.i < box[u].used
      BY <1>2, <1>3, <1>10, <1>11, <2>5
    <3>2. source = AsPlace(box[u].ptr, job.i)
      BY <3>1, <1>1, <1>6 DEF RangeSource
    <3>3. box[u].ptr # null /\ Contents(u) = heap[box[u].ptr].items
      <4>1. box[u].ptr = null => box[u].used = 0
        BY <1>2, <1>3, ContentsAre
      <4> QED
        BY <4>1, <3>1, <1>2, <1>3, <1>10, ContentsAre
    <3> QED
      BY <3>2, <3>3, <1>7 DEF ItemOf, AsPlace
  <2>6. ASSUME job.within, NEW j \in 1 .. (job.i + 1) - job.begin
        PROVE  Contents(v)'[job.base + j] = Contents(u)'[job.begin + j]
    <3>0. job.i < box[u].used
      BY <1>2, <1>3, <1>10, <1>11, <2>6
    <3>1. job.begin + j \in 1 .. box[u].used
      BY <3>0, <1>3, <1>10
    <3>2. Contents(u)'[job.begin + j] = Contents(u)[job.begin + j]
      BY <2>4, <3>1
    <3>3. CASE j = job.i + 1 - job.begin
      <4>0. box[v].used - job.base = job.i - job.begin
        BY <1>11
      <4>1. job.base + j = box[v].used + 1 /\ job.begin + j = job.i + 1
        <5>1. /\ job.base \in Nat /\ job.i \in Nat /\ job.begin \in Nat
              /\ box[v].used \in Nat
          BY <1>3, <1>10
        <5> QED
          BY <5>1, <3>3, <4>0
      <4>2. Contents(v)'[box[v].used + 1] = x
        BY <1>10, <1>13
      <4> QED
        BY <4>1, <4>2, <3>2, <2>5, <2>6
    <3>4. CASE j \in 1 .. job.i - job.begin
      <4>0. box[v].used - job.base = job.i - job.begin
        BY <1>11
      <4>1. job.base + j \in 1 .. box[v].used
        BY <3>4, <4>0, <1>3, <1>10, SMTT(30)
      <4>2. Contents(v)'[job.base + j] = Contents(v)[job.base + j]
        BY <4>1, <1>10, <1>13
      <4> QED
        BY <4>2, <3>2, <3>4, <1>11, <2>6
    <3>5. j = job.i + 1 - job.begin \/ j \in 1 .. job.i - job.begin
      BY <1>3, <2>6
    <3> QED
      BY <3>3, <3>4, <3>5
  <2>7. /\ job'.begin <= job'.i /\ job'.base <= box'[v].used
        /\ box'[v].used - job'.base = job'.i - job'.begin
    <3>1. /\ job.begin <= job.i /\ job.base <= box[v].used
          /\ box[v].used - job.base = job.i - job.begin
      BY <1>11
    <3>2. box'[v].used = box[v].used + 1
      BY <1>13
    <3>3. /\ job.base \in Nat /\ job.i \in Nat /\ job.begin \in Nat
          /\ box[v].used \in Nat
      BY <1>3, <1>10
    <3> QED
      BY <3>1, <3>2, <3>3, <2>3
  <2>8. ASSUME job.within
        PROVE  /\ job'.i <= job'.end /\ job'.end <= box'[u].used
               /\ job'.count = job'.end - job'.begin
    <3>1. job.end <= box[u].used /\ job.count = job.end - job.begin
      BY <1>11, <2>8
    <3>2. box'[u].used \in Nat
      <4>1. u = v \/ box'[u].used = box[u].used
        BY <1>3, <1>8
      <4> QED
        BY <4>1, <1>10, <1>13
    <3> QED
      BY <3>1, <3>2, <2>3, <2>4, <1>2, <1>3, <1>10
  <2>9. ASSUME job.within, NEW j \in 1 .. job'.i - job'.begin
        PROVE  Contents(v)'[job'.base + j] = Contents(u)'[job'.begin + j]
    <3>1. j \in 1 .. (job.i + 1) - job.begin
      BY <2>3, <2>9
    <3> QED
      BY <3>1, <2>3, <2>6, <2>9
  <2> QED
    BY <2>1, <2>3, <2>7, <2>8, <2>9 DEF Loaded
<1> QED
  BY <1>8, <1>12, <1>13

(***************************************************************************)
(* Only the append of a range starts, moves on or ends a job.              *)
(***************************************************************************)
LEMMA RangeStep ==
  RangeInv /\ [Next]_vars => RangeInv'
<1> SUFFICES ASSUME RangeInv, [Next]_vars PROVE RangeInv'
  OBVIOUS
<1>1. VecInv'
  BY VecStep DEF RangeInv
<1> SUFFICES ASSUME fault' = "none", job'.at # "idle" PROVE Loaded'
  BY <1>1 DEF RangeInv
<1>2. CASE \E v \in Box : AppendValue(v) \/ Set(v) \/ Reserve(v) \/ Free(v) \/ Misuse(v)
  BY <1>2 DEF AppendValue, Set, Reserve, Free, Misuse, Ready
<1>3. CASE \E v, u \in Box : AppendItem(v, u) \/ Assign(v, u) \/ Copy(v, u) \/ Fill(v, u)
  BY <1>3 DEF AppendItem, Assign, Copy, Fill, Ready
<1>4. CASE \E v, u \in Box : Range(v, u)
  BY <1>4, RangeLoads
<1>5. CASE RangeItem
  BY <1>5, RangeItemLoads
<1>6. CASE RangeDone
  BY <1>6 DEF RangeDone, Idle
<1>7. CASE UNCHANGED vars
  <2>1. fault = "none" /\ job.at # "idle"
    BY <1>7 DEF vars
  <2>2. Loaded
    BY <2>1 DEF RangeInv
  <2> QED
    BY <2>2, <1>7 DEF Loaded, Contents, vars
<1> QED
  BY <1>2, <1>3, <1>4, <1>5, <1>6, <1>7 DEF Next, Faulty

Piece(q, m, n) == [j \in 1 .. n |-> q[m + j]]

LEMMA Segment ==
  ASSUME NEW S, NEW q \in Seq(S), NEW m \in Nat, NEW n \in Nat, m + n <= Len(q)
  PROVE  /\ SubSeq(q, m + 1, m + n) = Piece(q, m, n)
         /\ Len(SubSeq(q, m + 1, m + n)) = n
<1> DEFINE r == SubSeq(q, m + 1, m + n)
<1>1. m + 1 \in Int /\ m + n \in Int /\ 1 + (m + n) - (m + 1) = n
  OBVIOUS
<1>2. \A j \in 1 .. n : m + j \in 1 .. Len(q)
  OBVIOUS
<1>3. r \in Seq(S) /\ Len(r) = n /\ \A j \in 1 .. n : r[j] = q[m + j]
  BY <1>1, <1>2
<1> HIDE DEF r
<1>4. r = [j \in 1 .. n |-> r[j]]
  BY <1>3
<1>5. r = Piece(q, m, n)
  BY <1>3, <1>4 DEF Piece
<1> QED
  BY <1>3, <1>5 DEF r

LEMMA RangeSaysSo ==
  RangeInv => RangeExact
<1> SUFFICES ASSUME RangeInv, fault = "none", job.at # "idle",
                    NEW items, items = SubSeq(Contents(job.to), job.base + 1, box[job.to].used)
             PROVE  /\ job.within => items = SubSeq(Contents(job.from), job.begin + 1, job.i)
                    /\ job.within /\ (job.at = "out" \/ job.i >= job.end) =>
                         RangeResult = Len(items)
  BY DEF RangeExact
<1>1. PICK v, u : v = job.to /\ u = job.from
  OBVIOUS
<1> DEFINE s == Contents(v)
           t == Contents(u)
           n == job.i - job.begin
<1>2. VecInv /\ Loaded /\ job \in Jobs
  BY JobNow DEF RangeInv
<1>3. /\ v \in Usable /\ u \in Usable /\ v \in Box
      /\ job.begin \in Nat /\ job.end \in Nat /\ job.i \in Nat
      /\ job.base \in Nat /\ job.count \in Nat
  BY <1>1, <1>2, JobNow
<1>4. /\ s \in Seq(Item) /\ Len(s) = box[v].used /\ box[v].used \in Nat
      /\ t \in Seq(Item) /\ Len(t) = box[u].used /\ box[u].used \in Nat
  BY <1>2, <1>3, ContentsAre
<1>5. /\ job.begin <= job.i /\ job.base <= Len(s) /\ Len(s) - job.base = n
      /\ items = SubSeq(s, job.base + 1, Len(s))
      /\ job.within =>
           /\ job.i <= job.end /\ job.end <= Len(t) /\ job.count = job.end - job.begin
           /\ \A j \in 1 .. n : s[job.base + j] = t[job.begin + j]
  BY <1>1, <1>2, <1>4 DEF Loaded
<1>6. /\ job.at = "out" => IsInv(v, job.k)
      /\ job.at = "loop" => \/ job.i = job.begin /\ job.k = IdxInv
                            \/ ~IsInv(v, job.k)
      /\ job.at \in {"loop", "out"}
  BY <1>1, <1>2 DEF Loaded, Jobs
<1>7. RangeResult = IF IsInv(v, job.k) THEN n ELSE job.count
  BY <1>1 DEF RangeResult
<1> HIDE DEF s, t
<1>8. n \in Nat
  BY <1>3, <1>5
<1>9. /\ items = Piece(s, job.base, n) /\ Len(items) = n
  <2>1. Len(s) = job.base + n /\ job.base + n <= Len(s)
    BY <1>3, <1>4, <1>5, <1>8
  <2>2. /\ n \in Nat /\ job.base \in Nat /\ s \in Seq(Item)
        /\ items = SubSeq(s, job.base + 1, Len(s))
    BY <1>3, <1>4, <1>5, <1>8
  <2> HIDE DEF n
  <2>3. /\ SubSeq(s, job.base + 1, job.base + n) = Piece(s, job.base, n)
        /\ Len(SubSeq(s, job.base + 1, job.base + n)) = n
    BY <2>1, <2>2, Segment
  <2>4. items = SubSeq(s, job.base + 1, job.base + n)
    BY <2>1, <2>2
  <2> QED
    BY <2>3, <2>4
<1>10. ASSUME job.within PROVE items = SubSeq(t, job.begin + 1, job.i)
  <2>1. job.i = job.begin + n /\ job.begin + n <= Len(t)
    BY <1>3, <1>4, <1>5, <1>10, SMTT(30)
  <2>2. /\ n \in Nat /\ job.begin \in Nat /\ t \in Seq(Item)
        /\ job.begin + n <= Len(t)
    BY <1>3, <1>4, <1>8, <2>1
  <2> HIDE DEF n
  <2>3. /\ SubSeq(t, job.begin + 1, job.begin + n) = Piece(t, job.begin, n)
        /\ Len(SubSeq(t, job.begin + 1, job.begin + n)) = n
    BY <2>2, Segment
  <2>4. SubSeq(t, job.begin + 1, job.i) = SubSeq(t, job.begin + 1, job.begin + n)
    BY <2>1
  <2>5. Piece(s, job.base, n) = Piece(t, job.begin, n)
    BY <1>5, <1>10 DEF Piece
  <2> QED
    BY <1>9, <2>3, <2>4, <2>5
<1>11. ASSUME job.within, job.at = "out" \/ job.i >= job.end
       PROVE  RangeResult = n
  <2>1. CASE IsInv(v, job.k)
    BY <1>7, <2>1
  <2>2. CASE ~IsInv(v, job.k)
    <3>1. job.at = "loop" /\ job.i = job.end
      BY <1>3, <1>5, <1>6, <1>11, <2>2
    <3> QED
      BY <3>1, <1>5, <1>7, <1>11, <2>2
  <2> QED
    BY <2>1, <2>2
<1> QED
  BY <1>1, <1>9, <1>10, <1>11 DEF t

(***************************************************************************)
(* RangeExact: whatever the containers, the range and the answers of       *)
(* realloc(3), the append of a range that the source has appends an        *)
(* initial part of it and returns how long that is (dynmem.hh:185-201).    *)
(***************************************************************************)
THEOREM RangeExactHolds == Spec => []RangeExact
<1>1. Init => RangeInv
  BY VecInit DEF Init, Idle, RangeInv
<1> QED
  BY <1>1, RangeStep, RangeSaysSo, PTL DEF Spec

(***************************************************************************)
(* A part and the space that sets it off.                                  *)
(***************************************************************************)
LEMMA SpacedNat == \A n \in Nat : Spaced(n) \in Nat
BY DEF Spaced

(***************************************************************************)
(* vlog_stderr never writes behind its array nor cuts the text, whatever   *)
(* the lengths of its parts: the padding pays for the NUL of vsnprintf     *)
(* when there is no suffix.                                                *)
(***************************************************************************)
LEMMA MessageFitsAlways ==
  ASSUME NEW m \in Message
  PROVE  MessageFits(m)
<1>1. m.ts \in Nat /\ m.args \in Nat /\ Spaced(m.pre) \in Nat /\ Spaced(m.suf) \in Nat
  <2>1. m.ts \in Nat /\ m.pre \in Nat /\ m.args \in Nat /\ m.suf \in Nat
    BY LogAssumption DEF Message
  <2> QED
    BY <2>1, SpacedNat
<1>2. m.args + 1 <= TextRoom(m)
  BY <1>1 DEF TextRoom, BufLen, TextAt
<1>3. Written(m) <= BufLen(m)
  BY <1>1 DEF Written, SuffixAt, BufLen, TextAt
<1> QED
  BY <1>2, <1>3 DEF MessageFits

LEMMA ErrorFitsAlways ==
  ASSUME NEW head \in Nat, NEW path \in Nat, NEW text \in Nat
  PROVE  ErrorFits(head, path, text)
<1> SUFFICES ASSUME path <= PATH_MAX, head + text < Plain
             PROVE  ErrorEnd(head, path, text) <= ErrorSize(path > 0)
  BY DEF ErrorFits
<1> USE LogAssumption
<1>1. CASE path = 0
  BY <1>1 DEF ErrorEnd, ErrorSize
<1>2. CASE path > 0
  BY <1>2 DEF ErrorEnd, ErrorSize
<1> QED
  BY <1>1, <1>2

(***************************************************************************)
(* No message and no text of an error is longer than its array, for every  *)
(* length of its parts and behind any path that the system takes.          *)
(***************************************************************************)
THEOREM MessagesFitAlways == LogSpec => []MessagesFit
<1>1. Call => MessagesFit
  <2> SUFFICES ASSUME Call PROVE MessagesFit
    OBVIOUS
  <2>1. CASE logged \in Message
    <3>1. logged.of = "message" /\ MessageFits(logged)
      BY <2>1, MessageFitsAlways DEF Message
    <3> QED
      BY <3>1 DEF MessagesFit
  <2>2. CASE logged \in Error
    <3>1. logged.of = "error" /\ logged.head \in Nat /\ logged.path \in Nat /\ logged.text \in Nat
      BY <2>2, LogAssumption DEF Error
    <3> QED
      BY <3>1, ErrorFitsAlways DEF MessagesFit
  <2> QED
    BY <2>1, <2>2 DEF Call
<1>2. Call /\ [Call']_logged => Call'
  BY DEF Call
<1> QED
  BY <1>1, <1>2, PTL DEF LogSpec
=============================================================================
