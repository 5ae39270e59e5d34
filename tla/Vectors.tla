------------------------------- MODULE Vectors -------------------------------
(***************************************************************************)
(* The containers of include/rockdrilla/uvector under any client: dynmem   *)
(* (dynmem.hh), which keeps its items in a block from realloc(3), and      *)
(* inplace (inplace.hh), which has room for a fixed number.  Module StrVec *)
(* has the strings built on dynmem.                                        *)
(*                                                                         *)
(* Both are a number of items, a capacity and a block; the block of an     *)
(* inplace is the array inside of it.  A block holds the items that were   *)
(* written to it, which no container has twice or in gaps.  After a fault  *)
(* nothing more can be said.                                               *)
(***************************************************************************)
EXTENDS Integers, Sequences

CONSTANTS
  Dyn,       \* the dynmem objects
  Inp,       \* the inplace objects
  Value,     \* the items that clients append, without Zero
  Addr,      \* where realloc(3) may put a block
  ITEM,      \* align_size: the bytes of an item
  BLOCK,     \* memfun_block_size()
  GROWTH,    \* growth: the bytes that append() asks for
  IdxBits,   \* r_idx_bits: the width of index_t
  FENCE,     \* fence_bits
  MaxItems,  \* max_elements, a function on Inp
  Amounts,   \* the counts and the numbers of bytes that clients ask for
  MayFail    \* realloc(3) may fail

Zero == 0       \* an item of zero bytes: append(nullptr)
null == "null"
Item == Value \cup {Zero}
Box == Dyn \cup Inp

Lesser(m, n) == IF m < n THEN m ELSE n

(***************************************************************************)
(* base.hh: idx_max, idx_inv, is_inv, is_wfall; inplace has a limit of its *)
(* own.                                                                    *)
(***************************************************************************)
IdxInv == 2^IdxBits - 1
IdxMax == 2^(IdxBits - FENCE) - 1
Capacity == [v \in Box |-> IF v \in Inp THEN Lesser(MaxItems[v], IdxMax)
                           ELSE IdxMax]
IsInv(v, i) == IF v \in Inp THEN i >= Capacity[v] ELSE i > IdxMax
IsWFall(i) == i >= 2^(IdxBits - FENCE - 1)

ASSUME VectorAssumption ==
  /\ Dyn \cap Inp = {} /\ Addr \cap Inp = {}
  /\ Zero \notin Value
  /\ null \notin Addr \cup Inp
  /\ ITEM \in Nat \ {0} /\ BLOCK \in Nat \ {0}
  /\ GROWTH \in Nat /\ GROWTH >= ITEM
  /\ IdxBits \in Nat /\ FENCE \in Nat \ {0} /\ FENCE + 1 < IdxBits
  /\ IdxInv \in Nat /\ IdxMax \in 1 .. IdxInv - 1
  /\ MaxItems \in [Inp -> Nat]
  /\ Amounts \subseteq 0 .. IdxInv
  /\ MayFail \in BOOLEAN

VARIABLES
  box,       \* _used, _allocated and _ptr of each container
  heap,      \* the blocks: their size in bytes and their items
  moved,     \* the dynmems whose block another one has got by assignment
  job,       \* the append of a range that runs or has just ended
  refused,   \* history: realloc(3) has failed
  fault      \* "none", or why nothing can be said any more

vars == <<box, heap, moved, job, refused, fault>>

RoundUp(value, align) == ((value + align - 1) \div align) * align

Flushed(v) ==
  IF v \in Inp THEN [used |-> 0, allocated |-> Capacity[v], ptr |-> v]
  ELSE [used |-> 0, allocated |-> 0, ptr |-> null]
Array(p) == [size |-> Capacity[p] * ITEM, items |-> <<>>]
Idle == [at |-> "idle"]

Init ==
  /\ box = [v \in Box |-> Flushed(v)]
  /\ heap = [p \in Inp |-> Array(p)]
  /\ moved = {}
  /\ job = Idle
  /\ refused = FALSE
  /\ fault = "none"

With(h, a, block) == [b \in DOMAIN h \cup {a} |-> IF b = a THEN block ELSE h[b]]
Without(h, a) == [b \in DOMAIN h \ {a} |-> h[b]]

Contents(v) == IF box[v].used = 0 THEN <<>> ELSE heap[box[v].ptr].items

(***************************************************************************)
(* _grow_by_bytes for a container c: memfun_realloc_ex sets the new length *)
(* before realloc(3) is called, and when that fails returns the old        *)
(* pointer.  a is what realloc(3) returns.                                 *)
(***************************************************************************)
GrownUncapped(c, h, bytes, a) ==  \* variant: more than idx_max
  LET new == RoundUp(RoundUp(c.allocated * ITEM, BLOCK) + bytes, BLOCK)
      block == [size |-> new,
                items |-> IF c.ptr = null THEN <<>> ELSE h[c.ptr].items]
  IN IF a = null THEN [ok |-> FALSE, c |-> c, heap |-> h]
     ELSE [ok |-> TRUE, c |-> [c EXCEPT !.allocated = new \div ITEM, !.ptr = a],
           heap |-> With(Without(h, c.ptr), a, block)]

Grown(c, h, bytes, a) ==
  LET new == RoundUp(RoundUp(c.allocated * ITEM, BLOCK) + bytes, BLOCK)
      allocated == Lesser(new \div ITEM, IdxMax)
      block == [size |-> new,
                items |-> IF c.ptr = null THEN <<>> ELSE h[c.ptr].items]
  IN IF a = null /\ c.ptr = null THEN [ok |-> FALSE, c |-> c, heap |-> h]
     ELSE IF a = null
     THEN [ok |-> TRUE, c |-> [c EXCEPT !.allocated = allocated], heap |-> h]
     ELSE [ok |-> TRUE, c |-> [c EXCEPT !.allocated = allocated, !.ptr = a],
           heap |-> With(Without(h, c.ptr), a, block)]

Answers(c, h) ==
  {a \in Addr \cup {null} : \/ a \in Addr \ DOMAIN h
                            \/ a \in Addr /\ a = c.ptr
                            \/ a = null /\ MayFail}
Unanswered == {"unused"}   \* realloc(3) is not called

(***************************************************************************)
(* grow_by_bytes, grow_by_count and grow_auto.                             *)
(***************************************************************************)
MayGrowBytes(v, bytes) ==
  v \in Dyn /\ bytes > 0 /\ box[v].allocated < IdxMax
MayGrowCount(v, count) ==
  /\ MayGrowBytes(v, count) /\ ~IsWFall(count)
  /\ ~IsInv(v, box[v].allocated + count)

HasRoomByOne(v) ==  \* variant: < is <=
  box[v].ptr # null /\ box[v].used <= box[v].allocated
HasRoom(v) == box[v].used < box[v].allocated
MustGrow(v) == ~HasRoom(v) /\ MayGrowBytes(v, GROWTH)
AppendAnswers(v) == IF MustGrow(v) THEN Answers(box[v], heap) ELSE Unanswered

(***************************************************************************)
(* append: room for one more, then the item is written behind the last.    *)
(* What is appended is a value or a place in a block, which is read after  *)
(* the block of v has grown.                                               *)
(***************************************************************************)
AsValue(x) == [at |-> null, value |-> x]
AsPlace(a, i) == [at |-> a, i |-> i]

Appended(v, source, a) ==
  LET g == IF MustGrow(v) THEN Grown(box[v], heap, GROWTH, a)
           ELSE [ok |-> HasRoom(v), c |-> box[v], heap |-> heap]
      stale == source.at \notin DOMAIN g.heap \cup {null}
      outside == (g.c.used + 1) * ITEM > g.heap[g.c.ptr].size
      item == IF source.at = null THEN source.value
              ELSE g.heap[source.at].items[source.i + 1]
  IN IF ~g.ok THEN [index |-> IdxInv, fault |-> "none", c |-> g.c, heap |-> g.heap]
     ELSE IF stale \/ outside
     THEN [index |-> g.c.used, fault |-> IF stale THEN "stale" ELSE "outside",
           c |-> g.c, heap |-> g.heap]
     ELSE [index |-> g.c.used, fault |-> "none",
           c |-> [g.c EXCEPT !.used = @ + 1],
           heap |-> [g.heap EXCEPT ![g.c.ptr].items = Append(@, item)]]

Push(v, source, a) ==
  LET r == Appended(v, source, a) IN
  /\ box' = [box EXCEPT ![v] = r.c]
  /\ heap' = r.heap
  /\ fault' = r.fault
  /\ refused' = (refused \/ a = null)

Usable == {v \in Box : v \notin moved}
Ready == fault = "none" /\ job.at = "idle"

AppendValue(v) ==
  /\ Ready /\ v \in Usable
  /\ \E x \in Item : \E a \in AppendAnswers(v) : Push(v, AsValue(x), a)
  /\ UNCHANGED <<moved, job>>

(***************************************************************************)
(* v.append(u.get(i)), u may be v.                                         *)
(***************************************************************************)
AppendItem(v, u) ==
  /\ Ready /\ {u, v} \subseteq Usable
  /\ \E i \in 0 .. box[u].used - 1 : \E a \in AppendAnswers(v) :
       Push(v, AsPlace(box[u].ptr, i), a)
  /\ UNCHANGED <<moved, job>>

Set(v) ==
  /\ Ready /\ v \in Usable
  /\ \E i \in 0 .. box[v].used - 1, x \in Item :
       heap' = [heap EXCEPT ![box[v].ptr].items[i + 1] = x]
  /\ UNCHANGED <<box, moved, job, refused, fault>>

(***************************************************************************)
(* grow_by_count and grow_by_bytes as a client may call them; the first is *)
(* also the constructor that reserves.                                     *)
(***************************************************************************)
Grow(v, bytes) ==
  \E a \in Answers(box[v], heap) :
    LET g == Grown(box[v], heap, bytes, a) IN
    /\ box' = [box EXCEPT ![v] = g.c]
    /\ heap' = g.heap
    /\ refused' = (refused \/ a = null)

Reserve(v) ==
  /\ Ready /\ v \in Usable
  /\ \E n \in Amounts : \/ MayGrowCount(v, n) /\ Grow(v, n * ITEM)
                        \/ MayGrowBytes(v, n) /\ Grow(v, n)
  /\ UNCHANGED <<moved, job, fault>>

FreeKeeps(v) ==  \* variant: no flush_self()
  /\ Ready /\ v \in Usable
  /\ heap' = IF v \in Inp THEN heap ELSE Without(heap, box[v].ptr)
  /\ UNCHANGED <<box, moved, job, refused, fault>>

Free(v) ==
  /\ Ready /\ v \in Usable
  /\ heap' = IF v \in Inp THEN [heap EXCEPT ![v] = Array(v)]
             ELSE Without(heap, box[v].ptr)
  /\ box' = [box EXCEPT ![v] = Flushed(v)]
  /\ UNCHANGED <<moved, job, refused, fault>>

(***************************************************************************)
(* Assignment of a dynmem, and the copy constructor for the same growth    *)
(* factor, copy the pointer.  What v had before is lost; u may not be used *)
(* any more, since it does not know when its block is freed or moved.      *)
(***************************************************************************)
Assign(v, u) ==
  /\ Ready /\ {u, v} \subseteq Dyn /\ u \in Usable /\ u # v
  /\ box' = [box EXCEPT ![v] = box[u]]
  /\ heap' = IF v \in moved THEN heap ELSE Without(heap, box[v].ptr)
  /\ moved' = (moved \ {v}) \cup (IF box[u].ptr = null THEN {} ELSE {u})
  /\ UNCHANGED <<job, refused, fault>>

Misuse(u) ==
  /\ Ready /\ u \in moved
  /\ fault' = "moved"
  /\ UNCHANGED <<box, heap, moved, job, refused>>

(***************************************************************************)
(* The copy constructor of dynmem for another growth factor: an empty one  *)
(* when grow_by_count() refuses, which it does for half of idx_max too.    *)
(***************************************************************************)
CopyInto(h, ptr, n, u) ==
  [h EXCEPT ![ptr].items = SubSeq(Contents(u), 1, n)]

Copy(v, u) ==
  /\ Ready /\ {u, v} \subseteq Dyn \cap Usable
  /\ box[v] = Flushed(v) /\ MayGrowCount(v, box[u].used)
  /\ \E a \in Answers(box[v], heap) :
       LET g == Grown(box[v], heap, box[u].used * ITEM, a) IN
       /\ refused' = (refused \/ a = null)
       /\ IF g.ok
          THEN /\ box' = [box EXCEPT ![v] = [g.c EXCEPT !.used = box[u].used]]
               /\ heap' = CopyInto(g.heap, g.c.ptr, box[u].used, u)
          ELSE UNCHANGED <<box, heap>>
  /\ UNCHANGED <<moved, job, fault>>

(***************************************************************************)
(* The copy constructors and the assignment of inplace.                    *)
(***************************************************************************)
Fill(p, u) ==
  /\ Ready /\ p \in Inp /\ u \in Usable /\ u # p
  /\ LET n == Lesser(Capacity[p], box[u].used) IN
     /\ box' = [box EXCEPT ![p].used = n]
     /\ heap' = CopyInto(heap, p, n, u)
  /\ UNCHANGED <<moved, job, refused, fault>>

(***************************************************************************)
(* append(source, begin, count): count is cut to what source has, end is   *)
(* not.  One step for each item; k is what the last append returned.       *)
(***************************************************************************)
Range(v, u) ==
  /\ Ready /\ {u, v} \subseteq Usable
  /\ \E begin \in 0 .. box[u].used - 1, n \in Amounts \cup {box[u].used} :
       LET end == (begin + n) % (IdxInv + 1) IN
       job' = [at |-> "loop", to |-> v, from |-> u, begin |-> begin, end |-> end,
               count |-> IF end > box[u].used THEN box[u].used - begin ELSE n,
               i |-> begin, k |-> IdxInv, base |-> box[v].used,
               within |-> begin + n <= box[u].used]
  /\ UNCHANGED <<box, heap, moved, refused, fault>>

RangeSource ==
  IF job.i < box[job.from].used THEN AsPlace(box[job.from].ptr, job.i)
  ELSE AsValue(Zero)

RangeItemOnward ==  \* variant: i++ before the loop is left
  /\ fault = "none" /\ job.at = "loop" /\ job.i < job.end
  /\ \E a \in AppendAnswers(job.to) :
       LET k == Appended(job.to, RangeSource, a).index IN
       /\ Push(job.to, RangeSource, a)
       /\ job' = [job EXCEPT !.k = k, !.i = @ + 1,
                             !.at = IF IsInv(job.to, k) THEN "out" ELSE "loop"]
  /\ UNCHANGED moved

RangeItem ==
  /\ fault = "none" /\ job.at = "loop" /\ job.i < job.end
  /\ \E a \in AppendAnswers(job.to) :
       LET k == Appended(job.to, RangeSource, a).index IN
       /\ Push(job.to, RangeSource, a)
       /\ job' = IF IsInv(job.to, k) THEN [job EXCEPT !.k = k, !.at = "out"]
                 ELSE [job EXCEPT !.k = k, !.i = @ + 1]
  /\ UNCHANGED moved

RangeResult == IF IsInv(job.to, job.k) THEN job.i - job.begin ELSE job.count

RangeDone ==
  /\ fault = "none"
  /\ job.at = "out" \/ (job.at = "loop" /\ job.i >= job.end)
  /\ job' = Idle
  /\ UNCHANGED <<box, heap, moved, refused, fault>>

Faulty == fault # "none" /\ UNCHANGED vars

Next ==
  \/ \E v \in Box : AppendValue(v) \/ Set(v) \/ Reserve(v) \/ Free(v) \/ Misuse(v)
  \/ \E v, u \in Box : AppendItem(v, u) \/ Assign(v, u) \/ Copy(v, u)
                         \/ Fill(v, u) \/ Range(v, u)
  \/ RangeItem \/ RangeDone \/ Faulty

Spec == Init /\ [][Next]_vars

----------------------------------------------------------------------------
Faults == {"none", "outside", "stale", "moved"}
Counts == 0 .. IdxInv
Indices == 0 .. IdxMax
Places == Addr \cup Inp
Containers == [used : Indices, allocated : Indices, ptr : Places \cup {null}]
Block == [size : Nat, items : Seq(Item)]
Jobs == [at : {"loop", "out"}, to : Box, from : Box, begin : Counts,
         end : Counts, count : Counts, i : Counts, k : Counts, base : Counts,
         within : BOOLEAN]

TypeOK ==
  /\ box \in [Box -> Containers]
  /\ DOMAIN heap \subseteq Places
  /\ \A a \in DOMAIN heap : heap[a] \in Block
  /\ moved \subseteq Dyn
  /\ job \in {Idle} \cup Jobs
  /\ refused \in BOOLEAN
  /\ fault \in Faults

(***************************************************************************)
(* A container whose items are in a live block and never more than its     *)
(* capacity; as long as realloc(3) gave what was asked for, all of         *)
(* _allocated is there.                                                    *)
(***************************************************************************)
Owns(c, capacity, h, r) ==
  /\ c.used <= c.allocated /\ c.allocated <= capacity
  /\ c.ptr = null => c.allocated = 0
  /\ c.ptr # null =>
       /\ c.ptr \in DOMAIN h
       /\ Len(h[c.ptr].items) = c.used
       /\ c.used * ITEM <= h[c.ptr].size
       /\ ~r => c.allocated * ITEM <= h[c.ptr].size

Apart ==
  \A v, u \in Usable : box[v].ptr = box[u].ptr /\ box[v].ptr # null => v = u

(***************************************************************************)
(* Every container owns its block and shares it with no other one, so that *)
(* append() may skip realloc(3) (dynmem.hh:219-224) and free() frees what  *)
(* nobody else has.                                                        *)
(***************************************************************************)
Sound ==
  fault = "none" =>
    Apart /\ \A v \in Usable : Owns(box[v], Capacity[v], heap, refused)

(***************************************************************************)
(* append(source, begin, count) for a range that the source has returns    *)
(* how many items it has appended, also when memory or the capacity ends   *)
(* it early, and those are the items of the range (dynmem.hh:185-201).     *)
(* For a range beyond the source neither holds.                            *)
(***************************************************************************)
RangeExact ==
  fault = "none" /\ job.at # "idle" =>
    LET items == SubSeq(Contents(job.to), job.base + 1, box[job.to].used) IN
    /\ job.within => items = SubSeq(Contents(job.from), job.begin + 1, job.i)
    /\ job.within /\ (job.at = "out" \/ job.i >= job.end) =>
         RangeResult = Len(items)

(***************************************************************************)
(* The containers are sequences of their own that only their own calls     *)
(* change, until memory is refused for one that has a block, an item is    *)
(* appended by a pointer into a block that realloc(3) moves, or one is     *)
(* used after it was assigned to another.                                  *)
(***************************************************************************)
Held == [v \in Box |-> IF fault # "none" \/ v \in moved THEN <<>> ELSE Contents(v)]

Promise == INSTANCE Boxes
  WITH Refusing <- Dyn, seq <- Held, broken <- fault # "none",
       excused <- refused \/ fault \in {"stale", "moved"}

Implements == Promise!Spec
=============================================================================
