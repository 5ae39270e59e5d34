------------------------------- MODULE StrVec -------------------------------
(***************************************************************************)
(* uvector::str (str.hh) on dynmem.hh and memfun.h, as prepare() and run() *)
(* of src/xvp.cc use it: argv_init is built once, argv_curr starts from a  *)
(* copy of it for every batch and takes arguments until the batch is full; *)
(* do_exec() then makes the list of pointers for execvp(3).  Each call of  *)
(* malloc(3) and realloc(3) may fail.                                      *)
(*                                                                         *)
(* A string is its length.  A memory block is its size as the allocator    *)
(* knows it, 0 for a null pointer, beside the size the code believes in.   *)
(***************************************************************************)
EXTENDS Integers, Sequences

CONSTANTS
  WORD,      \* sizeof(size_t): the alignment of items, the size of an offset
  BLOCK,     \* memfun_block_size(), which is also the growth of offsets
  Lens,      \* the lengths that arguments may have
  InitMax,   \* how many items argv_init may have
  ArgcMax,   \* argc_max
  SizeArgs,  \* size_args
  MayFail    \* realloc(3) may fail

ASSUME StoreAssumption ==
  /\ WORD \in Nat \ {0} /\ BLOCK \in Nat \ {0} /\ BLOCK % WORD = 0
  /\ Lens \subseteq Nat /\ InitMax \in Nat \ {0}
  /\ ArgcMax \in Nat /\ SizeArgs \in Nat
  /\ MayFail \in BOOLEAN

VARIABLES
  init,      \* argv_init
  curr,      \* argv_curr
  pc,        \* "prepare", "copy", "check", "gather", "full", "fail", "wild"
  next,      \* the item of argv_init that is copied next
  list,      \* argv of the child that executes the batch
  refused    \* history: realloc(3) or malloc(3) has failed

vars == <<init, curr, pc, next, list, refused>>

RoundUp(value, align) == ((value + align - 1) \div align) * align

(***************************************************************************)
(* A vector: _used, _ptr with _allocated, _offsets with its _allocated in  *)
(* bytes, and what it holds: where each string begins and its length.      *)
(***************************************************************************)
Aligned(align) == {n \in Nat : n % align = 0}
Block == [allocated : Aligned(BLOCK), size : Aligned(BLOCK)]
Item == [at : Aligned(WORD), len : Nat]
Vector == [used : Aligned(WORD), mem : Block, offsets : Block,
           items : Seq(Item)]

(***************************************************************************)
(* The list: where its strings begin, and the size of its block; 0 for a   *)
(* null pointer.  All that is not a pointer in it is zero.                 *)
(***************************************************************************)
NoList == [strings |-> <<>>, size |-> 0]

NoBlock == [allocated |-> 0, size |-> 0]
Empty == [used |-> 0, mem |-> NoBlock, offsets |-> NoBlock, items |-> <<>>]

Count(v) == Len(v.items)

(***************************************************************************)
(* memfun_realloc_ex: the length grows before realloc(3) is called, and    *)
(* when that fails the old pointer is returned.                            *)
(***************************************************************************)
ReallocEx(b, extend, ok) ==
  LET new == RoundUp(RoundUp(b.allocated, BLOCK) + extend, BLOCK)
  IN [allocated |-> new, size |-> IF ok THEN new ELSE b.size]

(***************************************************************************)
(* The first half of str::append: room for a string of that length.        *)
(***************************************************************************)
NewUsedUnaligned(v, len) == v.used + len + 1  \* variant: no rounding
NewUsed(v, len) == RoundUp(v.used + len + 1, WORD)

NeedsRoomWithoutNul(v, len) ==  \* variant: the final NUL is forgotten
  RoundUp(v.used + len, WORD) > v.mem.allocated
NeedsRoom(v, len) == NewUsed(v, len) > v.mem.allocated

WithRoom(v, len, ok) ==
  IF NeedsRoom(v, len) THEN [v EXCEPT !.mem = ReallocEx(@, len + 1, ok)] ELSE v

(***************************************************************************)
(* dynmem::grow_auto: room for one more offset.  _grow_by_bytes keeps      *)
(* _allocated when there is no block at all.                               *)
(***************************************************************************)
NeedsOffset(v) == (Count(v) + 1) * WORD > v.offsets.allocated

WithOffset(v, ok) ==
  LET grown == ReallocEx(v.offsets, BLOCK, ok) IN
  IF NeedsOffset(v) /\ grown.size > 0 THEN [v EXCEPT !.offsets = grown] ELSE v

Stored(v, len) ==
  [v EXCEPT !.items = Append(@, [at |-> v.used, len |-> len]),
            !.used = NewUsed(v, len)]

(***************************************************************************)
(* str::append: what v becomes and whether an index is returned.  Bytes    *)
(* written outside a block, or to no block, end what can be said.          *)
(***************************************************************************)
AppendResult(v, len, ok1, ok2) ==
  LET v1 == WithRoom(v, len, ok1)
      v2 == WithOffset(v1, ok2)
  IN IF NeedsRoom(v, len) /\ v1.mem.size = 0
     THEN [vec |-> v1, result |-> "invalid"]
     ELSE IF NeedsOffset(v2)
     THEN [vec |-> v2, result |-> "invalid"]
     ELSE [vec |-> Stored(v2, len),
           result |-> IF \/ len > 0 /\ v.used + len > v2.mem.size
                         \/ (Count(v) + 1) * WORD > v2.offsets.size
                      THEN "wild" ELSE "index"]

(***************************************************************************)
(* The calls of realloc(3) that this append makes, and their outcomes.     *)
(***************************************************************************)
Outcomes(v, len) ==
  {o \in {TRUE, ~MayFail} \X {TRUE, ~MayFail} :
     /\ o[1] \/ NeedsRoom(v, len)
     /\ o[2] \/ NeedsOffset(v)}

IsFull(v, extra) ==
  \/ Count(v) >= ArgcMax
  \/ v.used + Count(v) * WORD + extra + 1 >= SizeArgs

Init ==
  /\ init = Empty
  /\ curr = Empty
  /\ pc = "prepare"
  /\ next = 1
  /\ list = NoList
  /\ refused = FALSE

(***************************************************************************)
(* prepare(): the results of append are not looked at, the size is.        *)
(***************************************************************************)
Prepare ==
  /\ pc = "prepare"
  /\ Count(init) < InitMax
  /\ \E len \in Lens : \E o \in Outcomes(init, len) :
       LET a == AppendResult(init, len, o[1], o[2]) IN
       /\ init' = a.vec
       /\ pc' = IF a.result = "wild" THEN "wild" ELSE pc
       /\ refused' = (refused \/ ~o[1] \/ ~o[2])
  /\ UNCHANGED <<curr, next, list>>

Run ==
  /\ pc = "prepare"
  /\ init.used > 0 \/ refused
  /\ Count(init) <= ArgcMax /\ init.used + Count(init) * WORD <= SizeArgs
  /\ pc' = "copy"
  /\ UNCHANGED <<init, curr, next, list, refused>>

(***************************************************************************)
(* argv_curr.append(argv_init), item by item, until an append fails: that  *)
(* of a null pointer does.                                                 *)
(***************************************************************************)
Goto(result, index, invalid) ==
  CASE result = "index" -> index
    [] result = "invalid" -> invalid
    [] result = "wild" -> "wild"

CopyItem ==
  /\ pc = "copy"
  /\ next <= Count(init)
  /\ init.mem.size > 0
  /\ LET len == init.items[next].len IN
     \E o \in Outcomes(curr, len) :
       LET a == AppendResult(curr, len, o[1], o[2]) IN
       /\ curr' = a.vec
       /\ pc' = Goto(a.result, "copy", "check")
       /\ refused' = (refused \/ ~o[1] \/ ~o[2])
  /\ next' = next + 1
  /\ UNCHANGED <<init, list>>

CopyDone ==
  /\ pc = "copy"
  /\ next > Count(init) \/ init.mem.size = 0
  /\ pc' = "check"
  /\ UNCHANGED <<init, curr, next, list, refused>>

(***************************************************************************)
(* if (!argv_curr.allocated()): lines 373 and 578.                         *)
(***************************************************************************)
CheckAllocated ==
  /\ pc = "check"
  /\ pc' = IF curr.mem.allocated = 0 THEN "fail" ELSE "gather"
  /\ UNCHANGED <<init, curr, next, list, refused>>

(***************************************************************************)
(* Lines 417-483: an argument joins the batch unless that is full; the one *)
(* set aside before opens a batch without a look at the limits.            *)
(***************************************************************************)
AppendArg ==
  /\ pc = "gather"
  /\ \E len \in Lens :
       /\ ~IsFull(curr, len) \/ Count(curr) = Count(init)
       /\ \E o \in Outcomes(curr, len) :
            LET a == AppendResult(curr, len, o[1], o[2]) IN
            /\ curr' = a.vec
            /\ pc' = Goto(a.result, "gather", "fail")
            /\ refused' = (refused \/ ~o[1] \/ ~o[2])
  /\ UNCHANGED <<init, next, list>>

(***************************************************************************)
(* do_exec() in the child: to_ptrlist() has a pointer for every string and *)
(* a null pointer behind them.                                             *)
(***************************************************************************)
ListSizeWithoutNull(n) == RoundUp(n * WORD, BLOCK)  \* variant
ListSize(n) == RoundUp((n + 1) * WORD, BLOCK)

PtrList(v, ok) ==
  IF ok THEN [strings |-> [i \in 1 .. Count(v) |-> v.items[i].at],
              size |-> ListSize(Count(v))]
  ELSE NoList

BatchDone ==
  /\ pc = "gather"
  /\ \E ok \in {TRUE, ~MayFail} :
       IF Count(curr) = Count(init) THEN ok /\ UNCHANGED <<list, refused>>
       ELSE list' = PtrList(curr, ok) /\ refused' = (refused \/ ~ok)
  /\ pc' = "full"
  /\ UNCHANGED <<init, curr, next>>

(***************************************************************************)
(* The parent goes on: argv_curr.free(), then the copy.                    *)
(***************************************************************************)
FreeKeepsUsed ==  \* variant: flush_self() forgotten for _used
  /\ pc = "full"
  /\ curr' = [Empty EXCEPT !.used = curr.used]
  /\ pc' = "copy"
  /\ next' = 1
  /\ list' = NoList
  /\ UNCHANGED <<init, refused>>

Free ==
  /\ pc = "full"
  /\ curr' = Empty
  /\ pc' = "copy"
  /\ next' = 1
  /\ list' = NoList
  /\ UNCHANGED <<init, refused>>

Ended == pc \in {"fail", "wild"} /\ UNCHANGED vars

Next == Prepare \/ Run \/ CopyItem \/ CopyDone \/ CheckAllocated \/ AppendArg
          \/ BatchDone \/ Free \/ Ended

Spec == Init /\ [][Next]_vars

----------------------------------------------------------------------------
TypeOK ==
  /\ init \in Vector /\ curr \in Vector
  /\ pc \in {"prepare", "copy", "check", "gather", "full", "fail", "wild"}
  /\ next \in Nat
  /\ list \in [strings : Seq(Aligned(WORD)), size : Nat]
  /\ refused \in BOOLEAN

(***************************************************************************)
(* Every string begins where the one before ends, with its NUL and the     *)
(* padding, so that _used is the sum that module Xvp counts with, and no   *)
(* append writes into another string, refused memory or not.               *)
(***************************************************************************)
End(item) == item.at + RoundUp(item.len + 1, WORD)

Layout ==
  \A v \in {init, curr} :
    /\ v.used = IF v.items = <<>> THEN 0 ELSE End(v.items[Count(v)])
    /\ \A i \in 1 .. Count(v) :
         v.items[i].at = IF i = 1 THEN 0 ELSE End(v.items[i - 1])

(***************************************************************************)
(* All strings with their NULs, and all offsets, are inside the blocks     *)
(* that the allocator gave, as long as it gave all that it was asked for.  *)
(***************************************************************************)
InBlock ==
  ~refused => \A v \in {init, curr} :
                /\ v.used <= v.mem.size
                /\ Count(v) * WORD <= v.offsets.size

(***************************************************************************)
(* What <program> gets: the list begins with the strings of argv_init and  *)
(* has all arguments of the batch behind them, each where it was put, and  *)
(* a null pointer that ends it, all inside of its block.  With memory      *)
(* refused a batch may lack argv_init, since `if (!argv_curr.allocated())' *)
(* (lines 373 and 578) does not tell, and the list may be missing as a     *)
(* whole (str.hh:155, xvp.cc:275).                                         *)
(***************************************************************************)
BeginsWithInit ==
  Count(curr) >= Count(init) /\ SubSeq(curr.items, 1, Count(init)) = init.items

ListExact ==
  pc = "full" /\ ~refused =>
    /\ BeginsWithInit
    /\ Count(curr) > Count(init) =>
         /\ Len(list.strings) = Count(curr)
         /\ \A i \in 1 .. Count(curr) :
              list.strings[i] = curr.items[i].at /\ list.strings[i] < curr.mem.size
         /\ (Count(curr) + 1) * WORD <= list.size
=============================================================================
