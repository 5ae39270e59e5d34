------------------------------ MODULE XvpProof ------------------------------
(***************************************************************************)
(* Types and safety invariants of module Xvp, for every number of          *)
(* processes, every file and every limit.  The types, the sizes of batches *)
(* and, unless someone kills, the order of executions need nothing more;   *)
(* the rest needs that only xvp itself reads the file (OneReader): a       *)
(* forked process that comes back to the loop shares the reading with its  *)
(* parent, see run xvp_twice.                                              *)
(***************************************************************************)
EXTENDS XvpInv, SequenceTheorems, TLAPS

(***************************************************************************)
(* What the size of an appended item is: the bytes of the string and its   *)
(* terminator, with less than a word of padding.                           *)
(***************************************************************************)
LEMMA ItemSizeBounds ==
  ASSUME NEW len \in Nat
  PROVE  /\ ItemSize(len) \in Nat
         /\ len + 1 <= ItemSize(len)
         /\ ItemSize(len) <= len + WORD
BY DEF ItemSize, WORD

(***************************************************************************)
(* Changes of single fields of a memory.                                   *)
(***************************************************************************)
LEMMA BatchChangeType ==
  ASSUME NEW m \in Memory, NEW s \in Seq(Arg), NEW u \in Nat
  PROVE  [m EXCEPT !.argv = s, !.used = u] \in Memory
BY DEF Memory

LEMMA PendChangeType ==
  ASSUME NEW m \in Memory, NEW s \in Seq(Arg)
  PROVE  [m EXCEPT !.pend = s] \in Memory
BY DEF Memory

LEMMA ErrChangeType ==
  ASSUME NEW m \in Memory, NEW e \in Int
  PROVE  [m EXCEPT !.err = e] \in Memory
BY DEF Memory

LEMMA ErrChildChangeType ==
  ASSUME NEW m \in Memory, NEW e \in Int, NEW c \in 0 .. MaxPid
  PROVE  [m EXCEPT !.err = e, !.child = c] \in Memory
BY DEF Memory

LEMMA SetAsideType ==
  ASSUME NEW m \in Memory, NEW s \in Seq(Arg), NEW t \in Seq(Arg)
  PROVE  [m EXCEPT !.pend = s, !.buf = t] \in Memory
BY DEF Memory

LEMMA ChildChangeType ==
  ASSUME NEW m \in Memory, NEW c \in 0 .. MaxPid
  PROVE  [m EXCEPT !.child = c] \in Memory
BY DEF Memory

LEMMA BufChangeType ==
  ASSUME NEW m \in Memory, NEW s \in Seq(Arg)
  PROVE  [m EXCEPT !.buf = s] \in Memory
BY DEF Memory

LEMMA BlockChangeType ==
  ASSUME NEW m \in Memory, NEW s \in Seq(Arg), NEW t \in Nat \X Nat
  PROVE  [m EXCEPT !.buf = s, !.part = t] \in Memory
BY DEF Memory

(***************************************************************************)
(* A sequence is its first k items and the others.                         *)
(***************************************************************************)
LEMMA SplitAt ==
  ASSUME NEW S, NEW s \in Seq(S), NEW k \in 0 .. Len(s)
  PROVE  /\ SubSeq(s, 1, k) \in Seq(S) /\ Len(SubSeq(s, 1, k)) = k
         /\ SubSeq(s, k + 1, Len(s)) \in Seq(S)
         /\ Len(SubSeq(s, k + 1, Len(s))) = Len(s) - k
         /\ SubSeq(s, 1, k) \o SubSeq(s, k + 1, Len(s)) = s
<1>1. Len(s) \in Nat
  BY LenProperties
<1>2. /\ 1 \in 1 .. Len(s) + 1 /\ k \in (1 - 1) .. Len(s)
      /\ Len(s) \in k .. Len(s)
  BY <1>1
<1>3. SubSeq(s, 1, k) \o SubSeq(s, k + 1, Len(s)) = SubSeq(s, 1, Len(s))
  BY <1>2, ConcatAdjacentSubSeq
<1>4. /\ \A i \in 1 .. k : s[i] \in S
      /\ \A i \in k + 1 .. Len(s) : s[i] \in S
  BY <1>1, ElementOfSeq
<1>5. k \in Int /\ k + 1 \in Int /\ Len(s) \in Int
  BY <1>1
<1>6. /\ SubSeq(s, 1, k) \in Seq(S) /\ SubSeq(s, k + 1, Len(s)) \in Seq(S)
      /\ Len(SubSeq(s, 1, k)) = k
      /\ Len(SubSeq(s, k + 1, Len(s))) = Len(s) - k
  BY <1>1, <1>4, <1>5, SubSeqProperties
<1> QED
  BY <1>3, <1>6, SubSeqFull

(***************************************************************************)
(* What a reader finds in a block is arguments, and where its part ends is *)
(* a pair of numbers.                                                      *)
(***************************************************************************)
LEMMA FoundType ==
  ASSUME NEW m, NEW whole \in Seq(Arg), NEW found \in Found(m, whole)
  PROVE  found \in Seq(Arg)
<1>1. CASE found = whole
  BY <1>1
<1>2. CASE whole # <<>> /\ found = Tail(whole)
  BY <1>2, HeadTailProperties
<1>3. ASSUME whole # <<>>, NEW t \in Torn, found = <<t>> \o Tail(whole)
      PROVE  found \in Seq(Arg)
  <2>1. <<t>> \in Seq(Arg) /\ Tail(whole) \in Seq(Arg)
    BY <1>3, ArgAssumption, HeadTailProperties
  <2> QED
    BY <1>3, <2>1, ConcatProperties
<1> QED
  BY <1>1, <1>2, <1>3 DEF Found

LEMMA CutType ==
  ASSUME NEW n \in {0} \cup UNION {Cuts[a] : a \in Arg}
  PROVE  n \in Nat
<1>1. CASE n = 0
  BY <1>1
<1>2. ASSUME NEW a \in Arg, n \in Cuts[a] PROVE n \in Nat
  <2>1. ArgLen[a] \in Nat /\ n \in 1 .. ArgLen[a]
    BY <1>2, ArgAssumption
  <2> QED
    BY <2>1
<1> QED
  BY <1>1, <1>2

LEMMA PartType ==
  ASSUME TypeOK, NEW m, NEW k \in 0 .. Len(rest), NEW n \in Nat
  PROVE  PartAfter(m, k, n) \in Nat \X Nat
<1>1. Len(rest) \in Nat
  BY LenProperties DEF TypeOK
<1> QED
  BY <1>1 DEF PartAfter, PartOf, NoPart, MixedPart

(***************************************************************************)
(* str::append and the fork of a memory give memories.                     *)
(***************************************************************************)
LEMMA AppendedType ==
  ASSUME NEW m \in Memory, NEW a \in Arg
  PROVE  Appended(m, a) \in Memory
<1>1. ArgLen[a] \in Nat
  BY ArgAssumption
<1>2. ItemSize(ArgLen[a]) \in Nat
  BY <1>1, ItemSizeBounds
<1>3. Append(m.argv, a) \in Seq(Arg)
  BY DEF Memory
<1>4. m.used + ItemSize(ArgLen[a]) \in Nat
  BY <1>2 DEF Memory
<1> QED
  BY <1>3, <1>4, BatchChangeType DEF Appended

LEMMA InitType == Init => TypeOK
<1>1. Root \in Pid
  BY ProcessAssumption DEF Pid, Root
<1>2. NoMemory \in Memory
  BY LimitAssumption, ProcessAssumption DEF NoMemory, NoPart, Memory
<1> QED
  BY <1>1, <1>2, OptionAssumption, ArgAssumption, ProcessAssumption
     DEF Init, TypeOK, PC, Loop, Gathering, Awaiting, Leaving, Executing, Ended

LEMMA FailWithType ==
  ASSUME TypeOK, NEW p \in Pid, NEW from, NEW e \in Int, FailWith(p, from, e)
  PROVE  TypeOK'
<1>1. [mem[p] EXCEPT !.err = e] \in Memory
  BY ErrChangeType DEF TypeOK
<1> QED
  BY <1>1 DEF FailWith, TypeOK, start, file, kernel, history, Goto,
       PC, Loop, Gathering, Awaiting, Leaving, Executing, Ended

LEMMA GatherType ==
  ASSUME TypeOK, NEW p \in Pid, Gather(p)
  PROVE  TypeOK'
<1> USE DEF TypeOK, start, file, kernel, history, Goto,
            PC, Loop, Gathering, Awaiting, Leaving, Executing, Ended
<1>0. mem[p] \in Memory
  OBVIOUS
<1>10. CASE Begin(p)
  BY <1>10 DEF Begin
<1>1. CASE AppendPending(p)
  <2>1. CASE mem[p].pend = <<>>
    BY <1>1, <2>1 DEF AppendPending
  <2>2. CASE mem[p].pend # <<>>
    <3>1. Head(mem[p].pend) \in Arg
      BY <1>0, <2>2 DEF Memory
    <3>2. Appended(mem[p], Head(mem[p].pend)) \in Memory
      BY <1>0, <3>1, AppendedType
    <3>3. [Appended(mem[p], Head(mem[p].pend)) EXCEPT !.pend = <<>>] \in Memory
      BY <3>2, PendChangeType, <<>> \in Seq(Arg)
    <3> QED
      BY <1>1, <2>2, <3>3 DEF AppendPending
  <2> QED
    BY <2>1, <2>2
<1>2. CASE AppendPendingFails(p)
  BY <1>2, FailWithType DEF AppendPendingFails, ENOMEM
<1>3. CASE SkipRead(p)
  BY <1>3 DEF SkipRead
<1>4. CASE ReadBlock(p)
  <2>1. PICK k \in 0 .. Len(rest), n \in {0} \cup UNION {Cuts[a] : a \in Arg} :
          /\ \E found \in Found(mem[p], SubSeq(rest, 1, k)) :
               mem' = [mem EXCEPT ![p].buf = found,
                                  ![p].part = PartAfter(mem[p], k, n)]
          /\ rest' = SubSeq(rest, k + 1, Len(rest))
          /\ cut' = n
    BY <1>4 DEF ReadBlock
  <2>2. SubSeq(rest, 1, k) \in Seq(Arg) /\ rest' \in Seq(Arg) /\ cut' \in Nat
    BY <2>1, SplitAt, CutType
  <2>3. PICK found \in Found(mem[p], SubSeq(rest, 1, k)) :
          mem' = [mem EXCEPT ![p].buf = found,
                             ![p].part = PartAfter(mem[p], k, n)]
    BY <2>1
  <2>4. found \in Seq(Arg) /\ PartAfter(mem[p], k, n) \in Nat \X Nat
    BY <2>2, FoundType, PartType, CutType
  <2>5. [mem[p] EXCEPT !.buf = found, !.part = PartAfter(mem[p], k, n)] \in Memory
    BY <1>0, <2>4, BlockChangeType
  <2>6. mem' \in [Pid -> Memory]
    BY <2>3, <2>5
  <2> QED
    BY <1>4, <2>2, <2>6 DEF ReadBlock
<1>5. CASE EndOfFile(p)
  BY <1>5 DEF EndOfFile
<1>6. CASE TakeArg(p)
  <2> DEFINE a == Head(mem[p].buf)
             m == [Appended(mem[p], a) EXCEPT !.buf = Tail(@)]
  <2>0. mem[p].buf \in Seq(Arg) /\ mem[p].buf # <<>>
    BY <1>0, <1>6 DEF Memory, TakeArg
  <2>1. a \in Arg /\ Tail(mem[p].buf) \in Seq(Arg)
    BY <2>0
  <2>2. Appended(mem[p], a) \in Memory
    BY <1>0, <2>1, AppendedType
  <2>3. Appended(mem[p], a).buf = mem[p].buf
    BY <1>0 DEF Appended, Memory
  <2>4. m \in Memory
    BY <2>1, <2>2, <2>3, BufChangeType
  <2> QED
    BY <1>6, <2>4 DEF TakeArg
<1>7. CASE TakeArgFails(p)
  BY <1>7, FailWithType DEF TakeArgFails, ENOMEM
<1>8. CASE SetAside(p)
  <2>0. mem[p].buf \in Seq(Arg) /\ mem[p].buf # <<>>
    BY <1>0, <1>8 DEF Memory, SetAside
  <2>1. Head(mem[p].buf) \in Arg /\ Tail(mem[p].buf) \in Seq(Arg)
    BY <2>0
  <2>2. mem' \in [Pid -> Memory]
    BY <1>0, <1>8, <2>1, <<Head(mem[p].buf)>> \in Seq(Arg), SetAsideType DEF SetAside
  <2> QED
    BY <1>8, <2>2 DEF SetAside
<1>9. CASE BufferDone(p)
  BY <1>9 DEF BufferDone
<1> QED
  BY <1>1, <1>2, <1>3, <1>4, <1>5, <1>6, <1>7, <1>8, <1>9, <1>10 DEF Gather

LEMMA ForkType ==
  ASSUME TypeOK, NEW p \in Pid, Fork(p)
  PROVE  TypeOK'
<1> USE DEF TypeOK, PC, Loop, Gathering, Awaiting, Leaving, Executing, Ended
<1>1. PICK c \in Pid :
        /\ pc' = [pc EXCEPT ![p] = "reap", ![c] = "exec"]
        /\ mem' = [mem EXCEPT ![p].child = c,
                              ![c] = [mem[p] EXCEPT !.child = 0]]
        /\ parent' = [parent EXCEPT ![c] = p]
  BY DEF Fork
<1>2. /\ mem[p] \in Memory
      /\ c \in 0 .. MaxPid /\ 0 \in 0 .. MaxPid /\ p \in 0 .. MaxPid
  BY ProcessAssumption DEF Pid
<1>3. /\ [mem[p] EXCEPT !.child = c] \in Memory
      /\ [mem[p] EXCEPT !.child = 0] \in Memory
  BY <1>2, ChildChangeType
<1>4. mem' \in [Pid -> Memory]
  BY <1>1, <1>3
<1>5. mem[p].argv \in Seq(Arg)
  BY <1>2 DEF Memory
<1>6. handed' \in Seq(Arg)
  BY <1>5 DEF Fork
<1>7. pc' \in [Pid -> PC] /\ parent' \in [Pid -> 0 .. MaxPid]
  BY <1>1, <1>2
<1> QED
  BY <1>4, <1>6, <1>7 DEF Fork, start, file

LEMMA BatchType ==
  ASSUME TypeOK, NEW p \in Pid, Batch(p)
  PROVE  TypeOK'
<1> USE DEF TypeOK, start, file, kernel, history, Goto,
            PC, Loop, Gathering, Awaiting, Leaving, Executing, Ended
<1>0. mem[p] \in Memory
  OBVIOUS
<1>1. CASE ForceOnce(p)
  BY <1>1, FailWithType DEF ForceOnce, E2BIG
<1>2. CASE Fork(p)
  BY <1>2, ForkType
<1>3. CASE ForkFails(p)
  BY <1>3, FailWithType DEF ForkFails, EAGAIN
<1>4. AfterReapErr(mem[p]) \in Memory /\ AfterReap \in PC
  <2>1. [mem[p] EXCEPT !.err = ECHILD] \in Memory
    <3>1. ECHILD \in Int
      BY DEF ECHILD
    <3> QED
      BY <1>0, <3>1, ErrChangeType
  <2> QED
    BY <1>0, <2>1 DEF AfterReapErr, AfterReap
<1>5. CASE ReapAny(p)
  <2>1. PICK c \in Pid :
          /\ pc' = [pc EXCEPT ![p] = AfterReap, ![c] = "gone"]
          /\ lost' \in {lost, lost \cup {c}}
    BY <1>5 DEF ReapAny, Zombies, Children
  <2>2. pc' \in [Pid -> PC] /\ lost' \subseteq Pid
    BY <1>4, <2>1
  <2>3. mem' \in [Pid -> Memory]
    BY <1>4, <1>5 DEF ReapAny
  <2> QED
    BY <1>5, <2>2, <2>3 DEF ReapAny
<1>6. CASE ReapNone(p)
  BY <1>4, <1>6 DEF ReapNone
<1>7. CASE WaitGone(p)
  BY <1>7 DEF WaitGone
<1>8. CASE WaitExited(p)
  <2> DEFINE c == mem[p].child
             e == IF status[c] = Killed THEN mem[p].err ELSE status[c]
             d == IF opt.strict /\ status[c] # 0 THEN mem[p].child ELSE 0
  <2>1. c \in Pid
    BY <1>8 DEF WaitExited, Zombies, Children
  <2>2. e \in Int /\ d \in 0 .. MaxPid
    BY <1>0, <2>1, ProcessAssumption DEF Memory, Pid
  <2>3. [mem[p] EXCEPT !.err = e, !.child = d] \in Memory
    BY <1>0, <2>2, ErrChildChangeType
  <2>4. mem' = [mem EXCEPT ![p] = [mem[p] EXCEPT !.err = e, !.child = d]]
    BY <1>0, <1>8 DEF WaitExited
  <2>5. mem' \in [Pid -> Memory]
    BY <2>3, <2>4
  <2>6. pc' \in [Pid -> PC]
    BY <1>8 DEF WaitExited
  <2> QED
    BY <1>8, <2>5, <2>6 DEF WaitExited
<1>9. CASE WaitEvent(p)
  BY <1>9 DEF WaitEvent
<1>10. CASE Refine(p)
  <2>1. [mem[p] EXCEPT !.argv = <<>>, !.used = InitUsed] \in Memory
    <3>1. InitUsed \in Nat /\ <<>> \in Seq(Arg)
      BY LimitAssumption
    <3> QED
      BY <1>0, <3>1, BatchChangeType
  <2> QED
    BY <1>10, <2>1 DEF Refine
<1> QED
  BY <1>1, <1>2, <1>3, <1>5, <1>6, <1>7, <1>8, <1>9, <1>10 DEF Batch

LEMMA ExitType ==
  ASSUME TypeOK, NEW p \in Pid, NEW code \in Int, Exit(p, code),
         UNCHANGED <<opt, list, rest, cut, mem, parent, history>>, linked' \in BOOLEAN
  PROVE  TypeOK'
BY DEF Exit, TypeOK, history,
       PC, Loop, Gathering, Awaiting, Leaving, Executing, Ended

LEMMA LeaveType ==
  ASSUME TypeOK, NEW p \in Pid, Leave(p)
  PROVE  TypeOK'
<1> USE DEF TypeOK, start, file, kernel, history, Goto,
            PC, Loop, Gathering, Awaiting, Leaving, Executing, Ended
<1>0. mem[p].argv \in Seq(Arg) /\ mem[p].err \in Int
  BY DEF Memory
<1>1. CASE Close(p)
  <2>1. handed' \in Seq(Arg)
    BY <1>0, <1>1 DEF Close
  <2> QED
    BY <1>1, <2>1 DEF Close, DeleteScript
<1>2. CASE AwaitAny(p)
  BY <1>2 DEF AwaitAny, Zombies, Children
<1>3. CASE Fail(p)
  <2>1. linked' \in BOOLEAN
    BY <1>3 DEF Fail, DeleteScript
  <2> QED
    BY <1>0, <1>3, <2>1, ExitType DEF Fail
<1>4. CASE ExecNothing(p)
  <2>1. CASE Exit(p, mem[p].err)
    BY <1>0, <1>4, <2>1, ExitType DEF ExecNothing
  <2>2. CASE Goto(p, "exec", "reap") /\ UNCHANGED <<status, note>>
    BY <1>4, <2>2 DEF ExecNothing
  <2> QED
    BY <1>4, <2>1, <2>2 DEF ExecNothing
<1>5. CASE ExecProgram(p)
  BY <1>5 DEF ExecProgram
<1>6. CASE ExecRetry(p)
  BY <1>6 DEF ExecRetry
<1>7. CASE ExecFails(p)
  BY <1>7, ExitType, OutcomeAssumption DEF ExecFails
<1>8. CASE RunErr(p)
  BY <1>8, ExitType DEF RunErr, ENOMEM, EINVAL
<1> QED
  BY <1>1, <1>2, <1>3, <1>4, <1>5, <1>6, <1>7, <1>8 DEF Leave

LEMMA OutsideType ==
  ASSUME TypeOK, NEW p \in Pid, Outside(p)
  PROVE  TypeOK'
<1> USE DEF file
<1>1. CASE ProgramExit(p)
  BY <1>1, ExitType, OutcomeAssumption DEF start, ProgramExit, TypeOK
<1>2. CASE Kill(p)
  BY <1>2, ExitType DEF start, Kill, Killed, TypeOK
<1>3. CASE Stop(p)
  BY <1>3 DEF start, Stop, Goto, history, TypeOK,
       PC, Loop, Gathering, Awaiting, Leaving, Executing, Ended
<1>4. CASE Continue(p)
  BY <1>4 DEF start, Continue, Goto, history, TypeOK,
       PC, Loop, Gathering, Awaiting, Leaving, Executing, Ended
<1> QED
  BY <1>1, <1>2, <1>3, <1>4 DEF Outside

LEMMA TypeStep == TypeOK /\ [Next]_vars => TypeOK'
<1> SUFFICES ASSUME TypeOK, [Next]_vars PROVE TypeOK'
  OBVIOUS
<1>1. CASE UNCHANGED vars
  BY <1>1 DEF vars, TypeOK
<1>2. ASSUME NEW p \in Pid, XvpStep(p) \/ Outside(p) PROVE TypeOK'
  BY <1>2, GatherType, BatchType, LeaveType, OutsideType DEF XvpStep
<1> QED
  BY <1>1, <1>2 DEF Next, Terminated

(***************************************************************************)
(* Every variable keeps its type: no step of any process writes a status,  *)
(* an argument list or a place that the code does not have.                *)
(***************************************************************************)
THEOREM TypeCorrect == Spec => []TypeOK
BY InitType, TypeStep, PTL DEF Spec


----------------------------------------------------------------------------
(***************************************************************************)
(* Sequences: the first item of t may be taken off and put before the rest *)
(* or at the end of s.                                                     *)
(***************************************************************************)
LEMMA HeadFirst ==
  ASSUME NEW t \in Seq(Arg), t # <<>>, NEW u \in Seq(Arg)
  PROVE  <<Head(t)>> \o (Tail(t) \o u) = t \o u
<1>1. Head(t) \in Arg /\ Tail(t) \in Seq(Arg) /\ <<Head(t)>> \in Seq(Arg)
  BY HeadTailProperties
<1>2. Len(t) \in Nat \ {0}
  BY EmptySeq
<1>3. t = <<Head(t)>> \o Tail(t)
  <2>1. SubSeq(t, 1, Len(t)) = <<t[1]>> \o SubSeq(t, 2, Len(t))
    BY <1>2, SubSeqRecursiveFirst
  <2>2. SubSeq(t, 1, Len(t)) = t /\ Tail(t) = SubSeq(t, 2, Len(t))
    BY SubSeqFull, TailIsSubSeq
  <2>3. Head(t) = t[1]
    BY <1>2
  <2> QED
    BY <2>1, <2>2, <2>3
<1>4. <<Head(t)>> \o (Tail(t) \o u) = (<<Head(t)>> \o Tail(t)) \o u
  BY <1>1, ConcatAssociative
<1> QED
  BY <1>3, <1>4

LEMMA MoveHead ==
  \A s, t, u \in Seq(Arg) :
    t # <<>> => Append(s, Head(t)) \o (Tail(t) \o u) = s \o (t \o u)
<1> SUFFICES ASSUME NEW s \in Seq(Arg), NEW t \in Seq(Arg), NEW u \in Seq(Arg),
                    t # <<>>
             PROVE  Append(s, Head(t)) \o (Tail(t) \o u) = s \o (t \o u)
  OBVIOUS
<1>1. Head(t) \in Arg /\ Tail(t) \in Seq(Arg) /\ <<Head(t)>> \in Seq(Arg)
  BY HeadTailProperties
<1>2. Tail(t) \o u \in Seq(Arg)
  BY <1>1, ConcatProperties
<1>3. Append(s, Head(t)) = s \o <<Head(t)>>
  BY <1>1, AppendIsConcat
<1>4. (s \o <<Head(t)>>) \o (Tail(t) \o u) = s \o (<<Head(t)>> \o (Tail(t) \o u))
  BY <1>1, <1>2, ConcatAssociative
<1> QED
  BY <1>3, <1>4, HeadFirst

LEMMA AppendNotEmpty == \A s \in Seq(Arg), a \in Arg : Append(s, a) # <<>>
BY AppendProperties

LEMMA ConcatArgs ==
  \A s, t, u \in Seq(Arg) : (s \o t) \o u = s \o (t \o u)
BY ConcatAssociative

(***************************************************************************)
(* Memories: the fields have their types, and what append does to them.    *)
(***************************************************************************)
LEMMA MemoryFields ==
  ASSUME NEW m \in Memory
  PROVE  /\ m.argv \in Seq(Arg) /\ m.used \in Nat
         /\ m.pend \in Seq(Arg) /\ m.buf \in Seq(Arg)
         /\ m.err \in Int /\ m.child \in 0 .. MaxPid
BY DEF Memory

LEMMA AppendedFields ==
  ASSUME NEW m \in Memory, NEW a \in Arg
  PROVE  /\ Appended(m, a) \in Memory
         /\ Appended(m, a).argv = Append(m.argv, a)
         /\ Appended(m, a).used = m.used + ItemSize(ArgLen[a])
         /\ Appended(m, a).pend = m.pend
         /\ Appended(m, a).buf = m.buf
         /\ Appended(m, a).child = m.child
BY AppendedType DEF Appended, Memory

(***************************************************************************)
(* A memory that has room for an argument is within the limits with it.    *)
(***************************************************************************)
LEMMA AppendBounded ==
  ASSUME NEW m \in Memory, NEW a \in Arg,
         ~IsArgvFull(Count(m), m.used, ArgLen[a])
  PROVE  Bounded(Appended(m, a))
<1> DEFINE n == Appended(m, a)
<1>1. /\ Count(m) \in Nat /\ Count(n) = Count(m) + 1
  <2>1. Len(Append(m.argv, a)) = Len(m.argv) + 1 /\ Len(m.argv) \in Nat
    BY MemoryFields, AppendProperties, LenProperties
  <2>2. Len(n.argv) = Len(m.argv) + 1
    BY <2>1, AppendedFields
  <2>3. InitCount \in Nat
    BY LimitAssumption
  <2> QED
    BY <2>1, <2>2, <2>3 DEF Count
<1>2. /\ ArgLen[a] \in Nat /\ m.used \in Nat
      /\ ArgcMax \in Nat /\ SizeArgs \in Nat
  BY ArgAssumption, LimitAssumption, MemoryFields
<1>3. /\ ItemSize(ArgLen[a]) \in Nat
      /\ ItemSize(ArgLen[a]) <= ArgLen[a] + WORD
  BY <1>2, ItemSizeBounds
<1>4. n.used = m.used + ItemSize(ArgLen[a])
  BY AppendedFields
<1>5. /\ Count(m) < ArgcMax
      /\ FullSize(Count(m), m.used) + ArgLen[a] + 1 < SizeArgs
  BY <1>1, <1>2 DEF IsArgvFull, FullSize, WORD
<1> HIDE DEF n
<1> QED
  BY <1>1, <1>2, <1>3, <1>4, <1>5 DEF Bounded, FullSize, WORD, n

----------------------------------------------------------------------------
LEMMA RootIsPid == Root \in Pid
BY ProcessAssumption DEF Root, Pid

----------------------------------------------------------------------------
(***************************************************************************)
(* Every step but a fork keeps the memories of the others, and of their    *)
(* places it changes at most those of children that are reaped.            *)
(***************************************************************************)
StepFrame(p) ==
  /\ UNCHANGED <<opt, list, parent>>
  /\ pc[p] # "free" /\ pc'[p] # "free"
  /\ \A q \in Pid \ {p} :
       /\ mem'[q] = mem[q]
       /\ pc'[q] = pc[q] \/ (pc[q] = "zombie" /\ pc'[q] = "gone")

LEMMA StepFrameHolds ==
  ASSUME TypeOK, NEW p \in Pid, XvpStep(p) \/ Outside(p), ~Fork(p)
  PROVE  StepFrame(p)
<1>1. pc \in [Pid -> PC] /\ mem \in [Pid -> Memory]
  BY DEF TypeOK
<1> USE <1>1 DEF Goto, FailWith, Exit, start, file, kernel, history, StepFrame
<1>2. CASE AppendPending(p) \/ AppendPendingFails(p) \/ SkipRead(p)
  BY <1>2 DEF AppendPending, AppendPendingFails, SkipRead
<1>3. CASE Begin(p) \/ ReadBlock(p)
  BY <1>3 DEF Begin, ReadBlock
<1>4. CASE EndOfFile(p) \/ SetAside(p) \/ BufferDone(p)
  BY <1>4 DEF EndOfFile, SetAside, BufferDone
<1>5. CASE TakeArg(p) \/ TakeArgFails(p)
  BY <1>5 DEF TakeArg, TakeArgFails
<1>6. CASE ForceOnce(p) \/ ForkFails(p) \/ Refine(p)
  BY <1>6 DEF ForceOnce, ForkFails, Refine
<1>7. CASE ReapAny(p) \/ ReapNone(p)
  BY <1>7 DEF ReapAny, ReapNone, Zombies, Children, AfterReap
<1>8. CASE WaitGone(p) \/ WaitExited(p) \/ WaitEvent(p)
  BY <1>8 DEF WaitGone, WaitExited, WaitEvent, Zombies, Children
<1>9. CASE Close(p) \/ AwaitAny(p) \/ Fail(p)
  BY <1>9 DEF Close, AwaitAny, Fail, Zombies, Children
<1>10. CASE ExecNothing(p)
  BY <1>10 DEF ExecNothing
<1>11. CASE ExecProgram(p) \/ ExecRetry(p)
  BY <1>11 DEF ExecProgram, ExecRetry
<1>12. CASE ExecFails(p) \/ RunErr(p)
  BY <1>12 DEF ExecFails, RunErr
<1>13. CASE ProgramExit(p) \/ Kill(p)
  BY <1>13 DEF ProgramExit, Kill
<1>14. CASE Stop(p) \/ Continue(p)
  BY <1>14 DEF Stop, Continue
<1> QED
  BY <1>2, <1>3, <1>4, <1>5, <1>6, <1>7, <1>8, <1>9, <1>10, <1>11, <1>12,
     <1>13, <1>14
     DEF XvpStep, Gather, Batch, Leave, Outside

(***************************************************************************)
(* What the fork of p does.                                                *)
(***************************************************************************)
ForksTo(p, c) ==
  /\ UNCHANGED <<opt, list>>
  /\ pc[p] = "ready" /\ pc[c] = "free" /\ c # p
  /\ \A d \in Pid : pc[d] = "free" => c <= d
  /\ pc'[p] = "reap" /\ pc'[c] = "exec" /\ parent'[c] = p
  /\ mem'[p].child = c
  /\ \A n \in {mem'[p], mem'[c]} :
       n.argv = mem[p].argv /\ n.used = mem[p].used /\ n.pend = mem[p].pend
  /\ \A q \in Pid \ {c} : parent'[q] = parent[q]
  /\ \A q \in Pid \ {p, c} : mem'[q] = mem[q] /\ pc'[q] = pc[q]

LEMMA ForkSteps ==
  ASSUME TypeOK, NEW p \in Pid, Fork(p)
  PROVE  \E c \in Pid : ForksTo(p, c)
<1>0. /\ pc \in [Pid -> PC] /\ mem \in [Pid -> Memory]
      /\ parent \in [Pid -> 0 .. MaxPid] /\ mem[p] \in Memory
  BY DEF TypeOK
<1>1. PICK c \in Pid :
        /\ pc[c] = "free"
        /\ \A d \in Pid : pc[d] = "free" => c <= d
        /\ pc' = [pc EXCEPT ![p] = "reap", ![c] = "exec"]
        /\ mem' = [mem EXCEPT ![p].child = c,
                              ![c] = [mem[p] EXCEPT !.child = 0]]
        /\ parent' = [parent EXCEPT ![c] = p]
  BY DEF Fork
<1>2. pc[p] = "ready" /\ UNCHANGED <<opt, list>> /\ c # p
  BY <1>1 DEF Fork, start
<1>3. /\ pc'[p] = "reap" /\ pc'[c] = "exec" /\ parent'[c] = p
      /\ mem'[p] = [mem[p] EXCEPT !.child = c]
      /\ mem'[c] = [mem[p] EXCEPT !.child = 0]
      /\ \A q \in Pid \ {c} : parent'[q] = parent[q]
      /\ \A q \in Pid \ {p, c} : mem'[q] = mem[q] /\ pc'[q] = pc[q]
  BY <1>0, <1>1, <1>2
<1>4. /\ mem'[p].argv = mem[p].argv /\ mem'[c].argv = mem[p].argv
      /\ mem'[p].used = mem[p].used /\ mem'[c].used = mem[p].used
      /\ mem'[p].pend = mem[p].pend /\ mem'[c].pend = mem[p].pend
      /\ mem'[p].child = c
  BY <1>0, <1>3 DEF Memory
<1> QED
  BY <1>1, <1>2, <1>3, <1>4 DEF ForksTo

----------------------------------------------------------------------------
(***************************************************************************)
(* Batches that a step leaves alone.                                       *)
(***************************************************************************)
LEMMA SameBatch ==
  ASSUME NEW m, NEW n, NEW from, NEW to, BatchOK(from, m),
         n.argv = m.argv, n.used = m.used, n.pend = m.pend,
         to \in Gathering \cup {"close"} =>
           to # "ready" /\ from \in {"setup", "read", "parse"},
         to = "exec" => from = "ready"
  PROVE  BatchOK(to, n)
<1>1. Bounded(m) => Bounded(n)
  BY DEF Bounded, Count
<1>2. Single(m) => Single(n)
  BY DEF Single
<1> QED
  BY <1>1, <1>2 DEF BatchOK, Gathering

LEMMA EmptyBatch ==
  ASSUME NEW m, m.argv = <<>>, m.used = InitUsed,
         m.pend = <<>> \/ \E a \in Arg : m.pend = <<a>>
  PROVE  BatchOK("top", m)
<1>1. Len(<<>>) = 0
  OBVIOUS
<1>2. Bounded(m)
  BY <1>1, LimitAssumption DEF Bounded, Count, FullSize, WORD
<1> QED
  BY <1>2 DEF BatchOK

(***************************************************************************)
(* A batch with an argument that could not fit has no room for another.    *)
(***************************************************************************)
LEMMA SingleIsFull ==
  ASSUME NEW m, Single(m), NEW extra \in Nat
  PROVE  IsArgvFull(Count(m), m.used, extra)
<1>1. PICK a \in Arg : /\ NeverFits(a)
                       /\ m.argv = <<a>> /\ m.used = InitUsed + ItemSize(ArgLen[a])
  BY DEF Single
<1>2. Len(<<a>>) = 1
  OBVIOUS
<1>3. Count(m) = InitCount + 1
  BY <1>1, <1>2 DEF Count
<1>4. /\ ArgLen[a] \in Nat /\ InitCount \in Nat /\ InitUsed \in Nat
      /\ ArgcMax \in Nat /\ SizeArgs \in Nat
  BY ArgAssumption, LimitAssumption
<1>5. ItemSize(ArgLen[a]) \in Nat /\ ArgLen[a] + 1 <= ItemSize(ArgLen[a])
  BY <1>4, ItemSizeBounds
<1> QED
  BY <1>1, <1>3, <1>4, <1>5 DEF NeverFits, IsArgvFull, FullSize, WORD

(***************************************************************************)
(* An argument in an empty batch: it is within the limits or alone.        *)
(***************************************************************************)
LEMMA FirstAppended ==
  ASSUME NEW m \in Memory, NEW a \in Arg, m.argv = <<>>, m.used = InitUsed
  PROVE  Bounded(Appended(m, a)) \/ Single(Appended(m, a))
<1>1. Len(<<>>) = 0
  OBVIOUS
<1>2. Count(m) = InitCount
  BY <1>1, LimitAssumption DEF Count
<1>3. CASE ~NeverFits(a)
  BY <1>2, <1>3, AppendBounded DEF NeverFits
<1>4. CASE NeverFits(a)
  <2>1. Append(<<>>, a) = <<a>>
    OBVIOUS
  <2>2. /\ Appended(m, a).argv = <<a>>
        /\ Appended(m, a).used = InitUsed + ItemSize(ArgLen[a])
    BY <2>1, AppendedFields
  <2> QED
    BY <1>4, <2>2 DEF Single
<1> QED
  BY <1>3, <1>4

LEMMA InitBatch == Init => BatchInv
<1> SUFFICES ASSUME Init, NEW p \in Pid PROVE BatchOK(pc[p], mem[p])
  BY DEF BatchInv
<1>1. mem[p] = NoMemory /\ pc[p] \in {"setup", "free"}
  BY DEF Init
<1>2. /\ mem[p].argv = <<>> /\ mem[p].used = InitUsed /\ mem[p].pend = <<>>
  BY <1>1 DEF NoMemory
<1>3. BatchOK("top", mem[p])
  BY <1>2, EmptyBatch
<1> QED
  BY <1>1, <1>2, <1>3 DEF BatchOK, Gathering

(***************************************************************************)
(* The batch of the process that takes a step.                             *)
(***************************************************************************)
LEMMA AppendPendingBatch ==
  ASSUME TypeOK, NEW p \in Pid, BatchOK(pc[p], mem[p]), AppendPending(p)
  PROVE  BatchOK(pc'[p], mem'[p])
<1> DEFINE m == mem[p]
           n == mem'[p]
<1>0. /\ pc \in [Pid -> PC] /\ mem \in [Pid -> Memory] /\ m \in Memory
      /\ pc[p] = "top" /\ pc'[p] = "read"
  BY DEF TypeOK, AppendPending, Goto
<1>1. CASE m.pend = <<>>
  <2>1. n = m
    BY <1>0, <1>1 DEF AppendPending
  <2> QED
    BY <1>0, <1>1, <2>1 DEF BatchOK, Gathering
<1>2. CASE m.pend # <<>>
  <2>1. /\ m.argv = <<>> /\ m.used = InitUsed /\ m.argv \in Seq(Arg)
        /\ \E a \in Arg : m.pend = <<a>>
    BY <1>0, <1>2, MemoryFields DEF BatchOK, Gathering
  <2>2. PICK a \in Arg : m.pend = <<a>>
    BY <2>1
  <2>3. n = [Appended(m, a) EXCEPT !.pend = <<>>]
    <3>1. Head(m.pend) = a
      BY <2>2
    <3> QED
      BY <1>0, <1>2, <3>1 DEF AppendPending
  <2>4. /\ Appended(m, a) \in Memory
        /\ Appended(m, a).argv = Append(m.argv, a)
    BY <1>0, AppendedFields
  <2>5. /\ n.argv = Appended(m, a).argv /\ n.used = Appended(m, a).used
        /\ n.pend = <<>>
    BY <2>3, <2>4 DEF Memory
  <2>6. n.argv # <<>>
    BY <2>1, <2>4, <2>5, AppendNotEmpty
  <2>7. Bounded(n) \/ Single(n)
    <3>1. Bounded(Appended(m, a)) \/ Single(Appended(m, a))
      BY <1>0, <2>1, FirstAppended
    <3> QED
      BY <2>5, <3>1 DEF Bounded, Single, Count
  <2> QED
    BY <1>0, <2>5, <2>6, <2>7 DEF BatchOK
<1> QED
  BY <1>1, <1>2

LEMMA TakeArgBatch ==
  ASSUME TypeOK, NEW p \in Pid, BatchOK(pc[p], mem[p]), TakeArg(p)
  PROVE  BatchOK(pc'[p], mem'[p])
<1> DEFINE m == mem[p]
           n == mem'[p]
           a == Head(m.buf)
<1>0. /\ pc \in [Pid -> PC] /\ mem \in [Pid -> Memory] /\ m \in Memory
      /\ pc[p] = "parse" /\ pc'[p] \in {"parse", "ready"} /\ m.buf # <<>>
      /\ ~IsArgvFull(Count(m), m.used, ArgLen[a])
      /\ n = [Appended(m, a) EXCEPT !.buf = Tail(@)]
  BY DEF TypeOK, TakeArg, Goto
<1>1. a \in Arg /\ ArgLen[a] \in Nat /\ m.argv \in Seq(Arg)
  BY <1>0, MemoryFields, HeadTailProperties, ArgAssumption
<1>2. /\ Appended(m, a) \in Memory
      /\ Appended(m, a).argv = Append(m.argv, a)
      /\ Appended(m, a).pend = m.pend
  BY <1>0, <1>1, AppendedFields
<1>3. /\ n.argv = Appended(m, a).argv /\ n.used = Appended(m, a).used
      /\ n.pend = m.pend
  BY <1>0, <1>2 DEF Memory
<1>4. n.argv # <<>> /\ m.pend = <<>>
  BY <1>0, <1>1, <1>2, <1>3, AppendNotEmpty DEF BatchOK
<1>5. Bounded(n)
  <2>1. Bounded(Appended(m, a))
    BY <1>0, <1>1, AppendBounded
  <2> QED
    BY <1>3, <2>1 DEF Bounded, Count
<1> QED
  BY <1>0, <1>3, <1>4, <1>5 DEF BatchOK

LEMMA SetAsideBatch ==
  ASSUME TypeOK, NEW p \in Pid, BatchOK(pc[p], mem[p]), SetAside(p)
  PROVE  BatchOK(pc'[p], mem'[p])
<1> DEFINE m == mem[p]
           n == mem'[p]
           a == Head(m.buf)
<1>0. /\ pc \in [Pid -> PC] /\ mem \in [Pid -> Memory] /\ m \in Memory
      /\ pc[p] = "parse" /\ pc'[p] = "ready" /\ m.buf # <<>>
      /\ IsArgvFull(Count(m), m.used, ArgLen[a])
      /\ n = [m EXCEPT !.pend = <<a>>, !.buf = Tail(@)]
  BY DEF TypeOK, SetAside, Goto
<1>1. a \in Arg
  BY <1>0, MemoryFields, HeadTailProperties
<1>2. n.argv = m.argv /\ n.used = m.used /\ n.pend = <<a>>
  BY <1>0 DEF Memory
<1>3. Bounded(m) \/ Single(m) => Bounded(n) \/ Single(n)
  BY <1>2 DEF Bounded, Single, Count
<1>4. m.argv = <<>> => m.used = InitUsed
  BY <1>0 DEF BatchOK, Gathering
<1>5. m.argv = <<>> => NeverFits(a)
  <2> SUFFICES ASSUME m.argv = <<>> PROVE NeverFits(a)
    OBVIOUS
  <2>1. Len(<<>>) = 0
    OBVIOUS
  <2>2. Count(m) = InitCount
    BY <2>1, LimitAssumption DEF Count
  <2> QED
    BY <1>0, <1>4, <2>2 DEF NeverFits
<1> QED
  BY <1>0, <1>1, <1>2, <1>3, <1>4, <1>5 DEF BatchOK

LEMMA RefineBatch ==
  ASSUME TypeOK, NEW p \in Pid, BatchOK(pc[p], mem[p]), Refine(p)
  PROVE  BatchOK(pc'[p], mem'[p])
<1>1. /\ mem[p] \in Memory /\ pc'[p] = "top"
      /\ mem'[p] = [mem[p] EXCEPT !.argv = <<>>, !.used = InitUsed]
  BY DEF TypeOK, Refine, Goto
<1>2. /\ mem'[p].argv = <<>> /\ mem'[p].used = InitUsed
      /\ mem'[p].pend = mem[p].pend
  BY <1>1 DEF Memory
<1> QED
  BY <1>1, <1>2, EmptyBatch DEF BatchOK

LEMMA OwnBatch ==
  ASSUME TypeOK, NEW p \in Pid, BatchOK(pc[p], mem[p]),
         XvpStep(p) \/ Outside(p), ~Fork(p)
  PROVE  BatchOK(pc'[p], mem'[p])
<1> DEFINE m == mem[p]
           n == mem'[p]
<1>0. pc \in [Pid -> PC] /\ mem \in [Pid -> Memory] /\ m \in Memory
  BY DEF TypeOK
<1>1. CASE AppendPending(p) \/ TakeArg(p) \/ SetAside(p) \/ Refine(p)
  BY <1>1, AppendPendingBatch, TakeArgBatch, SetAsideBatch, RefineBatch
<1>2. ASSUME ~AppendPending(p), ~TakeArg(p), ~SetAside(p), ~Refine(p)
      PROVE  /\ n.argv = m.argv /\ n.used = m.used /\ n.pend = m.pend
             /\ pc'[p] \in Gathering \cup {"close"} =>
                  pc'[p] # "ready" /\ pc[p] \in {"setup", "read", "parse"}
             /\ pc'[p] # "exec"
  <2> USE <1>0, <1>2 DEF Goto, FailWith, Exit, start, file, kernel, history,
          Gathering, Memory
  <2>2. CASE AppendPendingFails(p) \/ TakeArgFails(p)
    BY <2>2 DEF AppendPendingFails, TakeArgFails
  <2>1. CASE Begin(p) \/ RunErr(p)
    BY <2>1 DEF Begin, RunErr
  <2>3. CASE SkipRead(p) \/ EndOfFile(p) \/ BufferDone(p)
    BY <2>3 DEF SkipRead, EndOfFile, BufferDone
  <2>4. CASE ReadBlock(p)
    <3>1. PICK s, t : mem' = [mem EXCEPT ![p].buf = s, ![p].part = t]
      BY <2>4, ZenonT(30) DEF ReadBlock
    <3>2. n = [m EXCEPT !.buf = s, !.part = t]
      BY <3>1
    <3>3. n.argv = m.argv /\ n.used = m.used /\ n.pend = m.pend
      BY <3>2
    <3> QED
      BY <2>4, <3>3 DEF ReadBlock
  <2>5. CASE ForceOnce(p) \/ ForkFails(p)
    BY <2>5 DEF ForceOnce, ForkFails
  <2>6. CASE ReapAny(p) \/ ReapNone(p)
    <3>1. mem' = [mem EXCEPT ![p] = AfterReapErr(m)]
      BY <2>6 DEF ReapAny, ReapNone
    <3>2. n.argv = m.argv /\ n.used = m.used /\ n.pend = m.pend
      BY <3>1 DEF AfterReapErr
    <3>3. pc'[p] \notin Gathering \cup {"close", "exec"}
      BY <2>6 DEF ReapAny, ReapNone, Zombies, Children, AfterReap
    <3> QED
      BY <3>2, <3>3
  <2>7. CASE WaitGone(p) \/ WaitEvent(p)
    BY <2>7 DEF WaitGone, WaitEvent
  <2>8. CASE WaitExited(p)
    <3>1. n.argv = m.argv /\ n.used = m.used /\ n.pend = m.pend
      BY <2>8 DEF WaitExited
    <3>2. pc'[p] \notin Gathering \cup {"close", "exec"}
      BY <2>8 DEF WaitExited, Zombies, Children
    <3> QED
      BY <3>1, <3>2
  <2>9. CASE Close(p) \/ AwaitAny(p) \/ Fail(p)
    BY <2>9 DEF Close, AwaitAny, Fail, Zombies, Children
  <2>10. CASE ExecNothing(p)
    BY <2>10 DEF ExecNothing
  <2>11. CASE ExecProgram(p) \/ ExecRetry(p)
    BY <2>11 DEF ExecProgram, ExecRetry
  <2>12. CASE ExecFails(p)
    BY <2>12 DEF ExecFails
  <2>13. CASE ProgramExit(p) \/ Kill(p)
    BY <2>13 DEF ProgramExit, Kill
  <2>14. CASE Stop(p) \/ Continue(p)
    BY <2>14 DEF Stop, Continue
  <2> QED
    BY <2>1, <2>2, <2>3, <2>4, <2>5, <2>6, <2>7, <2>8, <2>9, <2>10, <2>11,
       <2>12, <2>13, <2>14
       DEF XvpStep, Gather, Batch, Leave, Outside
<1> QED
  BY <1>1, <1>2, SameBatch

LEMMA BatchStep == TypeOK /\ BatchInv /\ [Next]_vars => BatchInv'
<1> SUFFICES ASSUME TypeOK, BatchInv, [Next]_vars PROVE BatchInv'
  OBVIOUS
<1>1. CASE UNCHANGED vars
  BY <1>1 DEF vars, BatchInv, BatchOK, Bounded, Single, Count
<1>2. ASSUME NEW p \in Pid, XvpStep(p) \/ Outside(p) PROVE BatchInv'
  <2> SUFFICES ASSUME NEW q \in Pid PROVE BatchOK(pc'[q], mem'[q])
    BY DEF BatchInv, BatchOK, Bounded, Single, Count
  <2>0. BatchOK(pc[q], mem[q]) /\ BatchOK(pc[p], mem[p])
    BY DEF BatchInv
  <2>1. CASE Fork(p)
    <3>1. PICK c \in Pid : ForksTo(p, c)
      BY <2>1, ForkSteps
    <3>2. CASE q \in {p, c}
      <4>1. /\ mem'[q].argv = mem[p].argv /\ mem'[q].used = mem[p].used
            /\ mem'[q].pend = mem[p].pend
            /\ pc'[q] \notin Gathering \cup {"close"} /\ pc[p] = "ready"
        BY <3>1, <3>2 DEF ForksTo, Gathering
      <4> QED
        BY <2>0, <4>1, SameBatch
    <3>3. CASE q \notin {p, c}
      BY <2>0, <3>1, <3>3 DEF ForksTo
    <3> QED
      BY <3>2, <3>3
  <2>2. CASE ~Fork(p)
    <3>1. CASE q = p
      BY <1>2, <2>0, <2>2, <3>1, OwnBatch
    <3>2. CASE q # p
      <4>1. mem'[q] = mem[q] /\ pc'[q] \in {pc[q], "gone"}
        BY <1>2, <2>2, <3>2, StepFrameHolds DEF StepFrame
      <4>2. CASE pc'[q] = pc[q]
        BY <2>0, <4>1, <4>2
      <4>3. CASE pc'[q] = "gone"
        BY <2>0, <4>1, <4>3, SameBatch DEF Gathering
      <4> QED
        BY <4>1, <4>2, <4>3
    <3> QED
      BY <3>1, <3>2
  <2> QED
    BY <2>1, <2>2
<1> QED
  BY <1>1, <1>2 DEF Next, Terminated

(***************************************************************************)
(* BatchInv, of xvp itself.                                                *)
(***************************************************************************)
LEMMA RootBatch ==
  ASSUME BatchInv
  PROVE  /\ mem[Root].pend = <<>> \/ \E a \in Arg : mem[Root].pend = <<a>>
         /\ pc[Root] \in Gathering /\ mem[Root].argv = <<>> =>
              mem[Root].used = InitUsed
         /\ pc[Root] \in {"setup", "read", "parse", "close"} =>
              mem[Root].pend = <<>>
         /\ pc[Root] = "top" /\ mem[Root].pend # <<>> => mem[Root].argv = <<>>
BY RootIsPid DEF BatchInv, BatchOK

----------------------------------------------------------------------------
LEMMA InitInv == OneReader /\ Init => Inv
<1> SUFFICES ASSUME OneReader, Init PROVE Inv
  OBVIOUS
<1> USE RootIsPid DEF Init
<1>1. TypeOK /\ BatchInv /\ PartInv
  BY InitType, InitBatch DEF PartInv, Intact, PartOf, NoMemory
<1>2. PlaceInv
  BY DEF PlaceInv, RootPlaces, PC, Loop, Gathering, Awaiting, Leaving,
         Executing, Ended
<1>3. mem[Root] = NoMemory
  OBVIOUS
<1>4. FileInv
  <2>1. list \in Seq(Arg)
    BY ArgAssumption
  <2>2. <<>> \o list = list
    BY <2>1, ConcatEmptySeq
  <2>3. Current = <<>>
    BY <1>3 DEF Current, NoMemory
  <2> QED
    BY <1>3, <2>2, <2>3 DEF FileInv, NoMemory
<1>5. SerialInv
  BY DEF SerialInv
<1> QED
  BY <1>1, <1>2, <1>4, <1>5 DEF Inv

----------------------------------------------------------------------------
(***************************************************************************)
(* A forked process never disturbs xvp itself: it keeps every memory, the  *)
(* file and what was handed over, moves itself among the places outside    *)
(* run(), and reaps its own children at most.                              *)
(***************************************************************************)
ChildFrame(p) ==
  /\ UNCHANGED <<opt, list, rest, cut, mem, parent, handed>>
  /\ pc[p] \in Executing
  /\ pc'[p] \in Ended \cup (Executing \ {"exec"})
  /\ \A q \in Pid \ {p} : pc'[q] = pc[q] \/ (pc[q] = "zombie" /\ pc'[q] = "gone")

LEMMA ChildSteps ==
  ASSUME TypeOK, PlaceInv, NEW p \in Pid \ {Root}, XvpStep(p) \/ Outside(p)
  PROVE  ChildFrame(p)
<1>1. /\ pc \in [Pid -> PC]
      /\ pc[p] \notin Loop \cup Leaving
      /\ pc[p] = "exec" => mem[p].argv # <<>>
  BY DEF TypeOK, PlaceInv
<1> USE <1>1 DEF Goto, FailWith, Exit, start, file, kernel, history, ChildFrame,
        Loop, Gathering, Awaiting, Leaving, Executing, Ended
<1>2. CASE Gather(p)
  BY <1>2 DEF Gather, Begin, AppendPending, AppendPendingFails, SkipRead,
       ReadBlock, EndOfFile, TakeArg, TakeArgFails, SetAside, BufferDone
<1>3. CASE Batch(p)
  BY <1>3 DEF Batch, ForceOnce, Fork, ForkFails, ReapAny, ReapNone, WaitGone,
       WaitExited, WaitEvent, Refine
<1>4. CASE RunErr(p) \/ Close(p) \/ Fail(p)
  BY <1>4 DEF RunErr, Close, Fail
<1>5. CASE AwaitAny(p)
  BY <1>5 DEF AwaitAny, Zombies, Children
<1>6. CASE ExecNothing(p)
  BY <1>6 DEF ExecNothing
<1>7. CASE ExecProgram(p)
  BY <1>7 DEF ExecProgram
<1>8. CASE ExecRetry(p)
  BY <1>8 DEF ExecRetry
<1>9. CASE ExecFails(p)
  BY <1>9 DEF ExecFails
<1>10. CASE ProgramExit(p)
  BY <1>10 DEF ProgramExit
<1>11. CASE Kill(p)
  BY <1>11 DEF Kill, PC
<1>12. CASE Stop(p)
  BY <1>12 DEF Stop
<1>13. CASE Continue(p)
  BY <1>13 DEF Continue
<1> QED
  BY <1>2, <1>3, <1>4, <1>5, <1>6, <1>7, <1>8, <1>9, <1>10, <1>11, <1>12, <1>13
     DEF XvpStep, Leave, Outside

LEMMA ChildKeepsInv ==
  ASSUME Inv, NEW p \in Pid \ {Root}, ChildFrame(p), TypeOK', BatchInv', PartInv'
  PROVE  Inv'
<1> USE RootIsPid DEF Inv, ChildFrame
<1>1. PlaceInv'
  BY DEF PlaceInv, RootPlaces, TypeOK, PC, Loop, Gathering, Awaiting, Leaving,
         Executing, Ended
<1>2. pc'[Root] = pc[Root] \/ pc'[Root] = "gone"
  OBVIOUS
<1>3. OneReader'
  BY DEF OneReader, ListFits
<1>4. FileInv'
  BY <1>2 DEF FileInv, Current, Loop, Gathering, Awaiting
<1>5. SerialInv'
  <2> SUFFICES ASSUME ~opt.noWait, NEW q \in Pid \ {Root},
                      pc'[q] \notin {"free"} \cup Ended
               PROVE  /\ pc'[Root] \in {"reap", "wait"}
                      /\ q = mem'[Root].child
                      /\ parent'[q] = Root
    BY DEF SerialInv
  <2>1. pc[q] \notin {"free"} \cup Ended
    BY DEF Executing, Ended
  <2>2. pc[Root] \in {"reap", "wait"} /\ q = mem[Root].child /\ parent[q] = Root
    BY <2>1 DEF SerialInv
  <2> QED
    BY <2>2
<1> QED
  BY <1>1, <1>3, <1>4, <1>5

----------------------------------------------------------------------------
(***************************************************************************)
(* xvp itself on its way out: nothing of the loop matters any more.        *)
(***************************************************************************)
LeaveFrame ==
  /\ UNCHANGED <<opt, list, mem, parent>>
  /\ pc[Root] \notin {"reap", "wait"}
  /\ pc'[Root] \in RootPlaces \ Loop
  /\ \A q \in Pid \ {Root} : pc'[q] = pc[q] \/ (pc[q] = "zombie" /\ pc'[q] = "gone")

LEMMA LeaveSteps ==
  ASSUME TypeOK, PlaceInv, Leave(Root) \/ Outside(Root)
  PROVE  LeaveFrame
<1>1. /\ pc \in [Pid -> PC] /\ Root \in Pid
      /\ pc[Root] \notin {"free", "exec"}
  BY RootIsPid DEF TypeOK, PlaceInv, RootPlaces
<1> USE <1>1 DEF Goto, Exit, start, file, kernel, history, LeaveFrame, RootPlaces,
        PC, Loop, Gathering, Awaiting, Leaving, Executing, Ended
<1>2. CASE RunErr(Root) \/ Close(Root)
  BY <1>2 DEF RunErr, Close
<1>3. CASE AwaitAny(Root)
  BY <1>3 DEF AwaitAny, Zombies, Children
<1>4. CASE Fail(Root)
  BY <1>4 DEF Fail
<1>5. CASE ExecNothing(Root)
  BY <1>5 DEF ExecNothing
<1>6. CASE ExecProgram(Root)
  BY <1>6 DEF ExecProgram
<1>7. CASE ExecRetry(Root)
  BY <1>7 DEF ExecRetry
<1>8. CASE ExecFails(Root)
  BY <1>8 DEF ExecFails
<1>9. CASE ProgramExit(Root)
  BY <1>9 DEF ProgramExit
<1>10. CASE Kill(Root) \/ Stop(Root)
  BY <1>10 DEF Kill, Stop
<1>11. CASE Continue(Root)
  BY <1>11 DEF Continue
<1> QED
  BY <1>2, <1>3, <1>4, <1>5, <1>6, <1>7, <1>8, <1>9, <1>10, <1>11
     DEF Leave, Outside

LEMMA LeaveKeepsInv ==
  ASSUME Inv, LeaveFrame, TypeOK', BatchInv', PartInv'
  PROVE  Inv'
<1> USE RootIsPid DEF Inv, LeaveFrame
<1>1. PlaceInv'
  BY DEF PlaceInv, Loop, Gathering, Awaiting, Leaving
<1>2. OneReader'
  BY DEF OneReader, ListFits
<1>3. FileInv'
  BY DEF FileInv
<1>4. SerialInv'
  BY DEF SerialInv, Ended
<1> QED
  BY <1>1, <1>2, <1>3, <1>4

----------------------------------------------------------------------------
(***************************************************************************)
(* xvp itself gathering a batch: nothing else changes, and without -n      *)
(* nobody else is alive.                                                   *)
(***************************************************************************)
GatherFrame ==
  /\ UNCHANGED <<opt, list, parent, handed>>
  /\ pc[Root] \in Gathering
  /\ pc'[Root] \in Gathering \cup {"close", "fail"}
  /\ \A q \in Pid \ {Root} : pc'[q] = pc[q] /\ mem'[q] = mem[q]

LEMMA GatherSteps ==
  ASSUME TypeOK, Gather(Root)
  PROVE  GatherFrame
<1>1. /\ pc \in [Pid -> PC] /\ mem \in [Pid -> Memory] /\ Root \in Pid
  BY RootIsPid DEF TypeOK
<1> USE <1>1 DEF Goto, FailWith, start, file, kernel, history, GatherFrame, Gathering
<1>2. CASE Begin(Root) \/ AppendPending(Root) \/ SkipRead(Root) \/ EndOfFile(Root)
  BY <1>2 DEF Begin, AppendPending, SkipRead, EndOfFile
<1>3. CASE AppendPendingFails(Root) \/ TakeArgFails(Root)
  BY <1>3 DEF AppendPendingFails, TakeArgFails
<1>4. CASE ReadBlock(Root)
  BY <1>4 DEF ReadBlock
<1>5. CASE TakeArg(Root)
  BY <1>5 DEF TakeArg
<1>6. CASE SetAside(Root) \/ BufferDone(Root)
  BY <1>6 DEF SetAside, BufferDone
<1> QED
  BY <1>2, <1>3, <1>4, <1>5, <1>6 DEF Gather

(***************************************************************************)
(* What is left to show of a gathering step: the file, and that what is    *)
(* ready to be forked is not empty.                                        *)
(***************************************************************************)
LEMMA GatherKeepsInv ==
  ASSUME Inv, GatherFrame, TypeOK', BatchInv', PartInv', FileInv',
         pc'[Root] = "ready" =>
           mem'[Root].argv # <<>> \/ (opt.force /\ mem'[Root].pend # <<>>)
  PROVE  Inv'
<1> USE RootIsPid DEF Inv, GatherFrame
<1>1. PlaceInv'
  BY DEF PlaceInv, RootPlaces, PC, Loop, Gathering, Leaving
<1>2. OneReader'
  BY DEF OneReader, ListFits
<1>3. SerialInv'
  BY DEF SerialInv, Gathering
<1> QED
  BY <1>1, <1>2, <1>3

(***************************************************************************)
(* The sequences of xvp itself.                                            *)
(***************************************************************************)
LEMMA RootSequences ==
  ASSUME TypeOK
  PROVE  /\ mem[Root] \in Memory
         /\ mem[Root].argv \in Seq(Arg) /\ mem[Root].pend \in Seq(Arg)
         /\ mem[Root].buf \in Seq(Arg)
         /\ rest \in Seq(Arg) /\ handed \in Seq(Arg)
         /\ mem[Root].buf \o rest \in Seq(Arg)
<1>1. mem[Root] \in Memory /\ rest \in Seq(Arg) /\ handed \in Seq(Arg)
  BY RootIsPid DEF TypeOK
<1>2. mem[Root].buf \in Seq(Arg)
  BY <1>1, MemoryFields
<1>3. mem[Root].buf \o rest \in Seq(Arg)
  BY <1>1, <1>2, ConcatProperties
<1> QED
  BY <1>1, <1>3, MemoryFields

LEMMA AppendPendingKeepsInv ==
  ASSUME Inv, AppendPending(Root), TypeOK', BatchInv', PartInv'
  PROVE  Inv'
<1> DEFINE m == mem[Root]
           n == mem'[Root]
<1>s. /\ m \in Memory /\ m.argv \in Seq(Arg) /\ m.pend \in Seq(Arg)
      /\ m.buf \in Seq(Arg) /\ rest \in Seq(Arg) /\ m.buf \o rest \in Seq(Arg)
  BY RootSequences DEF Inv
<1>0. /\ GatherFrame /\ mem \in [Pid -> Memory]
      /\ pc[Root] = "top" /\ pc'[Root] = "read" /\ UNCHANGED rest
  BY GatherSteps, RootIsPid DEF Inv, Gather, AppendPending, Goto, TypeOK, file
<1>1. CASE m.pend = <<>>
  <2>1. n = m
    BY <1>0, <1>1, RootIsPid DEF AppendPending
  <2>2. FileInv'
    BY <1>0, <1>1, <2>1 DEF Inv, FileInv, Current, GatherFrame, Loop, Gathering
  <2> QED
    BY <1>0, <2>2, GatherKeepsInv
<1>2. CASE m.pend # <<>>
  <2>1. PICK a \in Arg : m.pend = <<a>>
    BY <1>2, RootBatch DEF Inv
  <2>2. n = [Appended(m, a) EXCEPT !.pend = <<>>] /\ Head(m.pend) = a
    BY <1>0, <1>2, <2>1, RootIsPid DEF AppendPending
  <2>3. /\ Appended(m, a) \in Memory
        /\ n.argv = Append(m.argv, a) /\ n.pend = <<>> /\ n.buf = m.buf
        /\ n.used = Appended(m, a).used /\ n.argv = Appended(m, a).argv
    BY <2>2, AppendedFields, RootSequences, ZenonT(60) DEF Inv, Memory
  <2>4. FileInv'
    <3>1. Append(m.argv, Head(m.pend)) \o (Tail(m.pend) \o (m.buf \o rest))
            = m.argv \o (m.pend \o (m.buf \o rest))
      BY <1>s, <1>2, MoveHead
    <3>2. Tail(m.pend) = n.pend
      BY <2>1, <2>3
    <3>3. n.argv \o (n.pend \o (n.buf \o rest))
            = m.argv \o (m.pend \o (m.buf \o rest))
      BY <2>2, <2>3, <3>1, <3>2
    <3>4. Current = m.argv /\ Current' = n.argv
      BY <1>0 DEF Current, Gathering
    <3> QED
      BY <1>0, <3>3, <3>4 DEF Inv, FileInv, GatherFrame, Loop, Gathering
  <2> QED
    BY <1>0, <2>4, GatherKeepsInv
<1> QED
  BY <1>1, <1>2

LEMMA ReadBlockKeepsInv ==
  ASSUME Inv, ReadBlock(Root), TypeOK', BatchInv', PartInv'
  PROVE  Inv'
<1> DEFINE m == mem[Root]
           n == mem'[Root]
<1>s. /\ m \in Memory /\ m.argv \in Seq(Arg) /\ m.pend \in Seq(Arg)
      /\ m.buf \in Seq(Arg) /\ rest \in Seq(Arg) /\ m.buf \o rest \in Seq(Arg)
  BY RootSequences DEF Inv
<1>0. /\ GatherFrame /\ mem \in [Pid -> Memory]
      /\ pc[Root] = "read" /\ pc'[Root] = "parse" /\ m.buf = <<>>
  BY GatherSteps, RootIsPid DEF Inv, Gather, ReadBlock, Goto, TypeOK
<1>i. Intact(m)
  BY <1>0 DEF Inv, PartInv, Loop, Gathering
<1>1. PICK k \in 0 .. Len(rest) :
        /\ \E t : n = [m EXCEPT !.buf = SubSeq(rest, 1, k), !.part = t]
        /\ rest' = SubSeq(rest, k + 1, Len(rest))
  BY <1>0, <1>i, RootIsPid DEF ReadBlock, Found
<1>2. /\ n.argv = m.argv /\ n.used = m.used /\ n.pend = m.pend
      /\ n.buf = SubSeq(rest, 1, k)
  BY <1>1, RootSequences DEF Inv, Memory
<1>3. n.buf \o rest' = rest
  BY <1>1, <1>2, SplitAt, RootSequences DEF Inv
<1>4. m.buf \o rest = rest
  BY <1>0, ConcatEmptySeq, RootSequences DEF Inv
<1>5. FileInv'
  BY <1>0, <1>2, <1>3, <1>4
     DEF Inv, FileInv, Current, GatherFrame, Loop, Gathering
<1> QED
  BY <1>0, <1>5, GatherKeepsInv

LEMMA TakeArgKeepsInv ==
  ASSUME Inv, TakeArg(Root), TypeOK', BatchInv', PartInv'
  PROVE  Inv'
<1> DEFINE m == mem[Root]
           n == mem'[Root]
           a == Head(m.buf)
<1>s. /\ m \in Memory /\ m.argv \in Seq(Arg) /\ m.pend \in Seq(Arg)
      /\ m.buf \in Seq(Arg) /\ rest \in Seq(Arg) /\ m.buf \o rest \in Seq(Arg)
  BY RootSequences DEF Inv
<1>0. /\ GatherFrame /\ mem \in [Pid -> Memory] /\ UNCHANGED rest
      /\ pc[Root] = "parse" /\ pc'[Root] \in {"parse", "ready"} /\ m.buf # <<>>
      /\ ~IsArgvFull(Count(m), m.used, ArgLen[a])
      /\ n = [Appended(m, a) EXCEPT !.buf = Tail(@)]
  BY GatherSteps, RootIsPid DEF Inv, Gather, TakeArg, Goto, TypeOK, file
<1>1. a \in Arg
  BY <1>0, HeadTailProperties, RootSequences DEF Inv
<1>b. /\ Appended(m, a) \in Memory /\ Appended(m, a).buf = m.buf
      /\ Appended(m, a).argv = Append(m.argv, a) /\ Appended(m, a).pend = m.pend
  BY <1>s, <1>1, AppendedFields
<1>2. /\ n.argv = Append(m.argv, a) /\ n.pend = m.pend /\ n.buf = Tail(m.buf)
      /\ n.used = Appended(m, a).used /\ n.argv = Appended(m, a).argv
  BY <1>0, <1>b DEF Memory
<1>3. n.argv # <<>> /\ m.pend = <<>>
  BY <1>0, <1>1, <1>2, AppendProperties, RootSequences, RootBatch DEF Inv
<1>4. FileInv'
  <2>1. Append(m.argv, a) \o (Tail(m.buf) \o rest) = m.argv \o (m.buf \o rest)
    BY <1>0, <1>s, MoveHead, ZenonT(60)
  <2>2. Tail(m.buf) \o rest \in Seq(Arg)
    BY <1>0, HeadTailProperties, ConcatProperties, RootSequences DEF Inv
  <2>3. /\ <<>> \o (Tail(m.buf) \o rest) = Tail(m.buf) \o rest
        /\ <<>> \o (m.buf \o rest) = m.buf \o rest
    BY <2>2, ConcatEmptySeq, RootSequences DEF Inv
  <2>4. Current = m.argv /\ Current' = n.argv
    BY <1>0 DEF Current, Gathering
  <2>5. n.argv \o (n.pend \o (n.buf \o rest))
          = m.argv \o (m.pend \o (m.buf \o rest))
    BY <1>2, <1>3, <2>1, <2>3
  <2> QED
    BY <1>0, <2>4, <2>5 DEF Inv, FileInv, GatherFrame, Loop, Gathering
<1> QED
  BY <1>0, <1>3, <1>4, GatherKeepsInv

(***************************************************************************)
(* The next argument in the buffer is one of the list.                     *)
(***************************************************************************)
LEMMA ItemsOf ==
  ASSUME NEW s \in Seq(Arg), NEW t \in Seq(Arg)
  PROVE  Items(s) \subseteq Items(s \o t) /\ Items(t) \subseteq Items(s \o t)
<1>1. /\ s \o t \in Seq(Arg) /\ Len(s \o t) = Len(s) + Len(t)
      /\ Len(s) \in Nat /\ Len(t) \in Nat
      /\ DOMAIN s = 1 .. Len(s) /\ DOMAIN t = 1 .. Len(t)
  BY ConcatProperties, LenProperties
<1>2. DOMAIN (s \o t) = 1 .. Len(s) + Len(t)
  BY <1>1, LenProperties
<1>3. ASSUME NEW i \in 1 .. Len(s) PROVE s[i] \in Items(s \o t)
  <2>1. i \in DOMAIN (s \o t) /\ (s \o t)[i] = s[i]
    BY <1>1, <1>2, ConcatProperties
  <2> QED
    BY <2>1 DEF Items
<1>4. ASSUME NEW i \in 1 .. Len(t) PROVE t[i] \in Items(s \o t)
  <2>1. Len(s) + i \in Len(s) + 1 .. Len(s) + Len(t)
    BY <1>1
  <2>2. (s \o t)[Len(s) + i] = t[Len(s) + i - Len(s)]
    BY <1>1, <2>1, ConcatProperties
  <2>3. Len(s) + i \in DOMAIN (s \o t) /\ (s \o t)[Len(s) + i] = t[i]
    BY <1>1, <1>2, <2>1, <2>2
  <2> QED
    BY <2>3 DEF Items
<1> QED
  BY <1>1, <1>3, <1>4 DEF Items

LEMMA HeadIsListed ==
  ASSUME Inv, pc[Root] \in Gathering, mem[Root].buf # <<>>
  PROVE  Head(mem[Root].buf) \in Items(list)
<1> DEFINE m == mem[Root]
<1>1. /\ m.argv \in Seq(Arg) /\ m.pend \in Seq(Arg) /\ m.buf \in Seq(Arg)
      /\ rest \in Seq(Arg) /\ handed \in Seq(Arg) /\ m.buf \o rest \in Seq(Arg)
  BY RootSequences DEF Inv
<1>2. /\ m.pend \o (m.buf \o rest) \in Seq(Arg)
      /\ m.argv \o (m.pend \o (m.buf \o rest)) \in Seq(Arg)
  BY <1>1, ConcatProperties
<1>3. handed \o (m.argv \o (m.pend \o (m.buf \o rest))) = list
  BY DEF Inv, FileInv, Current, Loop
<1>4. Head(m.buf) \in Items(m.buf)
  <2>1. Len(m.buf) \in Nat \ {0} /\ DOMAIN m.buf = 1 .. Len(m.buf)
    BY <1>1, EmptySeq, LenProperties
  <2>2. 1 \in DOMAIN m.buf /\ Head(m.buf) = m.buf[1]
    BY <1>1, <2>1
  <2> QED
    BY <2>2 DEF Items
<1>5. Head(m.buf) \in Items(m.pend \o (m.buf \o rest))
  BY <1>1, <1>4, ItemsOf
<1>6. Items(m.pend \o (m.buf \o rest)) \subseteq Items(list)
  BY <1>1, <1>2, <1>3, ItemsOf
<1> QED
  BY <1>5, <1>6

LEMMA SetAsideKeepsInv ==
  ASSUME Inv, SetAside(Root), TypeOK', BatchInv', PartInv'
  PROVE  Inv'
<1> DEFINE m == mem[Root]
           n == mem'[Root]
           a == Head(m.buf)
<1>s. /\ m \in Memory /\ m.argv \in Seq(Arg) /\ m.pend \in Seq(Arg)
      /\ m.buf \in Seq(Arg) /\ rest \in Seq(Arg) /\ m.buf \o rest \in Seq(Arg)
  BY RootSequences DEF Inv
<1>0. /\ GatherFrame /\ mem \in [Pid -> Memory] /\ UNCHANGED rest
      /\ pc[Root] = "parse" /\ pc'[Root] = "ready" /\ m.buf # <<>>
      /\ IsArgvFull(Count(m), m.used, ArgLen[a])
      /\ n = [m EXCEPT !.pend = <<a>>, !.buf = Tail(@)]
  BY GatherSteps, RootIsPid DEF Inv, Gather, SetAside, Goto, TypeOK, file
<1>1. a \in Arg /\ Tail(m.buf) \in Seq(Arg)
  BY <1>0, HeadTailProperties, RootSequences DEF Inv
<1>2. /\ n.argv = m.argv /\ n.pend = <<a>> /\ n.buf = Tail(m.buf)
      /\ n.used = m.used /\ m.pend = <<>>
  BY <1>0, RootSequences, RootBatch DEF Inv, Memory
<1>3. m.argv # <<>> \/ opt.force
  <2> SUFFICES ASSUME m.argv = <<>> PROVE ~ListFits
    BY DEF Inv, OneReader
  <2>1. m.used = InitUsed /\ Count(m) = InitCount
    BY <1>0, RootBatch, LimitAssumption DEF Inv, Gathering, Count
  <2>2. NeverFits(a)
    BY <1>0, <2>1 DEF NeverFits
  <2>3. a \in Items(list)
    BY <1>0, HeadIsListed DEF Gathering
  <2> QED
    BY <2>2, <2>3 DEF ListFits
<1>4. FileInv'
  <2>1. <<a>> \o (Tail(m.buf) \o rest) = m.buf \o rest
    BY <1>0, <1>s, HeadFirst
  <2>2. <<>> \o (m.buf \o rest) = m.buf \o rest
    BY <1>s, ConcatEmptySeq
  <2>3. n.pend \o (n.buf \o rest) = m.pend \o (m.buf \o rest)
    BY <1>2, <2>1, <2>2
  <2>4. Current = m.argv /\ Current' = n.argv
    BY <1>0 DEF Current, Gathering
  <2> QED
    BY <1>0, <1>2, <2>3, <2>4 DEF Inv, FileInv, GatherFrame, Loop, Gathering
<1> QED
  BY <1>0, <1>2, <1>3, <1>4, GatherKeepsInv

LEMMA GatherInv ==
  ASSUME Inv, Gather(Root), TypeOK', BatchInv', PartInv'
  PROVE  Inv'
<1>0. GatherFrame /\ mem[Root] \in Memory /\ mem \in [Pid -> Memory]
  BY GatherSteps, RootIsPid DEF Inv, TypeOK
<1>1. CASE AppendPending(Root)
  BY <1>1, AppendPendingKeepsInv
<1>2. CASE ReadBlock(Root)
  BY <1>2, ReadBlockKeepsInv
<1>3. CASE TakeArg(Root)
  BY <1>3, TakeArgKeepsInv
<1>4. CASE SetAside(Root)
  BY <1>4, SetAsideKeepsInv
<1>5. CASE Begin(Root) \/ SkipRead(Root) \/ EndOfFile(Root) \/ BufferDone(Root)
  <2>1. UNCHANGED <<mem, rest>>
    BY <1>5 DEF Begin, SkipRead, EndOfFile, BufferDone, file
  <2>2. /\ pc[Root] \in {"setup", "read", "parse"}
        /\ pc'[Root] \in {"top", "parse", "close"}
    BY <1>0, <1>5, RootIsPid
       DEF Begin, SkipRead, EndOfFile, BufferDone, Goto, Inv, TypeOK
  <2>3. FileInv'
    BY <1>0, <2>1, <2>2 DEF Inv, FileInv, Current, GatherFrame, Loop, Gathering
  <2> QED
    BY <1>0, <2>2, <2>3, GatherKeepsInv
<1>6. CASE AppendPendingFails(Root) \/ TakeArgFails(Root)
  <2>1. pc'[Root] = "fail"
    BY <1>6, RootIsPid
       DEF AppendPendingFails, TakeArgFails, FailWith, Goto, Inv, TypeOK
  <2>2. FileInv'
    BY <2>1 DEF FileInv, Loop, Gathering, Awaiting
  <2> QED
    BY <1>0, <2>1, <2>2, GatherKeepsInv
<1> QED
  BY <1>1, <1>2, <1>3, <1>4, <1>5, <1>6 DEF Gather

----------------------------------------------------------------------------
(***************************************************************************)
(* xvp itself with a full batch: it forks.                                 *)
(***************************************************************************)
LEMMA ForkKeepsInv ==
  ASSUME Inv, Fork(Root), TypeOK', BatchInv', PartInv'
  PROVE  Inv'
<1> DEFINE m == mem[Root]
           n == mem'[Root]
<1>s. /\ m \in Memory /\ m.argv \in Seq(Arg) /\ m.pend \in Seq(Arg)
      /\ m.buf \in Seq(Arg) /\ rest \in Seq(Arg) /\ handed \in Seq(Arg)
      /\ m.buf \o rest \in Seq(Arg)
  BY RootSequences DEF Inv
<1>0. /\ pc \in [Pid -> PC] /\ mem \in [Pid -> Memory] /\ Root \in Pid
      /\ parent \in [Pid -> 0 .. MaxPid]
      /\ pc[Root] = "ready" /\ UNCHANGED <<opt, list, rest>>
      /\ handed' = handed \o m.argv /\ ~opt.force
  BY RootIsPid DEF start, Inv, TypeOK, Fork, file, MayExecuteAnother
<1>1. PICK c \in Pid :
        /\ pc[c] = "free"
        /\ pc' = [pc EXCEPT ![Root] = "reap", ![c] = "exec"]
        /\ mem' = [mem EXCEPT ![Root].child = c,
                              ![c] = [mem[Root] EXCEPT !.child = 0]]
        /\ parent' = [parent EXCEPT ![c] = Root]
  BY DEF Fork
<1>2. /\ c # Root /\ pc'[Root] = "reap" /\ pc'[c] = "exec"
      /\ parent'[c] = Root
      /\ n = [m EXCEPT !.child = c] /\ mem'[c] = [m EXCEPT !.child = 0]
      /\ \A q \in Pid \ {Root, c} : /\ pc'[q] = pc[q] /\ mem'[q] = mem[q]
                                    /\ parent'[q] = parent[q]
  BY <1>0, <1>1
<1>3. /\ n.argv = m.argv /\ n.used = m.used /\ n.pend = m.pend
      /\ n.buf = m.buf /\ n.child = c
      /\ mem'[c].argv = m.argv /\ mem'[c].used = m.used
  BY <1>s, <1>2 DEF Memory
<1>4. m.argv # <<>>
  BY <1>0 DEF Inv, PlaceInv
<1>5. PlaceInv'
  <2>1. pc'[Root] \in RootPlaces /\ pc'[Root] # "ready"
    BY <1>2 DEF RootPlaces, PC, Loop, Awaiting
  <2>2. ASSUME NEW q \in Pid \ {Root}
        PROVE  /\ pc'[q] \notin Loop \cup Leaving
               /\ pc'[q] = "exec" => mem'[q].argv # <<>>
    <3>1. CASE q = c
      BY <1>2, <1>3, <1>4, <3>1 DEF Loop, Gathering, Awaiting, Leaving
    <3>2. CASE q # c
      BY <1>2, <3>2 DEF Inv, PlaceInv
    <3> QED
      BY <3>1, <3>2
  <2> QED
    BY <2>1, <2>2 DEF PlaceInv
<1>6. OneReader'
  BY <1>0 DEF Inv, OneReader, ListFits
<1>7. FileInv'
  <2> DEFINE left == m.pend \o (m.buf \o rest)
  <2>1. left \in Seq(Arg)
    BY <1>s, ConcatProperties
  <2>2. (handed \o m.argv) \o left = handed \o (m.argv \o left)
    BY <1>s, <2>1, ConcatArgs
  <2>3. <<>> \o left = left
    BY <2>1, ConcatEmptySeq
  <2>4. Current = m.argv /\ Current' = <<>>
    BY <1>0, <1>2 DEF Current, Gathering
  <2>5. handed \o (m.argv \o left) = list
    BY <1>0, <2>4 DEF Inv, FileInv, Loop, Gathering
  <2>6. n.pend \o (n.buf \o rest') = left
    BY <1>0, <1>3
  <2> HIDE DEF left
  <2> QED
    BY <1>0, <2>2, <2>3, <2>4, <2>5, <2>6 DEF FileInv
<1>8. SerialInv'
  BY <1>0, <1>2, <1>3 DEF Inv, SerialInv
<1> QED
  BY <1>5, <1>6, <1>7, <1>8 DEF Inv

(***************************************************************************)
(* xvp itself between a fork and the next batch: its memory keeps the      *)
(* batch and what is left to read.                                         *)
(***************************************************************************)
AwaitFrame ==
  /\ UNCHANGED <<opt, list, rest, handed, parent>>
  /\ pc[Root] \in {"reap", "wait"}
  /\ pc'[Root] \in {"wait", "refine", "fail"}
  /\ \A q \in Pid \ {Root} :
       /\ mem'[q] = mem[q]
       /\ pc'[q] = pc[q] \/ (pc[q] = "zombie" /\ pc'[q] = "gone")
  /\ mem'[Root].argv = mem[Root].argv /\ mem'[Root].used = mem[Root].used
  /\ mem'[Root].pend = mem[Root].pend /\ mem'[Root].buf = mem[Root].buf

LEMMA AwaitKeepsInv ==
  ASSUME Inv, AwaitFrame, SerialInv', TypeOK', BatchInv', PartInv'
  PROVE  Inv'
<1> USE RootIsPid DEF Inv, AwaitFrame
<1>1. PlaceInv'
  BY DEF PlaceInv, RootPlaces, PC, Loop, Gathering, Awaiting, Leaving, Ended
<1>2. OneReader'
  BY DEF OneReader, ListFits
<1>3. FileInv'
  BY DEF FileInv, Current, Loop, Gathering, Awaiting
<1> QED
  BY <1>1, <1>2, <1>3

LEMMA ReapKeepsInv ==
  ASSUME Inv, ReapAny(Root) \/ ReapNone(Root), TypeOK', BatchInv', PartInv'
  PROVE  Inv'
<1>0. /\ pc \in [Pid -> PC] /\ mem \in [Pid -> Memory] /\ Root \in Pid
      /\ mem[Root] \in Memory
  BY RootIsPid DEF Inv, TypeOK
<1>1. /\ UNCHANGED <<opt, list, rest, handed, parent>>
      /\ pc[Root] = "reap" /\ pc'[Root] = AfterReap
      /\ mem' = [mem EXCEPT ![Root] = AfterReapErr(@)]
      /\ \A q \in Pid \ {Root} :
           pc'[q] = pc[q] \/ (pc[q] = "zombie" /\ pc'[q] = "gone")
  BY <1>0 DEF ReapAny, ReapNone, Goto, Zombies, Children, start, file, kernel, history
<1>2. /\ mem'[Root] = AfterReapErr(mem[Root])
      /\ \A q \in Pid \ {Root} : mem'[q] = mem[q]
  BY <1>0, <1>1
<1>3. /\ mem'[Root].argv = mem[Root].argv /\ mem'[Root].used = mem[Root].used
      /\ mem'[Root].pend = mem[Root].pend /\ mem'[Root].buf = mem[Root].buf
      /\ mem'[Root].child = mem[Root].child
  BY <1>0, <1>2 DEF AfterReapErr, Memory
<1>4. AwaitFrame
  BY <1>1, <1>2, <1>3 DEF AwaitFrame, AfterReap
<1>5. SerialInv'
  BY <1>1, <1>3 DEF Inv, SerialInv, AfterReap, Ended
<1> QED
  BY <1>4, <1>5, AwaitKeepsInv

LEMMA WaitKeepsInv ==
  ASSUME Inv, WaitGone(Root) \/ WaitExited(Root) \/ WaitEvent(Root),
         TypeOK', BatchInv', PartInv'
  PROVE  Inv'
<1> DEFINE c == mem[Root].child
<1>0. /\ pc \in [Pid -> PC] /\ mem \in [Pid -> Memory] /\ Root \in Pid
      /\ mem[Root] \in Memory
  BY RootIsPid DEF Inv, TypeOK
<1>1. CASE WaitGone(Root)
  <2>1. AwaitFrame /\ pc[Root] = "wait" /\ pc'[Root] = "refine"
    BY <1>0, <1>1 DEF WaitGone, Goto, AwaitFrame, start, file, kernel, history
  <2>2. c \notin Children(Root) /\ UNCHANGED <<mem, opt, parent>>
    BY <1>1 DEF start, WaitGone, kernel
  <2>3. \A q \in Pid \ {Root} : pc'[q] = pc[q]
    BY <1>0, <1>1 DEF WaitGone, Goto
  <2>4. SerialInv'
    BY <2>2, <2>3 DEF Inv, SerialInv, Children, Ended
  <2> QED
    BY <2>1, <2>4, AwaitKeepsInv
<1>2. CASE WaitExited(Root)
  <2>1. /\ c \in Pid /\ pc[Root] = "wait" /\ pc[c] = "zombie"
        /\ pc' = [pc EXCEPT ![Root] = IF opt.strict /\ status[c] # 0
                                      THEN "fail" ELSE "refine",
                            ![c] = "gone"]
        /\ UNCHANGED <<opt, list, rest, handed, parent>>
    BY <1>2 DEF WaitExited, Zombies, Children, start, file, kernel, history
  <2>2. /\ pc'[Root] \in {"refine", "fail"} /\ pc'[c] = "gone"
        /\ \A q \in Pid \ {Root, c} : pc'[q] = pc[q]
    BY <1>0, <2>1
  <2>3. /\ mem'[Root].argv = mem[Root].argv /\ mem'[Root].used = mem[Root].used
        /\ mem'[Root].pend = mem[Root].pend /\ mem'[Root].buf = mem[Root].buf
        /\ \A q \in Pid \ {Root} : mem'[q] = mem[q]
    BY <1>0, <1>2 DEF WaitExited, Memory
  <2>4. AwaitFrame
    BY <2>1, <2>2, <2>3 DEF AwaitFrame
  <2>5. SerialInv'
    BY <2>1, <2>2 DEF Inv, SerialInv, Ended
  <2> QED
    BY <2>4, <2>5, AwaitKeepsInv
<1>3. CASE WaitEvent(Root)
  <2>1. /\ AwaitFrame /\ pc' = pc /\ UNCHANGED <<mem, opt, parent>>
    BY <1>0, <1>3 DEF WaitEvent, Goto, AwaitFrame, start, file, history
  <2>2. SerialInv'
    BY <2>1 DEF Inv, SerialInv
  <2> QED
    BY <2>1, <2>2, AwaitKeepsInv
<1> QED
  BY <1>1, <1>2, <1>3

LEMMA RefineKeepsInv ==
  ASSUME Inv, Refine(Root), TypeOK', BatchInv', PartInv'
  PROVE  Inv'
<1>0. /\ pc \in [Pid -> PC] /\ mem \in [Pid -> Memory] /\ Root \in Pid
      /\ mem[Root] \in Memory
  BY RootIsPid DEF Inv, TypeOK
<1>1. /\ pc[Root] = "refine" /\ pc'[Root] = "top"
      /\ UNCHANGED <<opt, list, rest, handed, parent>>
      /\ mem'[Root] = [mem[Root] EXCEPT !.argv = <<>>, !.used = InitUsed]
      /\ \A q \in Pid \ {Root} : pc'[q] = pc[q] /\ mem'[q] = mem[q]
  BY <1>0 DEF Refine, Goto, start, file, kernel, history
<1>2. /\ mem'[Root].argv = <<>> /\ mem'[Root].used = InitUsed
      /\ mem'[Root].pend = mem[Root].pend /\ mem'[Root].buf = mem[Root].buf
  BY <1>0, <1>1 DEF Memory
<1>3. PlaceInv'
  BY <1>1 DEF Inv, PlaceInv, RootPlaces, PC, Loop, Gathering
<1>4. OneReader'
  BY <1>1 DEF Inv, OneReader, ListFits
<1>5. FileInv'
  BY <1>1, <1>2 DEF Inv, FileInv, Current, Loop, Gathering, Awaiting
<1>6. SerialInv'
  BY <1>1 DEF Inv, SerialInv
<1> QED
  BY <1>3, <1>4, <1>5, <1>6 DEF Inv

LEMMA BatchKeepsInv ==
  ASSUME Inv, Batch(Root), TypeOK', BatchInv', PartInv'
  PROVE  Inv'
<1>1. CASE ForceOnce(Root) \/ ForkFails(Root)
  <2>0. /\ pc \in [Pid -> PC] /\ mem \in [Pid -> Memory] /\ Root \in Pid
        /\ mem[Root] \in Memory
    BY RootIsPid DEF Inv, TypeOK
  <2>1. PICK e \in Int : FailWith(Root, "ready", e)
    BY <1>1 DEF ForceOnce, ForkFails, E2BIG, EAGAIN
  <2>2. GatherFrame /\ pc'[Root] = "fail"
    BY <2>0, <2>1
       DEF FailWith, Goto, GatherFrame, Gathering, start, file, kernel, history
  <2>3. FileInv'
    BY <2>2 DEF FileInv, Loop, Gathering, Awaiting
  <2> QED
    BY <2>2, <2>3, GatherKeepsInv
<1>2. CASE Fork(Root)
  BY <1>2, ForkKeepsInv
<1>3. CASE ReapAny(Root) \/ ReapNone(Root)
  BY <1>3, ReapKeepsInv
<1>4. CASE WaitGone(Root) \/ WaitExited(Root) \/ WaitEvent(Root)
  BY <1>4, WaitKeepsInv
<1>5. CASE Refine(Root)
  BY <1>5, RefineKeepsInv
<1> QED
  BY <1>1, <1>2, <1>3, <1>4, <1>5 DEF Batch

----------------------------------------------------------------------------
(***************************************************************************)
(* The part of an argument that xvp itself holds: a block goes on with it, *)
(* nothing else touches it, and nobody else reads.                         *)
(***************************************************************************)
LEMMA ReadBlockPart ==
  ASSUME TypeOK, Intact(mem[Root]), ReadBlock(Root)
  PROVE  Intact(mem[Root])'
<1> DEFINE m == mem[Root]
<1>0. mem \in [Pid -> Memory] /\ m \in Memory /\ rest \in Seq(Arg)
  BY RootIsPid DEF TypeOK
<1>1. PICK k \in 0 .. Len(rest) :
        /\ \E s : mem'[Root] = [m EXCEPT !.buf = s, !.part = PartAfter(m, k, cut')]
        /\ rest' = SubSeq(rest, k + 1, Len(rest))
  BY <1>0, RootIsPid DEF ReadBlock
<1>2. mem'[Root].part = PartOf(Len(rest) - k, cut')
  BY <1>0, <1>1 DEF Memory, PartAfter
<1>3. Len(rest') = Len(rest) - k
  BY <1>0, <1>1, SplitAt
<1> QED
  BY <1>2, <1>3 DEF Intact

LEMMA PartKept ==
  ASSUME TypeOK, PlaceInv, XvpStep(Root) \/ Outside(Root), ~ReadBlock(Root),
         pc'[Root] \in Loop
  PROVE  /\ pc[Root] \in Loop /\ mem'[Root].part = mem[Root].part
         /\ UNCHANGED <<rest, cut>>
<1>0. /\ pc \in [Pid -> PC] /\ mem \in [Pid -> Memory] /\ Root \in Pid
      /\ mem[Root] \in Memory
  BY RootIsPid DEF TypeOK
<1> USE <1>0 DEF Goto, FailWith, file, Loop, Gathering, Awaiting, Memory
<1>1. CASE Begin(Root) \/ SkipRead(Root) \/ EndOfFile(Root) \/ BufferDone(Root)
  BY <1>1 DEF Begin, SkipRead, EndOfFile, BufferDone
<1>2. CASE AppendPending(Root)
  BY <1>2 DEF AppendPending, Appended
<1>3. CASE AppendPendingFails(Root) \/ TakeArgFails(Root)
  BY <1>3 DEF AppendPendingFails, TakeArgFails
<1>4. CASE TakeArg(Root)
  BY <1>4 DEF TakeArg, Appended
<1>5. CASE SetAside(Root)
  BY <1>5 DEF SetAside
<1>6. CASE ForceOnce(Root) \/ ForkFails(Root)
  BY <1>6 DEF ForceOnce, ForkFails
<1>7. CASE Fork(Root)
  BY <1>7 DEF Fork
<1>8. CASE ReapAny(Root) \/ ReapNone(Root)
  BY <1>8 DEF ReapAny, ReapNone, AfterReapErr
<1>9. CASE WaitGone(Root) \/ WaitExited(Root) \/ WaitEvent(Root)
  BY <1>9 DEF WaitGone, WaitExited, WaitEvent
<1>10. CASE Refine(Root)
  BY <1>10 DEF Refine
<1>11. ~Leave(Root) /\ ~Outside(Root)
  BY LeaveSteps DEF LeaveFrame
<1> QED
  BY <1>1, <1>2, <1>3, <1>4, <1>5, <1>6, <1>7, <1>8, <1>9, <1>10, <1>11
     DEF XvpStep, Gather, Batch

LEMMA PartStep ==
  TypeOK /\ PlaceInv /\ PartInv /\ [Next]_vars => PartInv'
<1> SUFFICES ASSUME TypeOK, PlaceInv, PartInv, [Next]_vars, pc'[Root] \in Loop
             PROVE  Intact(mem[Root])'
  BY DEF PartInv
<1>1. CASE UNCHANGED vars
  BY <1>1 DEF vars, PartInv, Intact
<1>2. ASSUME NEW p \in Pid, XvpStep(p) \/ Outside(p) PROVE Intact(mem[Root])'
  <2>1. CASE p # Root
    <3>1. ChildFrame(p)
      BY <1>2, <2>1, ChildSteps
    <3>2. pc[Root] \in Loop /\ UNCHANGED <<rest, cut, mem>>
      BY <2>1, <3>1, RootIsPid DEF ChildFrame, Loop, Gathering, Awaiting
    <3> QED
      BY <3>2 DEF PartInv, Intact
  <2>2. CASE p = Root /\ ReadBlock(Root)
    <3>1. pc[Root] \in Loop
      BY <2>2 DEF ReadBlock, Goto, Loop, Gathering
    <3> QED
      BY <2>2, <3>1, ReadBlockPart DEF PartInv
  <2>3. CASE p = Root /\ ~ReadBlock(Root)
    BY <1>2, <2>3, PartKept DEF PartInv, Intact
  <2> QED
    BY <2>1, <2>2, <2>3
<1> QED
  BY <1>1, <1>2 DEF Next, Terminated

----------------------------------------------------------------------------
(***************************************************************************)
(* The invariant is inductive.                                             *)
(***************************************************************************)
LEMMA NextKeepsInv == Inv /\ [Next]_vars => Inv'
<1> SUFFICES ASSUME Inv, [Next]_vars PROVE Inv'
  OBVIOUS
<1>1. TypeOK' /\ BatchInv' /\ PartInv'
  BY TypeStep, BatchStep, PartStep DEF Inv
<1>2. CASE UNCHANGED vars
  BY <1>1, <1>2 DEF vars, Inv, OneReader, ListFits, PlaceInv, FileInv, Current,
       SerialInv
<1>3. ASSUME NEW p \in Pid, XvpStep(p) \/ Outside(p) PROVE Inv'
  <2>1. CASE p # Root
    BY <1>1, <1>3, <2>1, ChildSteps, ChildKeepsInv DEF Inv
  <2>2. CASE p = Root
    <3>1. CASE Gather(Root)
      BY <1>1, <3>1, GatherInv
    <3>2. CASE Batch(Root)
      BY <1>1, <3>2, BatchKeepsInv
    <3>3. CASE Leave(Root) \/ Outside(Root)
      BY <1>1, <3>3, LeaveSteps, LeaveKeepsInv DEF Inv
    <3> QED
      BY <1>3, <2>2, <3>1, <3>2, <3>3 DEF XvpStep
  <2> QED
    BY <2>1, <2>2
<1> QED
  BY <1>2, <1>3 DEF Next, Terminated

(***************************************************************************)
(* Nobody changes the options or the file, and so not who reads it.        *)
(***************************************************************************)
LEMMA StartKept == TypeOK /\ [Next]_vars => UNCHANGED <<opt, list>>
<1> SUFFICES ASSUME TypeOK, [Next]_vars PROVE UNCHANGED <<opt, list>>
  OBVIOUS
<1>1. CASE UNCHANGED vars
  BY <1>1 DEF vars
<1>2. ASSUME NEW p \in Pid, XvpStep(p) \/ Outside(p)
      PROVE  UNCHANGED <<opt, list>>
  BY <1>2, StepFrameHolds, ForkSteps DEF StepFrame, ForksTo
<1> QED
  BY <1>1, <1>2 DEF Next, Terminated

LEMMA OneReaderKept == TypeOK /\ [Next]_vars /\ OneReader' => OneReader
BY StartKept DEF OneReader, ListFits

----------------------------------------------------------------------------
(***************************************************************************)
(* The chain of the processes that have not ended.                         *)
(***************************************************************************)
Chained(p, q) ==
  /\ pc[p] \in {"reap", "wait"}
  /\ \E c \in Pid : mem[p].child = c /\ Live(c) /\ parent[c] = p /\ c <= q

InForkOrder == \A p, q \in Pid : p < q /\ pc[q] # "free" => pc[p] # "free"
Unkilled == ~opt.noWait /\ "kill" \notin Signals
Chain == \A p, q \in Pid : Live(p) /\ Live(q) /\ p < q => Chained(p, q)

LEMMA ChainParts == ChainInv <=> InForkOrder /\ (Unkilled => Chain)
BY DEF ChainInv, InForkOrder, Unkilled, Chain, Chained

LEMMA InitChain == Init => ChainInv
<1> SUFFICES ASSUME Init PROVE InForkOrder /\ Chain
  BY ChainParts
<1>1. \A q \in Pid : pc[q] # "free" => q = Root
  BY DEF Init
<1>2. \A p \in Pid : ~(p < Root)
  BY DEF Pid, Root
<1> QED
  BY <1>1, <1>2 DEF InForkOrder, Chain, Live

(***************************************************************************)
(* Who takes a step has not ended; who waits for a child that has not      *)
(* ended goes on waiting for it.                                           *)
(***************************************************************************)
LEMMA StepIsLive ==
  ASSUME TypeOK, NEW p \in Pid, XvpStep(p) \/ Outside(p)
  PROVE  Live(p)
<1> USE DEF Live, Ended, Goto, FailWith
<1>1. CASE Gather(p)
  BY <1>1 DEF Gather, Begin, AppendPending, AppendPendingFails, SkipRead,
       ReadBlock, EndOfFile, TakeArg, TakeArgFails, SetAside, BufferDone
<1>2. CASE Batch(p)
  BY <1>2 DEF Batch, ForceOnce, Fork, ForkFails, ReapAny, ReapNone, WaitGone,
       WaitExited, WaitEvent, Refine
<1>3. CASE Leave(p)
  BY <1>3 DEF Leave, RunErr, Close, AwaitAny, Fail, ExecNothing, ExecProgram,
       ExecRetry, ExecFails
<1>4. CASE Outside(p)
  BY <1>4 DEF Outside, ProgramExit, Kill, Stop, Continue
<1> QED
  BY <1>1, <1>2, <1>3, <1>4 DEF XvpStep

LEMMA WaitingStep ==
  ASSUME TypeOK, Unkilled, NEW p \in Pid, XvpStep(p) \/ Outside(p),
         pc[p] \in {"reap", "wait"}
  PROVE  /\ Live(p)'
         /\ \A c \in Pid : mem[p].child = c /\ Live(c) /\ parent[c] = p =>
              pc'[p] \in {"reap", "wait"} /\ mem'[p].child = c
<1> USE DEF Goto, FailWith, Live, Ended, Unkilled
<1>0. pc \in [Pid -> PC] /\ mem \in [Pid -> Memory] /\ mem[p] \in Memory
  BY DEF TypeOK
<1>1. CASE ReapAny(p) \/ ReapNone(p)
  <2>1. pc'[p] = "wait" /\ mem' = [mem EXCEPT ![p] = AfterReapErr(@)]
    BY <1>0, <1>1 DEF ReapAny, ReapNone, Zombies, Children, AfterReap
  <2>2. mem'[p].child = mem[p].child
    BY <1>0, <2>1 DEF AfterReapErr, Memory
  <2> QED
    BY <2>1, <2>2
<1>2. CASE WaitGone(p)
  BY <1>0, <1>2 DEF WaitGone, Children
<1>3. CASE WaitExited(p)
  BY <1>0, <1>3 DEF WaitExited, Zombies, Children
<1>4. CASE WaitEvent(p)
  BY <1>0, <1>4 DEF WaitEvent
<1>5. /\ ~Gather(p) /\ ~Leave(p) /\ ~Outside(p)
      /\ ~ForceOnce(p) /\ ~Fork(p) /\ ~ForkFails(p) /\ ~Refine(p)
  <2>1. ~Gather(p)
    BY DEF Gather, Begin, AppendPending, AppendPendingFails, SkipRead, ReadBlock,
       EndOfFile, TakeArg, TakeArgFails, SetAside, BufferDone
  <2>2. ~Leave(p)
    BY DEF Leave, RunErr, Close, AwaitAny, Fail, ExecNothing, ExecProgram,
       ExecRetry, ExecFails
  <2>3. ~Outside(p)
    BY DEF Outside, ProgramExit, Kill, Stop, Continue
  <2>4. ~ForceOnce(p) /\ ~Fork(p) /\ ~ForkFails(p) /\ ~Refine(p)
    BY DEF ForceOnce, Fork, ForkFails, Refine
  <2> QED
    BY <2>1, <2>2, <2>3, <2>4
<1> QED
  BY <1>1, <1>2, <1>3, <1>4, <1>5 DEF XvpStep, Batch

LEMMA StepKeepsChain ==
  ASSUME TypeOK, ChainInv, NEW p \in Pid, XvpStep(p) \/ Outside(p), ~Fork(p)
  PROVE  ChainInv'
<1>0. StepFrame(p) /\ Live(p)
  BY StepFrameHolds, StepIsLive
<1>1. \A q \in Pid : (pc'[q] # "free") <=> (pc[q] # "free")
  BY <1>0 DEF StepFrame
<1>2. InForkOrder'
  BY <1>1, ChainParts DEF InForkOrder
<1>3. ASSUME Unkilled PROVE Chain'
  <2> SUFFICES ASSUME NEW r \in Pid, NEW s \in Pid, Live(r)', Live(s)', r < s
               PROVE  Chained(r, s)'
    BY DEF Chain
  <2>1. \A q \in Pid : Live(q)' => Live(q)
    BY <1>0 DEF StepFrame, Live, Ended
  <2>2. \A q \in Pid \ {p} : Live(q) => /\ Live(q)' /\ pc'[q] = pc[q]
                                        /\ mem'[q] = mem[q]
    BY <1>0 DEF StepFrame, Live, Ended
  <2>3. Chain
    BY <1>3, ChainParts
  <2>4. PICK c \in Pid : mem[r].child = c /\ Live(c) /\ parent[c] = r /\ c <= s
    BY <2>1, <2>3 DEF Chain, Chained
  <2>5. pc[r] \in {"reap", "wait"} /\ parent'[c] = r
    BY <1>0, <2>1, <2>3, <2>4 DEF Chain, Chained, StepFrame
  <2>6. pc'[r] \in {"reap", "wait"} /\ mem'[r].child = c
    <3>1. CASE r = p
      BY <1>3, <2>4, <2>5, <3>1, WaitingStep
    <3>2. CASE r # p
      BY <2>1, <2>2, <2>4, <2>5, <3>2
    <3> QED
      BY <3>1, <3>2
  <2>7. Live(c)'
    <3>1. CASE c = p
      <4>1. CASE c = s
        BY <4>1
      <4>2. CASE c # s
        <5>1. c < s
          BY <2>4, <4>2 DEF Pid
        <5>2. pc[c] \in {"reap", "wait"}
          BY <2>1, <2>3, <2>4, <5>1 DEF Chain, Chained
        <5> QED
          BY <1>3, <3>1, <5>2, WaitingStep
      <4> QED
        BY <4>1, <4>2
    <3>2. CASE c # p
      BY <2>2, <2>4, <3>2
    <3> QED
      BY <3>1, <3>2
  <2> QED
    BY <2>4, <2>5, <2>6, <2>7 DEF Chained
<1>4. Unkilled' => Unkilled
  BY <1>0 DEF Unkilled, StepFrame
<1>5. ChainInv' <=> InForkOrder' /\ (Unkilled' => Chain')
  BY DEF ChainInv, InForkOrder, Unkilled, Chain, Chained
<1> QED
  BY <1>2, <1>3, <1>4, <1>5

LEMMA ForkKeepsChain ==
  ASSUME TypeOK, ChainInv, NEW p \in Pid, Fork(p)
  PROVE  ChainInv'
<1>1. PICK c \in Pid : ForksTo(p, c)
  BY ForkSteps
<1>2. InForkOrder /\ Live(p)
  BY <1>1, ChainParts DEF ForksTo, Live, Ended
<1>3. \A q \in Pid : pc[q] # "free" => q < c
  BY <1>1, <1>2 DEF InForkOrder, ForksTo, Pid
<1>4. InForkOrder'
  <2> SUFFICES ASSUME NEW r \in Pid, NEW s \in Pid, r < s, pc'[s] # "free"
               PROVE  pc'[r] # "free"
    BY DEF InForkOrder
  <2>1. CASE s = c
    BY <1>1, <2>1 DEF ForksTo, Pid
  <2>2. CASE s # c
    <3>1. pc[s] # "free"
      BY <1>1, <2>2 DEF ForksTo
    <3>2. pc[r] # "free"
      BY <1>2, <3>1 DEF InForkOrder
    <3> QED
      BY <1>1, <3>2 DEF ForksTo
  <2> QED
    BY <2>1, <2>2
<1>5. ASSUME Unkilled PROVE Chain'
  <2> SUFFICES ASSUME NEW r \in Pid, NEW s \in Pid, Live(r)', Live(s)', r < s
               PROVE  Chained(r, s)'
    BY DEF Chain
  <2>0. Chain
    BY <1>5, ChainParts
  <2>1. \A q \in Pid \ {c} : Live(q)' => Live(q)
    BY <1>1, <1>2 DEF ForksTo, Live
  <2>2. \A q \in Pid : Live(q) => Live(q)'
    BY <1>1 DEF ForksTo, Live, Ended
  <2>3. \A q \in Pid : Live(q) => q <= p
    BY <1>1, <1>2, <2>0 DEF ForksTo, Chain, Chained, Pid
  <2>4. r # c
    <3>1. CASE s = c
      BY <3>1 DEF Pid
    <3>2. CASE s # c
      BY <1>3, <2>1, <3>2 DEF Live, Pid
    <3> QED
      BY <3>1, <3>2
  <2>5. CASE r = p
    <3>1. s = c
      BY <2>1, <2>3, <2>5 DEF Pid
    <3> QED
      BY <1>1, <2>5, <3>1 DEF Chained, ForksTo, Pid
  <2>6. CASE r # p
    <3>1. Live(r) /\ r < p
      BY <2>1, <2>3, <2>4, <2>6 DEF Pid
    <3>2. \E q \in Pid : Live(q) /\ r < q /\ q <= s
      <4>1. CASE s = c
        BY <1>2, <1>3, <3>1, <4>1 DEF Live, Pid
      <4>2. CASE s # c
        BY <2>1, <4>2 DEF Pid
      <4> QED
        BY <4>1, <4>2
    <3>3. PICK q \in Pid : Live(q) /\ r < q /\ q <= s
      BY <3>2
    <3>4. Chained(r, q)
      BY <2>0, <3>1, <3>3 DEF Chain
    <3>5. PICK d \in Pid : mem[r].child = d /\ Live(d) /\ parent[d] = r /\ d <= q
      BY <3>4 DEF Chained
    <3>6. d # c /\ d <= s
      BY <1>1, <3>3, <3>5 DEF ForksTo, Live, Pid
    <3>7. /\ pc'[r] = pc[r] /\ mem'[r] = mem[r] /\ parent'[d] = r /\ Live(d)'
      BY <1>1, <2>2, <2>4, <2>6, <3>5, <3>6 DEF ForksTo
    <3> QED
      BY <3>4, <3>5, <3>6, <3>7 DEF Chained
  <2> QED
    BY <2>5, <2>6
<1>6. Unkilled' => Unkilled
  BY <1>1 DEF Unkilled, ForksTo
<1>7. ChainInv' <=> InForkOrder' /\ (Unkilled' => Chain')
  BY DEF ChainInv, InForkOrder, Unkilled, Chain, Chained
<1> QED
  BY <1>4, <1>5, <1>6, <1>7

LEMMA ChainStep == TypeOK /\ ChainInv /\ [Next]_vars => ChainInv'
<1> SUFFICES ASSUME TypeOK, ChainInv, [Next]_vars PROVE ChainInv'
  OBVIOUS
<1>1. CASE UNCHANGED vars
  BY <1>1 DEF vars, ChainInv, Live
<1>2. ASSUME NEW p \in Pid, XvpStep(p) \/ Outside(p) PROVE ChainInv'
  BY <1>2, StepKeepsChain, ForkKeepsChain
<1> QED
  BY <1>1, <1>2 DEF Next, Terminated

(***************************************************************************)
(* With -f nobody forks.                                                   *)
(***************************************************************************)
LEMMA AloneStep == TypeOK /\ AloneInv /\ [Next]_vars => AloneInv'
<1> SUFFICES ASSUME TypeOK, AloneInv, [Next]_vars PROVE AloneInv'
  OBVIOUS
<1>1. CASE UNCHANGED vars
  BY <1>1 DEF vars, AloneInv, Forked
<1>2. ASSUME NEW p \in Pid, XvpStep(p) \/ Outside(p) PROVE AloneInv'
  <2>1. CASE Fork(p)
    BY <2>1 DEF Fork, MayExecuteAnother, start, AloneInv
  <2>2. CASE ~Fork(p)
    <3>1. StepFrame(p)
      BY <1>2, <2>2, StepFrameHolds
    <3> QED
      BY <3>1 DEF StepFrame, AloneInv, Forked
  <2> QED
    BY <2>1, <2>2
<1> QED
  BY <1>1, <1>2 DEF Next, Terminated

----------------------------------------------------------------------------
(***************************************************************************)
(* The batch of every process stays within the limits, but for an argument *)
(* that cannot fit and is alone (lines 416-461).                           *)
(***************************************************************************)
THEOREM BatchInvariant == Spec => []BatchInv
BY InitBatch, BatchStep, TypeCorrect, PTL DEF Spec

(***************************************************************************)
(* The processes that have not ended form a chain, whoever reads the file. *)
(***************************************************************************)
THEOREM ChainInvariant == Spec => []ChainInv
BY InitChain, ChainStep, TypeCorrect, PTL DEF Spec

(***************************************************************************)
(* With -f nothing is ever forked, whoever would read the file.            *)
(***************************************************************************)
THEOREM AloneInvariant == Spec => []AloneInv
<1>1. Init => AloneInv
  BY DEF Init, AloneInv, Forked
<1> QED
  BY <1>1, AloneStep, TypeCorrect, PTL DEF Spec

(***************************************************************************)
(* While only xvp itself reads the file, Inv holds.                        *)
(***************************************************************************)
THEOREM Invariant == Spec => [](OneReader => Inv)
<1> DEFINE J == OneReader => Inv
<1>1. Init => J
  BY InitInv
<1>2. TypeOK /\ J /\ [Next]_vars => J'
  BY NextKeepsInv, OneReaderKept
<1> HIDE DEF J
<1>3. Spec => []J
  BY <1>1, <1>2, TypeCorrect, PTL DEF Spec
<1> QED
  BY <1>3 DEF J

(***************************************************************************)
(* Between the file and the executions nothing is lost, doubled or         *)
(* reordered, whatever fails on the way: what was handed over, the batch,  *)
(* the argument set aside, the buffer and the rest of the file are always  *)
(* the file (lines 416-483 and 573-582).                                   *)
(***************************************************************************)
THEOREM ConservationHolds == Spec => []Conservation
<1>1. (OneReader => Inv) => Conservation
  BY DEF Inv, FileInv, Conservation
<1> QED
  BY <1>1, Invariant, PTL

(***************************************************************************)
(* Whoever reads the file, a forked process comes back to the loop of      *)
(* run() only with an argument that never fits and was set aside from an   *)
(* empty batch, and never with -f (lines 261, 464-467, 490 and 496).       *)
(***************************************************************************)
THEOREM ReturnsOnlyOverHolds == Spec => []ReturnsOnlyOver
<1>1. TypeOK /\ BatchInv /\ AloneInv => ReturnsOnlyOver
  BY DEF BatchInv, BatchOK, AloneInv, Forked, ReturnsOnlyOver
<1> QED
  BY <1>1, TypeCorrect, BatchInvariant, AloneInvariant, PTL

(***************************************************************************)
(* argc_padding is enough: no execution is over the limits that prepare()  *)
(* computed, with the terminating null pointer, for any lengths, unless it *)
(* has a single argument, one that cannot fit.                             *)
(***************************************************************************)
THEOREM WithinLimitHolds == Spec => []WithinLimit
<1>1. TypeOK /\ BatchInv => WithinLimit
  <2> SUFFICES ASSUME TypeOK, BatchInv, NEW p \in ran
               PROVE  \/ /\ Count(mem[p]) <= ArgcMax
                         /\ FullSize(Count(mem[p]), mem[p].used) + WORD
                              <= SizeArgs + argc_padding * WORD
                      \/ \E a \in Arg : mem[p].argv = <<a>> /\ NeverFits(a)
    BY DEF WithinLimit
  <2>1. mem[p] \in Memory /\ (Bounded(mem[p]) \/ Single(mem[p]))
    BY DEF TypeOK, BatchInv, BatchOK
  <2>2. mem[p].argv \in Seq(Arg) /\ mem[p].used \in Nat
    BY <2>1, MemoryFields
  <2>3. Count(mem[p]) \in Nat /\ SizeArgs \in Nat
    BY <2>2, LenProperties, LimitAssumption DEF Count
  <2>4. CASE Bounded(mem[p])
    BY <2>2, <2>3, <2>4 DEF Bounded, FullSize, WORD, argc_padding
  <2>5. CASE Single(mem[p])
    BY <2>5 DEF Single
  <2> QED
    BY <2>1, <2>4, <2>5
<1> QED
  BY <1>1, TypeCorrect, BatchInvariant, PTL

(***************************************************************************)
(* Without -n two executions never overlap, stopped ones included and      *)
(* whatever line 503 reaps (lines 503-570 and 589-593), unless a forked    *)
(* process that also reads the file is killed.                             *)
(***************************************************************************)
THEOREM SerialHolds == Spec => [](OneReader \/ "kill" \notin Signals => Serial)
<1>1. Inv => Serial
  BY DEF Inv, SerialInv, Serial, Alive, Ended
<1>2. "kill" \notin Signals /\ ChainInv => Serial
  <2> SUFFICES ASSUME "kill" \notin Signals, ChainInv, ~opt.noWait,
                      NEW p \in Pid, NEW q \in Pid, Alive(p), Alive(q), p # q
               PROVE  FALSE
    BY DEF Serial
  <2>1. \A r, s \in Pid : Alive(r) /\ Alive(s) => ~(r < s)
    BY DEF ChainInv, Live, Alive, Ended
  <2> QED
    BY <2>1 DEF Pid
<1>3. (OneReader => Inv) /\ ChainInv
        => (OneReader \/ "kill" \notin Signals => Serial)
  BY <1>1, <1>2
<1> QED
  BY <1>3, Invariant, ChainInvariant, PTL
=============================================================================
