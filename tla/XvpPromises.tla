---------------------------- MODULE XvpPromises ----------------------------
(***************************************************************************)
(* What xvp promises to whoever starts it: it implements module ArgRunner, *)
(* no argument is executed twice, -f, -s and -u do what the usage says,    *)
(* and the exit code means what it says.  For every number of processes,   *)
(* every file and every limit, while only xvp itself reads the file        *)
(* (OneReader); -f needs not even that, nor does the end of the name.       *)
(***************************************************************************)
EXTENDS XvpProof, WellFoundedInduction

(***************************************************************************)
(* A sequence that begins the list.                                        *)
(***************************************************************************)
LEMMA Beginning ==
  ASSUME NEW s \in Seq(Arg), NEW t \in Seq(Arg), list = s \o t
  PROVE  /\ Len(s) \in Nat /\ Len(list) \in Nat /\ Len(s) <= Len(list)
         /\ SubSeq(list, 1, Len(s)) = s
         /\ s # list => Len(s) < Len(list)
<1>1. /\ list \in Seq(Arg) /\ Len(list) = Len(s) + Len(t)
      /\ \A i \in 1 .. Len(s) : list[i] = s[i]
  BY ConcatProperties, LenProperties
<1>2. Len(s) \in Nat /\ Len(t) \in Nat /\ Len(list) \in Nat
  BY <1>1, LenProperties
<1>3. SubSeq(list, 1, Len(s)) = s
  <2> DEFINE r == SubSeq(list, 1, Len(s))
  <2>1. \A i \in 1 .. Len(s) : list[i] \in Arg
    BY <1>1, ElementOfSeq
  <2>2. /\ r \in Seq(Arg) /\ Len(r) = Len(s)
        /\ \A i \in 1 .. Len(s) : r[i] = list[i]
    BY <1>2, <2>1, SubSeqProperties
  <2> HIDE DEF r
  <2>3. r = s
    BY <1>1, <2>2, SeqEqual
  <2> QED
    BY <2>3 DEF r
<1>4. ASSUME s # list PROVE Len(s) < Len(list)
  <2>1. t # <<>>
    BY <1>4, ConcatEmptySeq
  <2>2. Len(t) \in Nat \ {0}
    BY <2>1, EmptySeq
  <2> QED
    BY <1>1, <1>2, <2>2
<1>5. Len(s) <= Len(list)
  <2>1. Len(list) = Len(s) + Len(t)
    BY <1>1
  <2> QED
    BY <1>2, <2>1
<1> QED
  BY <1>2, <1>3, <1>4, <1>5

(***************************************************************************)
(* Steps within the loop and steps outside of it change nothing of what is *)
(* promised.                                                               *)
(***************************************************************************)
LEMMA Rests ==
  ASSUME UNCHANGED <<list, handed>>, pc[Root] \in Loop <=> pc'[Root] \in Loop
  PROVE  UNCHANGED Promise!vars
BY DEF Promise!vars, Outcome

(***************************************************************************)
(* The step out of the loop: it may hand over a last batch.                *)
(***************************************************************************)
LEMMA LeavesAsPromised ==
  ASSUME NEW batch \in Seq(Arg), NEW left \in Seq(Arg), handed \in Seq(Arg),
         list = handed \o (batch \o left), handed' = handed \o batch,
         list' = list, pc[Root] \in Loop, pc'[Root] \notin Loop
  PROVE  Promise!Next
<1>1. /\ handed' \in Seq(Arg) /\ batch \o left \in Seq(Arg)
      /\ list = handed' \o left
      /\ Len(handed') = Len(handed) + Len(batch)
      /\ Len(batch) \in Nat /\ Len(handed) \in Nat
  BY ConcatProperties, ConcatAssociative, LenProperties
<1>2. PICK given : given = handed'
  OBVIOUS
<1>3. /\ Len(given) \in Nat /\ Len(list) \in Nat
      /\ SubSeq(list, 1, Len(given)) = given
      /\ given # list => Len(given) < Len(list)
  BY <1>1, <1>2, Beginning
<1>4. Outcome = "running" /\ Outcome' = IF given = list THEN "complete" ELSE "failed"
  BY <1>2 DEF Outcome
<1>5. CASE given = list
  BY <1>2, <1>4, <1>5 DEF Promise!Next, Promise!Finish
<1>6. CASE given # list
  <2>1. Len(batch) \in 0 .. Len(list) - Len(handed) - 1
    BY <1>1, <1>2, <1>3, <1>6
  <2>2. handed' = SubSeq(list, 1, Len(handed) + Len(batch))
    BY <1>1, <1>2, <1>3
  <2> QED
    BY <1>4, <1>6, <2>1, <2>2 DEF Promise!Next, Promise!GiveUp
<1> QED
  BY <1>5, <1>6

(***************************************************************************)
(* What xvp itself has and has not handed over, while it is in the loop.   *)
(***************************************************************************)
LEMMA RootHas ==
  ASSUME Inv, pc[Root] \in Loop
  PROVE  LET left == mem[Root].pend \o (mem[Root].buf \o rest) IN
         /\ handed \in Seq(Arg) /\ Current \in Seq(Arg) /\ left \in Seq(Arg)
         /\ mem[Root].argv \in Seq(Arg)
         /\ Current \o left \in Seq(Arg)
         /\ list = handed \o (Current \o left)
<1>1. /\ handed \in Seq(Arg) /\ mem[Root].argv \in Seq(Arg)
      /\ mem[Root].pend \in Seq(Arg) /\ mem[Root].buf \o rest \in Seq(Arg)
  BY RootSequences DEF Inv
<1>2. Current \in Seq(Arg)
  BY <1>1, EmptySeq DEF Current
<1>3. mem[Root].pend \o (mem[Root].buf \o rest) \in Seq(Arg)
  BY <1>1, ConcatProperties
<1> QED
  BY <1>1, <1>2, <1>3, ConcatProperties DEF Inv, FileInv

LEMMA GivesUpAsPromised ==
  ASSUME Inv, UNCHANGED <<list, handed>>, pc[Root] \in Loop, pc'[Root] \notin Loop
  PROVE  Promise!Next
<1> DEFINE left == Current \o (mem[Root].pend \o (mem[Root].buf \o rest))
<1>1. handed \in Seq(Arg) /\ left \in Seq(Arg) /\ list = handed \o left
  BY RootHas
<1>2. <<>> \in Seq(Arg) /\ <<>> \o left = left /\ handed \o <<>> = handed
  BY <1>1, EmptySeq, ConcatEmptySeq
<1> HIDE DEF left
<1> QED
  BY <1>1, <1>2, LeavesAsPromised

LEMMA ForksAsPromised ==
  ASSUME Inv, Fork(Root), TypeOK'
  PROVE  Promise!Next
<1>0. /\ pc[Root] = "ready" /\ list' = list /\ pc \in [Pid -> PC] /\ Root \in Pid
      /\ handed' = handed \o mem[Root].argv /\ mem[Root].argv # <<>>
  BY RootIsPid DEF Fork, start, Inv, TypeOK, PlaceInv, MayExecuteAnother
<1>1. pc'[Root] = "reap"
  BY <1>0 DEF Fork
<1>2. Outcome = "running" /\ Outcome' = "running"
  BY <1>0, <1>1 DEF Outcome, Loop, Gathering, Awaiting
<1> DEFINE batch == mem[Root].argv
           left == mem[Root].pend \o (mem[Root].buf \o rest)
<1>3. /\ handed \in Seq(Arg) /\ batch \in Seq(Arg) /\ left \in Seq(Arg)
      /\ list = handed \o (batch \o left)
  BY <1>0, RootHas DEF Current, Loop, Gathering
<1> HIDE DEF batch, left
<1>4. /\ handed' \in Seq(Arg) /\ list = handed' \o left
      /\ Len(handed') = Len(handed) + Len(batch)
      /\ Len(batch) \in Nat \ {0} /\ Len(handed) \in Nat
  <2>1. handed' = handed \o batch /\ batch # <<>>
    BY <1>0 DEF batch
  <2>2. handed' \in Seq(Arg) /\ Len(handed') = Len(handed) + Len(batch)
    BY <1>3, <2>1, ConcatProperties
  <2>3. list = handed' \o left
    BY <1>3, <2>1, ConcatAssociative
  <2>4. Len(batch) \in Nat \ {0}
    BY <1>3, <2>1, EmptySeq
  <2>5. Len(handed) \in Nat
    BY <1>3, LenProperties
  <2> QED
    BY <2>2, <2>3, <2>4, <2>5
<1>5. PICK given : given = handed'
  OBVIOUS
<1>6. /\ Len(given) <= Len(list) /\ Len(list) \in Nat
      /\ SubSeq(list, 1, Len(given)) = given
  BY <1>3, <1>4, <1>5, Beginning
<1>7. Len(batch) \in 1 .. Len(list) - Len(handed)
  BY <1>4, <1>5, <1>6
<1>8. handed' = SubSeq(list, 1, Len(handed) + Len(batch))
  BY <1>4, <1>5, <1>6
<1> QED
  BY <1>0, <1>2, <1>7, <1>8 DEF Promise!Next, Promise!RunBatch

LEMMA BatchAsPromised ==
  ASSUME Inv, Batch(Root), TypeOK'
  PROVE  [Promise!Next]_(Promise!vars)
<1>0. pc \in [Pid -> PC] /\ Root \in Pid
  BY RootIsPid DEF Inv, TypeOK
<1>1. CASE Fork(Root)
  BY <1>1, ForksAsPromised
<1>2. CASE ~Fork(Root)
  <2> USE <1>0 DEF start, file, kernel, history, Goto, FailWith, Loop, Gathering, Awaiting
  <2>1. CASE ForceOnce(Root) \/ ForkFails(Root)
    <3>1. UNCHANGED <<list, handed>> /\ pc[Root] \in Loop /\ pc'[Root] \notin Loop
      BY <2>1 DEF ForceOnce, ForkFails
    <3> QED
      BY <3>1, GivesUpAsPromised
  <2>2. CASE ReapAny(Root) \/ ReapNone(Root)
    <3>1. UNCHANGED <<list, handed>> /\ pc[Root] \in Loop /\ pc'[Root] \in Loop
      BY <2>2 DEF ReapAny, ReapNone, Zombies, Children, AfterReap
    <3> QED
      BY <3>1, Rests
  <2>3. CASE WaitExited(Root)
    <3>1. /\ UNCHANGED <<list, handed>> /\ pc[Root] \in Loop
          /\ pc'[Root] \in {"fail", "refine"}
      BY <2>3 DEF WaitExited, Zombies, Children
    <3> QED
      BY <3>1, Rests, GivesUpAsPromised
  <2>4. CASE WaitGone(Root) \/ WaitEvent(Root) \/ Refine(Root)
    <3>1. UNCHANGED <<list, handed>> /\ pc[Root] \in Loop /\ pc'[Root] \in Loop
      BY <2>4 DEF WaitGone, WaitEvent, Refine
    <3> QED
      BY <3>1, Rests
  <2> QED
    BY <1>2, <2>1, <2>2, <2>3, <2>4 DEF Batch
<1> QED
  BY <1>1, <1>2

LEMMA LeaveAsPromised ==
  ASSUME Inv, Leave(Root) \/ Outside(Root), TypeOK'
  PROVE  [Promise!Next]_(Promise!vars)
<1>0. /\ pc \in [Pid -> PC] /\ Root \in Pid
      /\ list' = list /\ pc'[Root] \notin Loop
  BY LeaveSteps, RootIsPid DEF LeaveFrame, Inv, TypeOK
<1>1. CASE Close(Root)
  <2>1. pc[Root] = "close" /\ handed' = handed \o mem[Root].argv
    BY <1>1 DEF Close, Goto
  <2>2. pc[Root] \in Loop /\ Current = mem[Root].argv
    BY <2>1 DEF Loop, Current
  <2> QED
    BY <1>0, <2>1, <2>2, RootHas, LeavesAsPromised
<1>2. CASE RunErr(Root)
  <2>1. pc[Root] \in Loop /\ handed' = handed
    BY <1>2 DEF RunErr, history, Loop, Gathering
  <2> QED
    BY <1>0, <2>1, GivesUpAsPromised
<1>3. CASE ~Close(Root) /\ ~RunErr(Root)
  <2>1. handed' = handed
    BY <1>3 DEF Leave, Outside, AwaitAny, Fail, ExecNothing, ExecProgram, ExecRetry,
         ExecFails, ProgramExit, Kill, Stop, Continue, history
  <2>2. pc[Root] \notin Loop
    BY <1>3 DEF Leave, Outside, AwaitAny, Fail, ExecNothing, ExecProgram, ExecRetry,
         ExecFails, ProgramExit, Kill, Stop, Continue, Goto, Loop, Gathering, Awaiting
  <2> QED
    BY <1>0, <2>1, <2>2, Rests
<1> QED
  BY <1>1, <1>2, <1>3

LEMMA RunnerStep ==
  ASSUME Inv, [Next]_vars
  PROVE  [Promise!Next]_(Promise!vars)
<1>1. TypeOK'
  BY TypeStep DEF Inv
<1>2. CASE UNCHANGED vars
  BY <1>2, Rests DEF vars
<1>3. ASSUME NEW p \in Pid, XvpStep(p) \/ Outside(p)
      PROVE  [Promise!Next]_(Promise!vars)
  <2>1. CASE p # Root
    <3>1. ChildFrame(p) /\ Root \in Pid
      BY <1>3, <2>1, ChildSteps, RootIsPid DEF Inv
    <3>2. UNCHANGED <<list, handed>> /\ (pc[Root] \in Loop <=> pc'[Root] \in Loop)
      BY <2>1, <3>1 DEF ChildFrame, Loop, Gathering, Awaiting
    <3> QED
      BY <3>2, Rests
  <2>2. CASE p = Root /\ Gather(Root)
    <3>1. GatherFrame
      BY <2>2, GatherSteps DEF Inv
    <3>2. /\ UNCHANGED <<list, handed>> /\ pc[Root] \in Loop
          /\ pc'[Root] \in Loop \/ pc'[Root] \notin Loop
      BY <3>1 DEF GatherFrame, Loop
    <3> QED
      BY <3>2, Rests, GivesUpAsPromised
  <2>3. CASE p = Root /\ Batch(Root)
    BY <1>1, <2>3, BatchAsPromised
  <2>4. CASE p = Root /\ (Leave(Root) \/ Outside(Root))
    BY <1>1, <2>4, LeaveAsPromised
  <2> QED
    BY <1>3, <2>1, <2>2, <2>3, <2>4 DEF XvpStep
<1> QED
  BY <1>2, <1>3 DEF Next, Terminated

(***************************************************************************)
(* xvp hands the arguments over in the order of the file, each at most     *)
(* once, in non-empty batches, and all of them unless it gives up: for any *)
(* file, limits, children and failures (lines 349-587).                    *)
(***************************************************************************)
THEOREM XvpImplements == Spec /\ OneReader => Implements
<1>1. Init => Promise!Init
  <2> SUFFICES ASSUME Init PROVE Promise!Init
    OBVIOUS
  <2>1. pc[Root] \in Loop
    BY RootIsPid DEF Init, Loop, Gathering
  <2> QED
    BY <2>1 DEF Init, Promise!Init, Outcome
<1>2. Inv /\ [Next]_vars => [Promise!Next]_(Promise!vars)
  BY RunnerStep
<1>3. OneReader /\ Init => Inv
  BY InitInv
<1>4. Inv /\ [Next]_vars => Inv'
  BY NextKeepsInv
<1> QED
  BY <1>1, <1>2, <1>3, <1>4, PTL DEF Spec, Implements, Promise!Spec

----------------------------------------------------------------------------
(***************************************************************************)
(* What every step leaves alone but for one kind: executions are noted by  *)
(* ExecProgram, the name goes with Close and Fail, a status is lost by     *)
(* ReapAny, and a process writes no status but its own.                    *)
(***************************************************************************)
LEMMA HistorySteps ==
  ASSUME TypeOK, NEW p \in Pid, XvpStep(p) \/ Outside(p)
  PROVE  /\ ExecProgram(p) \/ ran' = ran
         /\ Close(p) \/ Fail(p) \/ linked' = linked
         /\ ReapAny(p) \/ lost' = lost
         /\ lost \subseteq lost'
         /\ \A q \in Pid \ {p} : status'[q] = status[q]
<1> USE DEF TypeOK, start, file, kernel, history, FailWith, Exit
<1>1. CASE Gather(p)
  BY <1>1 DEF Gather, Begin, AppendPending, AppendPendingFails, SkipRead, ReadBlock,
       EndOfFile, TakeArg, TakeArgFails, SetAside, BufferDone
<1>2. CASE Batch(p)
  BY <1>2 DEF Batch, ForceOnce, Fork, ForkFails, ReapAny, ReapNone, WaitGone,
       WaitExited, WaitEvent, Refine
<1>3. CASE Leave(p)
  BY <1>3 DEF Leave, RunErr, Close, AwaitAny, Fail, ExecNothing, ExecProgram, ExecRetry,
       ExecFails
<1>4. CASE Outside(p)
  BY <1>4 DEF Outside, ProgramExit, Kill, Stop, Continue
<1> QED
  BY <1>1, <1>2, <1>3, <1>4 DEF XvpStep

(***************************************************************************)
(* Every step but Fork and Close: no process comes into being, nothing is  *)
(* handed over, and xvp itself goes on in the order of run().              *)
(***************************************************************************)
Calm ==
  /\ UNCHANGED <<opt, list, parent, handed>>
  /\ \A q \in Pid \ {Root} : mem'[q] = mem[q] /\ (pc'[q] = "free" <=> pc[q] = "free")
  /\ pc[Root] \notin Loop => mem'[Root] = mem[Root] /\ rest' = rest
  /\ pc[Root] \in Loop => \/ pc'[Root] \in Loop \cup {"fail"}
                          \/ pc[Root] = "setup" /\ pc'[Root] = "zombie"
  /\ pc[Root] = "fail" => pc'[Root] \in {"fail"} \cup Ended
  /\ pc[Root] \in {"waitany", "last"} =>
       pc'[Root] \in {"waitany", "last"} \cup Executing \cup Ended
  /\ pc[Root] \in Executing => pc'[Root] \in Executing \cup Ended
  /\ pc[Root] \in Ended => pc'[Root] \in Ended

LEMMA ChildIsCalm ==
  ASSUME NEW p \in Pid \ {Root}, ChildFrame(p)
  PROVE  Calm /\ ~Fork(p) /\ ~Close(p) /\ ~Fail(p) /\ ~ReapAny(p)
BY RootIsPid DEF ChildFrame, Calm, Fork, Close, Fail, ReapAny, Goto, Loop, Gathering,
   Awaiting, Executing, Ended

LEMMA GatherIsCalm ==
  ASSUME TypeOK, Gather(Root)
  PROVE  Calm
<1>1. GatherFrame
  BY GatherSteps
<1> QED
  BY <1>1 DEF GatherFrame, Calm, Loop, Gathering, Awaiting, Executing, Ended

LEMMA BatchIsCalm ==
  ASSUME TypeOK, Batch(Root), ~Fork(Root)
  PROVE  Calm
<1>0. pc \in [Pid -> PC] /\ mem \in [Pid -> Memory] /\ Root \in Pid
  BY RootIsPid DEF TypeOK
<1> USE <1>0 DEF start, file, kernel, history, Goto, FailWith, Calm, Loop, Gathering,
        Awaiting, Executing, Ended
<1>1. CASE ForceOnce(Root) \/ ForkFails(Root)
  BY <1>1 DEF ForceOnce, ForkFails
<1>2. CASE ReapAny(Root) \/ ReapNone(Root)
  BY <1>2 DEF ReapAny, ReapNone, Zombies, Children, AfterReap
<1>3. CASE WaitExited(Root)
  BY <1>3 DEF WaitExited, Zombies, Children
<1>4. CASE WaitGone(Root) \/ WaitEvent(Root) \/ Refine(Root)
  BY <1>4 DEF WaitGone, WaitEvent, Refine
<1> QED
  BY <1>1, <1>2, <1>3, <1>4 DEF Batch

LEMMA LeaveIsCalm ==
  ASSUME TypeOK, PlaceInv, Leave(Root) \/ Outside(Root), ~Close(Root)
  PROVE  Calm
<1>0. /\ pc \in [Pid -> PC] /\ mem \in [Pid -> Memory] /\ Root \in Pid
      /\ pc[Root] \notin {"free", "exec"}
  BY RootIsPid DEF TypeOK, PlaceInv, RootPlaces
<1> USE <1>0 DEF start, file, kernel, history, Goto, Exit, Calm, Loop, Gathering,
        Awaiting, Executing, Ended
<1>1. CASE AwaitAny(Root)
  BY <1>1 DEF AwaitAny, Zombies, Children
<1>2. CASE RunErr(Root) \/ Fail(Root)
  BY <1>2 DEF RunErr, Fail
<1>3. CASE ExecNothing(Root) \/ ExecProgram(Root) \/ ExecRetry(Root)
  BY <1>3 DEF ExecNothing, ExecProgram, ExecRetry
<1>4. CASE ExecFails(Root)
  BY <1>4 DEF ExecFails
<1>5. CASE Outside(Root)
  BY <1>5 DEF Outside, ProgramExit, Kill, Stop, Continue
<1> QED
  BY <1>1, <1>2, <1>3, <1>4, <1>5 DEF Leave

LEMMA CalmSteps ==
  ASSUME TypeOK, PlaceInv, NEW p \in Pid, XvpStep(p) \/ Outside(p)
  PROVE  \/ Calm
         \/ p = Root /\ Fork(Root)
         \/ p = Root /\ Close(Root)
<1>1. CASE p # Root
  BY <1>1, ChildSteps, ChildIsCalm
<1>2. CASE p = Root
  BY <1>2, GatherIsCalm, BatchIsCalm, LeaveIsCalm DEF XvpStep
<1> QED
  BY <1>1, <1>2

----------------------------------------------------------------------------
LEMMA CalmForked ==
  ASSUME Calm
  PROVE  Forked' = Forked
BY DEF Calm, Forked

(***************************************************************************)
(* A process that executes is a forked one or xvp itself with its last     *)
(* batch, which nothing changes from then on.                              *)
(***************************************************************************)
LEMMA ExecutesLast ==
  ASSUME TypeOK, NEW p \in Pid, ExecProgram(p)
  PROVE  /\ ran' = ran \cup {p} /\ p \in Forked \cup {Root}
         /\ p = Root => HasLast /\ pc'[Root] \in Executing
BY DEF TypeOK, ExecProgram, Forked, HasLast, Executing

LEMMA CalmKeepsLast ==
  ASSUME TypeOK, PlaceInv, BatchesInv, Calm, HasLast',
         NEW p \in Pid, ExecProgram(p) \/ ran' = ran
  PROVE  HasLast /\ mem'[Root] = mem[Root] /\ rest' = rest
<1>1. HasLast
  <2>1. CASE Root \in ran'
    BY <2>1, ExecutesLast DEF HasLast
  <2>2. CASE pc'[Root] \in {"waitany", "last"} \cup Executing
    BY <2>2 DEF Calm, HasLast, PlaceInv, RootPlaces, PC, Loop, Gathering, Awaiting,
         Leaving, Executing, Ended
  <2> QED
    BY <2>1, <2>2 DEF HasLast
<1>2. pc[Root] \notin Loop
  BY <1>1 DEF HasLast, BatchesInv, Loop, Gathering, Awaiting, Executing, Ended
<1> QED
  BY <1>1, <1>2 DEF Calm

LEMMA CalmKeepsBatches ==
  ASSUME TypeOK, PlaceInv, BatchesInv, Calm,
         NEW p \in Pid, ExecProgram(p) \/ ran' = ran
  PROVE  BatchesInv'
<1>1. /\ Forked' = Forked /\ UNCHANGED <<list, handed>>
      /\ \A q \in Forked : mem'[q] = mem[q]
  BY CalmForked DEF Calm, Forked
<1>2. Distinct(list)'
  BY <1>1 DEF BatchesInv, Distinct
<1>3. \A q \in Forked' : /\ Distinct(mem[q].argv)'
                         /\ Items(mem[q].argv)' \subseteq Items(handed)'
  BY <1>1 DEF BatchesInv, Distinct, Items
<1>4. \A q, r \in Forked' :
        q # r => Items(mem[q].argv)' \cap Items(mem[r].argv)' = {}
  BY <1>1 DEF BatchesInv, Items
<1>5. ASSUME HasLast'
      PROVE  /\ Distinct(mem[Root].argv)'
             /\ \A q \in Forked' : Items(mem[Root].argv)' \cap Items(mem[q].argv)' = {}
  <2>1. HasLast /\ mem'[Root] = mem[Root]
    BY <1>5, CalmKeepsLast
  <2> QED
    BY <1>1, <2>1 DEF BatchesInv, Distinct, Items
<1>6. ran' \subseteq Forked' \cup {Root}
  BY <1>1, ExecutesLast DEF BatchesInv
<1>7. Root \in ran' => pc'[Root] \in Executing \cup Ended
  BY ExecutesLast DEF BatchesInv, Calm
<1> QED
  BY <1>2, <1>3, <1>4, <1>5, <1>6, <1>7 DEF BatchesInv

(***************************************************************************)
(* A piece of a list without duplicates has none either, and nothing in    *)
(* common with what comes before it.                                       *)
(***************************************************************************)
LEMMA Pieces ==
  ASSUME NEW s \in Seq(Arg), NEW t \in Seq(Arg), NEW u \in Seq(Arg),
         Distinct(s \o (t \o u))
  PROVE  /\ Distinct(t)
         /\ Items(s) \cap Items(t) = {}
         /\ Items(s \o t) = Items(s) \cup Items(t)
<1> DEFINE l == s \o (t \o u)
<1>1. /\ t \o u \in Seq(Arg) /\ l \in Seq(Arg) /\ s \o t \in Seq(Arg)
      /\ Len(t \o u) = Len(t) + Len(u) /\ Len(l) = Len(s) + Len(t \o u)
      /\ Len(s \o t) = Len(s) + Len(t)
  BY ConcatProperties
<1>2. Len(s) \in Nat /\ Len(t) \in Nat /\ Len(u) \in Nat
  BY LenProperties
<1>3. /\ DOMAIN s = 1 .. Len(s) /\ DOMAIN t = 1 .. Len(t)
      /\ DOMAIN l = 1 .. Len(s) + Len(t) + Len(u)
      /\ DOMAIN (s \o t) = 1 .. Len(s) + Len(t)
  BY <1>1, <1>2, LenProperties
<1>4. \A i \in 1 .. Len(s) : l[i] = s[i] /\ (s \o t)[i] = s[i]
  BY <1>1, ConcatProperties
<1>5. \A i \in 1 .. Len(t) : l[Len(s) + i] = t[i] /\ (s \o t)[Len(s) + i] = t[i]
  <2> SUFFICES ASSUME NEW i \in 1 .. Len(t)
               PROVE  l[Len(s) + i] = t[i] /\ (s \o t)[Len(s) + i] = t[i]
    OBVIOUS
  <2>1. (t \o u)[i] = t[i]
    BY ConcatProperties
  <2>2. Len(s) + i \in Len(s) + 1 .. Len(s) + Len(t)
    BY <1>2
  <2>3. l[Len(s) + i] = (t \o u)[Len(s) + i - Len(s)]
    BY <1>1, <1>2, <2>2, ConcatProperties
  <2>4. (s \o t)[Len(s) + i] = t[Len(s) + i - Len(s)]
    BY <1>1, <1>2, <2>2, ConcatProperties
  <2> QED
    BY <1>2, <2>1, <2>3, <2>4
<1>6. \A i, j \in DOMAIN l : l[i] = l[j] => i = j
  BY DEF Distinct
<1> HIDE DEF l
<1>7. Distinct(t)
  <2> SUFFICES ASSUME NEW i \in 1 .. Len(t), NEW j \in 1 .. Len(t), t[i] = t[j]
               PROVE  i = j
    BY <1>3 DEF Distinct
  <2>1. Len(s) + i \in DOMAIN l /\ Len(s) + j \in DOMAIN l
    BY <1>2, <1>3
  <2>2. Len(s) + i = Len(s) + j
    BY <1>5, <1>6, <2>1
  <2> QED
    BY <1>2, <2>2
<1>8. ASSUME NEW i \in 1 .. Len(s), NEW j \in 1 .. Len(t) PROVE s[i] # t[j]
  <2>1. i \in DOMAIN l /\ Len(s) + j \in DOMAIN l /\ i # Len(s) + j
    BY <1>2, <1>3
  <2> QED
    BY <1>4, <1>5, <1>6, <2>1
<1>9. Items(s) \cap Items(t) = {}
  BY <1>3, <1>8 DEF Items
<1>10. Items(s \o t) = Items(s) \cup Items(t)
  <2>1. ASSUME NEW i \in 1 .. Len(s) + Len(t)
        PROVE  (s \o t)[i] \in Items(s) \cup Items(t)
    <3>1. CASE i <= Len(s)
      BY <1>2, <1>3, <1>4, <3>1 DEF Items
    <3>2. CASE i > Len(s)
      <4>1. i - Len(s) \in 1 .. Len(t) /\ i = Len(s) + (i - Len(s))
        BY <1>2, <3>2
      <4> QED
        BY <1>3, <1>5, <4>1 DEF Items
    <3> QED
      BY <1>2, <3>1, <3>2
  <2>2. ASSUME NEW i \in 1 .. Len(s) PROVE s[i] \in Items(s \o t)
    BY <1>2, <1>3, <1>4 DEF Items
  <2>3. ASSUME NEW i \in 1 .. Len(t) PROVE t[i] \in Items(s \o t)
    <3>1. Len(s) + i \in DOMAIN (s \o t)
      BY <1>2, <1>3
    <3> QED
      BY <1>5, <3>1 DEF Items
  <2> QED
    BY <1>3, <2>1, <2>2, <2>3 DEF Items
<1> QED
  BY <1>7, <1>9, <1>10

----------------------------------------------------------------------------
(***************************************************************************)
(* xvp itself hands over its batch: to a forked process, or keeps it as    *)
(* the last one.                                                           *)
(***************************************************************************)
LEMMA BatchIsNew ==
  ASSUME Inv, BatchesInv, pc[Root] \in {"ready", "close"}
  PROVE  /\ Distinct(mem[Root].argv)
         /\ Items(handed) \cap Items(mem[Root].argv) = {}
         /\ Items(handed \o mem[Root].argv)
              = Items(handed) \cup Items(mem[Root].argv)
         /\ Root \notin ran
<1> DEFINE left == mem[Root].pend \o (mem[Root].buf \o rest)
<1>1. /\ handed \in Seq(Arg) /\ mem[Root].argv \in Seq(Arg) /\ left \in Seq(Arg)
      /\ list = handed \o (mem[Root].argv \o left)
  BY RootHas DEF Current, Loop, Gathering
<1>2. Distinct(list) /\ Root \notin ran
  BY DEF BatchesInv, Executing, Ended
<1> HIDE DEF left
<1> QED
  BY <1>1, <1>2, Pieces

LEMMA ForkFrame ==
  ASSUME TypeOK, Fork(Root)
  PROVE  /\ UNCHANGED <<opt, list, rest, linked, status, ran, lost>>
         /\ pc[Root] = "ready" /\ pc'[Root] = "reap" /\ ~opt.force
         /\ handed' = handed \o mem[Root].argv
         /\ mem'[Root].child \in Pid \ ({Root} \cup Forked)
         /\ Forked' = Forked \cup {mem'[Root].child}
         /\ pc'[mem'[Root].child] = "exec" /\ parent'[mem'[Root].child] = Root
         /\ mem'[mem'[Root].child].argv = mem[Root].argv
         /\ \A q \in Forked : /\ mem'[q] = mem[q] /\ pc'[q] = pc[q]
                               /\ parent'[q] = parent[q]
<1>0. /\ pc \in [Pid -> PC] /\ mem \in [Pid -> Memory] /\ Root \in Pid
      /\ parent \in [Pid -> 0 .. MaxPid] /\ mem[Root] \in Memory
      /\ pc[Root] = "ready" /\ UNCHANGED <<opt, list, rest, linked, status, ran, lost>>
      /\ handed' = handed \o mem[Root].argv /\ ~opt.force
  BY RootIsPid DEF start, TypeOK, Fork, file, MayExecuteAnother
<1>1. PICK c \in Pid :
        /\ pc[c] = "free"
        /\ pc' = [pc EXCEPT ![Root] = "reap", ![c] = "exec"]
        /\ mem' = [mem EXCEPT ![Root].child = c,
                              ![c] = [mem[Root] EXCEPT !.child = 0]]
        /\ parent' = [parent EXCEPT ![c] = Root]
  BY DEF Fork
<1>2. /\ c # Root /\ pc'[Root] = "reap" /\ pc'[c] = "exec" /\ parent'[c] = Root
      /\ mem'[Root] = [mem[Root] EXCEPT !.child = c]
      /\ mem'[c] = [mem[Root] EXCEPT !.child = 0]
      /\ \A q \in Pid \ {Root, c} : /\ pc'[q] = pc[q] /\ mem'[q] = mem[q]
                                    /\ parent'[q] = parent[q]
  BY <1>0, <1>1
<1>3. mem'[Root].child = c /\ mem'[c].argv = mem[Root].argv
  BY <1>0, <1>2 DEF Memory
<1>4. c \notin Forked /\ Forked' = Forked \cup {c}
  <2>1. c \notin Forked /\ c \in Forked'
    BY <1>1, <1>2 DEF Forked
  <2>2. \A q \in Pid \ {Root, c} : q \in Forked' <=> q \in Forked
    BY <1>2 DEF Forked
  <2>3. Forked \subseteq Pid \ {Root} /\ Forked' \subseteq Pid \ {Root}
    BY DEF Forked
  <2> QED
    BY <2>1, <2>2, <2>3
<1>5. \A q \in Forked : q \in Pid \ {Root, c}
  BY <1>4 DEF Forked
<1> QED
  BY <1>0, <1>2, <1>3, <1>4, <1>5

LEMMA ForkKeepsBatches ==
  ASSUME Inv, BatchesInv, Fork(Root)
  PROVE  BatchesInv'
<1> DEFINE batch == mem[Root].argv
           c == mem'[Root].child
<1>0. /\ UNCHANGED <<list, ran>> /\ pc[Root] = "ready" /\ pc'[Root] = "reap"
      /\ handed' = handed \o batch
      /\ c \notin Forked /\ Forked' = Forked \cup {c} /\ mem'[c].argv = batch
      /\ \A q \in Forked : mem'[q] = mem[q]
  BY ForkFrame DEF Inv
<1>1. /\ Distinct(batch) /\ Items(handed) \cap Items(batch) = {}
      /\ Items(handed \o batch) = Items(handed) \cup Items(batch)
      /\ Root \notin ran
  BY <1>0, BatchIsNew
<1>2. \A q \in Forked : /\ Distinct(mem'[q].argv)
                        /\ Items(mem'[q].argv) \subseteq Items(handed)
  BY <1>0 DEF BatchesInv
<1>3. \A q, r \in Forked :
        q # r => Items(mem'[q].argv) \cap Items(mem'[r].argv) = {}
  BY <1>0 DEF BatchesInv
<1>4. Items(handed') = Items(handed) \cup Items(batch)
  BY <1>0, <1>1
<1>5. Distinct(mem'[c].argv) /\ Items(mem'[c].argv) = Items(batch)
  BY <1>0, <1>1
<1> HIDE DEF batch, c
<1>6. Distinct(list)'
  BY <1>0 DEF BatchesInv, Distinct
<1>7. \A q \in Forked' : /\ Distinct(mem'[q].argv)
                         /\ Items(mem'[q].argv) \subseteq Items(handed')
  BY <1>0, <1>2, <1>4, <1>5
<1>8. \A q, r \in Forked' :
        q # r => Items(mem'[q].argv) \cap Items(mem'[r].argv) = {}
  BY <1>0, <1>1, <1>2, <1>3, <1>5
<1>9. ~HasLast' /\ Root \notin ran' /\ ran' \subseteq Forked' \cup {Root}
  BY <1>0, <1>1 DEF HasLast, Executing, BatchesInv
<1> QED
  BY <1>6, <1>7, <1>8, <1>9 DEF BatchesInv, Distinct, Items

LEMMA CloseFrame ==
  ASSUME TypeOK, Close(Root)
  PROVE  /\ UNCHANGED <<opt, list, rest, mem, parent, status, ran, lost>>
         /\ pc[Root] = "close" /\ pc'[Root] = "waitany"
         /\ linked' = (linked /\ ~opt.unlink)
         /\ handed' = handed \o mem[Root].argv
         /\ Forked' = Forked
         /\ \A q \in Forked : pc'[q] = pc[q]
<1>1. pc \in [Pid -> PC] /\ Root \in Pid
  BY RootIsPid DEF TypeOK
<1> QED
  BY <1>1 DEF Close, Goto, DeleteScript, start, kernel, Forked

LEMMA CloseKeepsBatches ==
  ASSUME Inv, BatchesInv, Close(Root)
  PROVE  BatchesInv'
<1> DEFINE batch == mem[Root].argv
<1>0. /\ UNCHANGED <<list, ran, mem>> /\ pc[Root] = "close"
      /\ handed' = handed \o batch /\ Forked' = Forked
  BY CloseFrame DEF Inv
<1>1. /\ Distinct(batch) /\ Items(handed) \cap Items(batch) = {}
      /\ Items(handed \o batch) = Items(handed) \cup Items(batch)
      /\ Root \notin ran
  BY <1>0, BatchIsNew
<1>2. \A q \in Forked : /\ Distinct(mem[q].argv)
                        /\ Items(mem[q].argv) \subseteq Items(handed)
  BY DEF BatchesInv
<1>3. Items(handed') = Items(handed) \cup Items(batch)
  BY <1>0, <1>1
<1>4. \A q \in Forked : Items(batch) \cap Items(mem[q].argv) = {}
  BY <1>1, <1>2
<1>5. \A q \in Forked : Items(mem[q].argv) \subseteq Items(handed')
  BY <1>2, <1>3
<1> HIDE DEF batch
<1>6. Distinct(list)' /\ ran' \subseteq Forked' \cup {Root} /\ Root \notin ran'
  BY <1>0, <1>1 DEF BatchesInv, Distinct
<1>7. /\ \A q \in Forked' : Distinct(mem'[q].argv)
      /\ \A q, r \in Forked' :
           q # r => Items(mem'[q].argv) \cap Items(mem'[r].argv) = {}
  BY <1>0 DEF BatchesInv
<1>8. /\ \A q \in Forked' : Items(mem'[q].argv) \subseteq Items(handed')
      /\ Distinct(mem'[Root].argv)
      /\ \A q \in Forked' : Items(mem'[Root].argv) \cap Items(mem'[q].argv) = {}
  BY <1>0, <1>1, <1>4, <1>5 DEF batch
<1> QED
  BY <1>6, <1>7, <1>8 DEF BatchesInv, Distinct, Items

----------------------------------------------------------------------------
(***************************************************************************)
(* xvp itself closes the file with an empty buffer only, and leaves `fail' *)
(* through Fail only.                                                      *)
(***************************************************************************)
LEMMA ClosesEmpty ==
  ASSUME TypeOK, PlaceInv, ForceInv, NEW p \in Pid, XvpStep(p) \/ Outside(p),
         pc'[Root] = "close"
  PROVE  mem'[Root].buf = <<>>
<1>0. pc \in [Pid -> PC] /\ Root \in Pid
  BY RootIsPid DEF TypeOK
<1>1. CASE p # Root
  BY <1>0, <1>1, ChildSteps DEF ChildFrame, ForceInv
<1>2. CASE p = Root /\ Gather(Root)
  BY <1>0, <1>2 DEF Gather, Begin, AppendPending, AppendPendingFails, SkipRead, ReadBlock,
       EndOfFile, TakeArg, TakeArgFails, SetAside, BufferDone, FailWith, Goto
<1>3. CASE p = Root /\ Batch(Root)
  <2>1. pc'[Root] # "close"
    BY <1>0, <1>3 DEF Batch, ForceOnce, Fork, ForkFails, ReapAny, ReapNone, WaitGone,
         WaitExited, WaitEvent, Refine, FailWith, Goto, Zombies, Children, AfterReap
  <2> QED
    BY <2>1
<1>4. CASE p = Root /\ (Leave(Root) \/ Outside(Root))
  BY <1>4, LeaveSteps DEF LeaveFrame, Loop
<1> QED
  BY <1>1, <1>2, <1>3, <1>4 DEF XvpStep

LEMMA FailOnly ==
  ASSUME TypeOK, PlaceInv, NEW p \in Pid, XvpStep(p) \/ Outside(p),
         pc[Root] = "fail", pc'[Root] # "fail"
  PROVE  Fail(Root)
<1>0. pc \in [Pid -> PC] /\ Root \in Pid
  BY RootIsPid DEF TypeOK
<1>1. CASE p # Root
  BY <1>0, <1>1, ChildSteps DEF ChildFrame
<1>2. CASE p = Root /\ Gather(Root)
  BY <1>2, GatherSteps DEF GatherFrame, Gathering
<1>3. CASE p = Root /\ Batch(Root)
  BY <1>3 DEF Batch, ForceOnce, Fork, ForkFails, ReapAny, ReapNone, WaitGone,
       WaitExited, WaitEvent, Refine, FailWith, Goto
<1>4. CASE p = Root /\ Leave(Root)
  BY <1>4 DEF Leave, RunErr, Close, AwaitAny, ExecNothing, ExecProgram, ExecRetry,
       ExecFails, Goto
<1>5. CASE p = Root /\ Outside(Root)
  BY <1>5 DEF Outside, ProgramExit, Kill, Stop, Continue, Goto
<1> QED
  BY <1>1, <1>2, <1>3, <1>4, <1>5 DEF XvpStep

LEMMA StaysOut ==
  ASSUME PlaceInv, Calm, pc'[Root] \in Loop
  PROVE  pc[Root] \in Loop
BY DEF PlaceInv, RootPlaces, Calm, PC, Leaving, Loop, Gathering, Awaiting,
   Executing, Ended

(***************************************************************************)
(* -f: the last batch is everything that was read.                         *)
(***************************************************************************)
LEMMA LastIsAll ==
  ASSUME Inv, ForceInv, opt.force, pc[Root] = "close", rest = <<>>
  PROVE  mem[Root].argv = list
<1>1. /\ mem[Root].argv \in Seq(Arg) /\ handed = <<>>
      /\ mem[Root].pend = <<>> /\ mem[Root].buf = <<>>
      /\ list = handed \o (mem[Root].argv
                           \o (mem[Root].pend \o (mem[Root].buf \o rest)))
  BY RootHas, RootBatch DEF Current, Loop, Inv, ForceInv
<1>2. <<>> \in Seq(Arg) /\ <<>> \o <<>> = <<>>
  BY EmptySeq, ConcatEmptySeq
<1>3. mem[Root].argv \o <<>> = mem[Root].argv /\ <<>> \o mem[Root].argv = mem[Root].argv
  BY <1>1, ConcatEmptySeq
<1> QED
  BY <1>1, <1>2, <1>3

LEMMA StepKeepsForce ==
  ASSUME Inv, BatchesInv, ForceInv, NEW p \in Pid, XvpStep(p) \/ Outside(p)
  PROVE  ForceInv'
<1>0. TypeOK /\ PlaceInv
  BY DEF Inv
<1>1. pc'[Root] = "close" => mem'[Root].buf = <<>>
  BY <1>0, ClosesEmpty
<1>2. CASE Calm
  <2>1. UNCHANGED <<opt, list, handed>> /\ Forked' = Forked
    BY <1>2, CalmForked DEF Calm
  <2>2. pc'[Root] \in Loop => pc[Root] \in Loop
    BY <1>0, <1>2, StaysOut
  <2>3. HasLast' => HasLast /\ mem'[Root] = mem[Root] /\ rest' = rest
    BY <1>0, <1>2, CalmKeepsLast, HistorySteps
  <2> QED
    BY <1>1, <2>1, <2>2, <2>3 DEF ForceInv
<1>3. CASE Fork(Root)
  BY <1>0, <1>1, <1>3, ForkFrame DEF ForceInv
<1>4. CASE Close(Root)
  <2>1. /\ UNCHANGED <<opt, list, rest, mem>> /\ Forked' = Forked
        /\ pc[Root] = "close" /\ pc'[Root] = "waitany"
    BY <1>0, <1>4, CloseFrame
  <2>2. opt.force /\ rest = <<>> => mem[Root].argv = list
    BY <2>1, LastIsAll
  <2> QED
    BY <2>1, <2>2 DEF ForceInv, Loop, Gathering, Awaiting
<1> QED
  BY <1>0, <1>2, <1>3, <1>4, CalmSteps

LEMMA StepKeepsName ==
  ASSUME TypeOK, PlaceInv, NameInv, NEW p \in Pid, XvpStep(p) \/ Outside(p)
  PROVE  NameInv'
<1>1. CASE Calm /\ linked' = linked
  <2>1. pc'[Root] \in Loop \cup {"fail"} => pc[Root] \in Loop \cup {"fail"}
    BY <1>1 DEF PlaceInv, RootPlaces, Calm, PC, Leaving, Loop, Gathering, Awaiting,
       Executing, Ended
  <2> QED
    BY <1>1, <2>1 DEF NameInv, Calm
<1>2. CASE Fail(Root)
  <2>1. pc[Root] = "fail" /\ pc'[Root] = "zombie" /\ opt' = opt
    BY <1>2, RootIsPid DEF Fail, Exit, TypeOK, start
  <2> QED
    BY <1>2, <2>1 DEF Fail, DeleteScript, NameInv, Loop, Gathering, Awaiting
<1>3. CASE p = Root /\ Fork(Root)
  BY <1>3, ForkFrame DEF NameInv, Loop, Gathering, Awaiting
<1>4. CASE p = Root /\ Close(Root)
  BY <1>4, CloseFrame DEF NameInv, Loop, Gathering, Awaiting
<1>5. p # Root => linked' = linked
  BY ChildSteps, ChildIsCalm, HistorySteps
<1> QED
  BY <1>1, <1>2, <1>3, <1>4, <1>5, CalmSteps, HistorySteps

----------------------------------------------------------------------------
(***************************************************************************)
(* The name, whoever reads the file: xvp itself leaves the loop, or what   *)
(* it does after a failure, with a step that deletes it, or goes out in    *)
(* front of the loop.                                                      *)
(***************************************************************************)
LEMMA LeavesDeleting ==
  ASSUME TypeOK, NEW p \in Pid, XvpStep(p) \/ Outside(p),
         pc[Root] \in Loop \cup {"fail"}, pc'[Root] \notin Loop \cup {"fail"}
  PROVE  Close(Root) \/ Fail(Root) \/ RunErr(Root)
<1>0. pc \in [Pid -> PC] /\ mem \in [Pid -> Memory] /\ Root \in Pid
  BY RootIsPid DEF TypeOK
<1> USE DEF Loop, Gathering, Awaiting
<1>1. CASE p # Root
  <2>1. CASE Fork(p)
    <3>1. PICK c \in Pid : ForksTo(p, c)
      BY <2>1, ForkSteps
    <3> QED
      BY <1>0, <1>1, <3>1 DEF ForksTo
  <2>2. CASE ~Fork(p)
    BY <1>0, <1>1, <2>2, StepFrameHolds DEF StepFrame
  <2> QED
    BY <2>1, <2>2
<1>2. CASE p = Root /\ Gather(Root)
  BY <1>2, GatherSteps DEF GatherFrame
<1>3. CASE p = Root /\ Batch(Root)
  BY <1>0, <1>3 DEF Batch, ForceOnce, Fork, ForkFails, ReapAny, ReapNone, WaitGone,
       WaitExited, WaitEvent, Refine, FailWith, Goto, Zombies, Children, AfterReap
<1>4. CASE p = Root /\ Leave(Root)
  BY <1>0, <1>4 DEF Leave, AwaitAny, ExecNothing, ExecProgram, ExecRetry, ExecFails,
       Goto
<1>5. CASE p = Root /\ Outside(Root)
  BY <1>5 DEF Outside, ProgramExit, Kill, Stop, Continue, Goto
<1> QED
  BY <1>1, <1>2, <1>3, <1>4, <1>5 DEF XvpStep

(***************************************************************************)
(* In front of the loop xvp is alone, has read nothing and executed        *)
(* nothing.  It goes there only at the start, and where it ends from there *)
(* nobody takes a step any more.                                           *)
(***************************************************************************)
LEMMA Alone ==
  ASSUME TypeOK, Fresh, NEW p \in Pid, XvpStep(p) \/ Outside(p)
  PROVE  p = Root /\ pc[Root] \notin Ended
BY StepIsLive DEF Fresh, Forked, Live

LEMMA SetupStep == TypeOK /\ SetupInv /\ [Next]_vars => SetupInv'
<1> SUFFICES ASSUME TypeOK, SetupInv, [Next]_vars PROVE SetupInv'
  OBVIOUS
<1>0. pc \in [Pid -> PC] /\ Root \in Pid
  BY RootIsPid DEF TypeOK
<1>1. CASE UNCHANGED vars
  BY <1>1 DEF vars, SetupInv, Fresh, Forked
<1>2. ASSUME NEW p \in Pid, XvpStep(p) \/ Outside(p) PROVE pc'[Root] # "setup"
  <2>1. CASE p # Root
    <3>1. pc[Root] # "setup"
      BY <1>2, <2>1, Alone DEF SetupInv
    <3>2. CASE Fork(p)
      <4>1. PICK c \in Pid : ForksTo(p, c)
        BY <3>2, ForkSteps
      <4> QED
        BY <1>0, <2>1, <3>1, <4>1 DEF ForksTo
    <3>3. CASE ~Fork(p)
      BY <1>0, <1>2, <2>1, <3>1, <3>3, StepFrameHolds DEF StepFrame
    <3> QED
      BY <3>2, <3>3
  <2>2. CASE p = Root /\ Gather(Root)
    BY <1>0, <2>2 DEF Gather, Begin, AppendPending, AppendPendingFails, SkipRead,
         ReadBlock, EndOfFile, TakeArg, TakeArgFails, SetAside, BufferDone, FailWith,
         Goto
  <2>3. CASE p = Root /\ Batch(Root)
    BY <1>0, <2>3 DEF Batch, ForceOnce, Fork, ForkFails, ReapAny, ReapNone, WaitGone,
         WaitExited, WaitEvent, Refine, FailWith, Goto, Zombies, Children, AfterReap
  <2>4. CASE p = Root /\ Leave(Root)
    BY <1>0, <2>4 DEF Leave, RunErr, Close, AwaitAny, Fail, ExecNothing, ExecProgram,
         ExecRetry, ExecFails, Goto, Exit, Zombies, Children
  <2>5. CASE p = Root /\ Outside(Root)
    BY <1>0, <2>5 DEF Outside, ProgramExit, Kill, Stop, Continue, Goto, Exit
  <2> QED
    BY <1>2, <2>1, <2>2, <2>3, <2>4, <2>5 DEF XvpStep
<1> QED
  BY <1>1, <1>2 DEF Next, Terminated, SetupInv

LEMMA InitSetup == Init => SetupInv
BY RootIsPid DEF Init, SetupInv, Fresh, Forked

LEMMA SetupInvariant == Spec => []SetupInv
BY InitSetup, SetupStep, TypeCorrect, PTL DEF Spec

LEMMA RunErrFrame ==
  ASSUME TypeOK, RunErr(Root)
  PROVE  /\ UNCHANGED <<list, rest, cut, linked, ran>> /\ Forked' = Forked
         /\ pc[Root] = "setup" /\ pc'[Root] = "zombie" /\ status'[Root] # 0
<1>1. pc \in [Pid -> PC] /\ status \in [Pid -> Int] /\ Root \in Pid
  BY RootIsPid DEF TypeOK
<1>2. UNCHANGED <<list, rest, cut, linked, ran>> /\ pc[Root] = "setup"
  BY DEF RunErr, start, file, history
<1>3. \E e \in {ENOMEM, EINVAL} : /\ pc' = [pc EXCEPT ![Root] = "zombie"]
                                   /\ status' = [status EXCEPT ![Root] = e]
  BY DEF RunErr, Exit
<1>4. pc'[Root] = "zombie" /\ status'[Root] # 0
  BY <1>1, <1>3 DEF ENOMEM, EINVAL
<1>5. Forked' = Forked
  BY <1>1, <1>3 DEF Forked
<1> QED
  BY <1>2, <1>4, <1>5

LEMMA DeletedStep ==
  TypeOK /\ SetupInv /\ DeletedInv /\ [Next]_vars => DeletedInv'
<1> SUFFICES ASSUME TypeOK, SetupInv, DeletedInv, [Next]_vars PROVE DeletedInv'
  OBVIOUS
<1>1. CASE UNCHANGED vars
  BY <1>1 DEF vars, DeletedInv, Fresh, Forked
<1>2. ASSUME NEW p \in Pid, XvpStep(p) \/ Outside(p) PROVE DeletedInv'
  <2>1. opt' = opt /\ opt \in OptionSet /\ linked \in BOOLEAN
    BY StartKept DEF TypeOK
  <2>2. linked' = linked \/ linked' = (linked /\ ~opt.unlink)
    BY <1>2, HistorySteps DEF Close, Fail, DeleteScript
  <2>3. Close(Root) \/ Fail(Root) => linked' = (linked /\ ~opt.unlink)
    BY DEF Close, Fail, DeleteScript
  <2>4. opt.unlink \in BOOLEAN
    BY <2>1 DEF OptionSet
  <2>5. CASE RunErr(Root)
    <3>1. Fresh' /\ linked' = linked /\ pc'[Root] = "zombie" /\ status'[Root] # 0
      BY <2>5, RunErrFrame DEF SetupInv, Fresh
    <3> QED
      BY <2>1, <3>1 DEF DeletedInv, Ended
  <2>6. CASE Close(Root) \/ Fail(Root)
    BY <2>1, <2>3, <2>4, <2>6 DEF DeletedInv
  <2>7. CASE pc'[Root] \in Loop \cup {"fail"}
    BY <2>1, <2>2, <2>4, <2>7 DEF DeletedInv
  <2>8. CASE pc[Root] \notin Loop \cup {"fail"}
    <3>1. ~(pc[Root] \in Ended /\ Fresh)
      BY <1>2, Alone
    <3> QED
      BY <2>1, <2>2, <2>4, <2>8, <3>1 DEF DeletedInv
  <2> QED
    BY <1>2, <2>5, <2>6, <2>7, <2>8, LeavesDeleting
<1> QED
  BY <1>1, <1>2 DEF Next, Terminated

(***************************************************************************)
(* The name of the file goes only with -u, and is gone behind run(), who-  *)
(* ever reads the file (lines 585-587 and 596-599), unless run() ended in  *)
(* front of its loop (lines 362-401 and 601-603): then xvp exits with an   *)
(* error, has read nothing, forked nobody and executed nothing.            *)
(***************************************************************************)
THEOREM DeletedInvariant == Spec => []DeletedInv
<1>1. Init => DeletedInv
  BY RootIsPid DEF Init, DeletedInv, Loop, Gathering
<1> QED
  BY <1>1, DeletedStep, SetupInvariant, TypeCorrect, PTL DEF Spec

----------------------------------------------------------------------------
(***************************************************************************)
(* What StrictInv says of the statuses, and of the process waited for.     *)
(***************************************************************************)
Watched ==
  pc[Root] \in {"reap", "wait"} =>
    mem[Root].child \in Forked /\ pc[mem[Root].child] # "gone"

Excused(q) ==
  \/ pc[q] \notin Ended \/ status[q] = 0
  \/ pc[Root] \in {"reap", "wait"} /\ q = mem[Root].child
  \/ pc[Root] \in {"fail"} \cup Ended

StrictCase == opt.strict /\ lost = {}

LEMMA StrictParts ==
  StrictInv <=> /\ opt \in Options
                /\ \A q \in Forked : parent[q] = Root
                /\ StrictCase => Watched /\ \A q \in Forked : Excused(q)
BY DEF StrictInv, StrictCase, Watched, Excused

LEMMA StrictWaits ==
  ASSUME opt \in Options, opt.strict
  PROVE  ~opt.noWait
BY OptionAssumption

(***************************************************************************)
(* A forked process leaves the other children of xvp alone, and can only   *)
(* fail while xvp itself waits for it.                                     *)
(***************************************************************************)
LEMMA ChildReapsOwn ==
  ASSUME TypeOK, NEW p \in Pid \ {Root}, ChildFrame(p), XvpStep(p) \/ Outside(p)
  PROVE  /\ pc'[p] # "gone"
         /\ \A q \in Pid \ {p} : pc'[q] = pc[q] \/ parent[q] = p
<1>1. /\ pc \in [Pid -> PC] /\ pc[p] \in Executing
  BY DEF TypeOK, ChildFrame
<1> USE <1>1 DEF Goto, Exit, FailWith, Executing
<1>2. CASE Gather(p)
  BY <1>2 DEF Gather, Begin, AppendPending, AppendPendingFails, SkipRead, ReadBlock,
       EndOfFile, TakeArg, TakeArgFails, SetAside, BufferDone
<1>3. CASE Batch(p)
  BY <1>3 DEF Batch, ForceOnce, Fork, ForkFails, ReapAny, ReapNone, WaitGone,
       WaitExited, WaitEvent, Refine
<1>4. CASE AwaitAny(p)
  BY <1>4 DEF AwaitAny, Zombies, Children
<1>5. CASE Leave(p) /\ ~AwaitAny(p)
  BY <1>5 DEF Leave, RunErr, Close, Fail, ExecNothing, ExecProgram, ExecRetry, ExecFails
<1>6. CASE Outside(p)
  BY <1>6 DEF Outside, ProgramExit, Kill, Stop, Continue
<1> QED
  BY <1>2, <1>3, <1>4, <1>5, <1>6 DEF XvpStep

LEMMA ChildKeepsStrict ==
  ASSUME Inv, StrictInv, StrictCase, NEW p \in Pid \ {Root},
         XvpStep(p) \/ Outside(p)
  PROVE  Watched' /\ \A q \in Forked' : Excused(q)'
<1>1. ChildFrame(p) /\ Forked' = Forked
  BY ChildSteps, ChildIsCalm, CalmForked DEF Inv
<1>2. /\ UNCHANGED mem /\ pc'[p] # "gone"
      /\ \A q \in Forked : parent[q] = Root
      /\ \A q \in Forked \ {p} : pc'[q] = pc[q] /\ status'[q] = status[q]
      /\ Watched /\ \A q \in Forked : Excused(q)
  BY <1>1, ChildReapsOwn, HistorySteps, StrictParts DEF Inv, ChildFrame, Forked
<1>3. pc'[Root] = pc[Root] \/ (pc[Root] \in Ended /\ pc'[Root] \in Ended)
  BY <1>1, RootIsPid DEF ChildFrame, Ended
<1>4. Watched'
  BY <1>1, <1>2, <1>3 DEF Watched, Ended
<1>5. Excused(p)'
  <2>1. ~opt.noWait
    BY StrictWaits DEF StrictInv, StrictCase
  <2>2. pc[Root] \in {"reap", "wait"} /\ p = mem[Root].child
    BY <1>1, <2>1 DEF Inv, SerialInv, ChildFrame, Executing, Ended
  <2> QED
    BY <1>2, <1>3, <2>2 DEF Excused, Ended
<1>6. ASSUME NEW q \in Forked \ {p} PROVE Excused(q)'
  BY <1>2, <1>3 DEF Excused, Ended
<1> QED
  BY <1>1, <1>4, <1>5, <1>6

(***************************************************************************)
(* xvp itself, before and after a wait.                                    *)
(***************************************************************************)
LEMMA LoopKeepsStrict ==
  ASSUME UNCHANGED lost, StrictCase => \A q \in Forked : Excused(q),
         Forked' = Forked, UNCHANGED opt,
         pc[Root] \notin {"reap", "wait"}, pc'[Root] \notin {"reap", "wait"},
         pc[Root] \in {"fail"} \cup Ended => pc'[Root] \in {"fail"} \cup Ended,
         \A q \in Forked : /\ pc'[q] \in Ended => pc[q] \in Ended
                           /\ status'[q] = status[q]
  PROVE  StrictCase' => Watched' /\ \A q \in Forked' : Excused(q)'
BY DEF StrictCase, Watched, Excused

LEMMA GatherKeepsStrict ==
  ASSUME Inv, StrictInv, Gather(Root)
  PROVE  StrictCase' => Watched' /\ \A q \in Forked' : Excused(q)'
<1>1. /\ GatherFrame /\ Calm /\ lost' = lost
      /\ \A q \in Forked : status'[q] = status[q]
  <2>1. ~ReapAny(Root)
    BY GatherSteps DEF ReapAny, GatherFrame, Gathering, Inv
  <2> QED
    BY <2>1, GatherSteps, GatherIsCalm, HistorySteps, RootIsPid DEF XvpStep, Forked, Inv
<1>2. Forked' = Forked
  BY <1>1, CalmForked
<1>3. \A q \in Forked : pc'[q] = pc[q]
  BY <1>1 DEF GatherFrame, Forked
<1>4. /\ pc[Root] \notin {"reap", "wait", "fail"} \cup Ended
      /\ pc'[Root] \notin {"reap", "wait"}
  BY <1>1 DEF GatherFrame, Gathering, Ended
<1>5. StrictCase => \A q \in Forked : Excused(q)
  BY StrictParts
<1> QED
  BY <1>1, <1>2, <1>3, <1>4, <1>5, LoopKeepsStrict DEF GatherFrame

LEMMA LeaveKeepsStrict ==
  ASSUME Inv, StrictInv, Leave(Root) \/ Outside(Root)
  PROVE  StrictCase' => Watched' /\ \A q \in Forked' : Excused(q)'
<1>0. TypeOK /\ PlaceInv
  BY DEF Inv
<1>1. LeaveFrame
  BY <1>0, LeaveSteps
<1>2. /\ lost' = lost /\ \A q \in Forked : status'[q] = status[q]
  <2>1. ~ReapAny(Root)
    BY <1>1 DEF ReapAny, LeaveFrame
  <2> QED
    BY <1>0, <2>1, HistorySteps, RootIsPid DEF XvpStep, Forked
<1>3. \A q \in Forked : pc'[q] \in Ended => pc[q] \in Ended
  BY <1>1 DEF LeaveFrame, Forked, Ended
<1>4. /\ Forked' = Forked
      /\ pc[Root] \in {"fail"} \cup Ended => pc'[Root] \in {"fail"} \cup Ended
  <2>1. CASE Close(Root)
    BY <1>0, <2>1, CloseFrame DEF Ended
  <2>2. CASE ~Close(Root)
    <3>1. Calm
      BY <1>0, <2>2, LeaveIsCalm
    <3> QED
      BY <3>1, CalmForked DEF Calm
  <2> QED
    BY <2>1, <2>2
<1>5. pc[Root] \notin {"reap", "wait"} /\ pc'[Root] \notin {"reap", "wait"}
  BY <1>1 DEF LeaveFrame, Loop, Awaiting
<1>6. StrictCase => \A q \in Forked : Excused(q)
  BY StrictParts
<1> QED
  BY <1>1, <1>2, <1>3, <1>4, <1>5, <1>6, LoopKeepsStrict DEF LeaveFrame

LEMMA ForkKeepsStrict ==
  ASSUME Inv, StrictInv, Fork(Root)
  PROVE  StrictCase' => Watched' /\ \A q \in Forked' : Excused(q)'
<1>0. PICK c : c = mem'[Root].child
  OBVIOUS
<1>1. /\ UNCHANGED <<opt, status, lost>> /\ pc[Root] = "ready" /\ pc'[Root] = "reap"
      /\ Forked' = Forked \cup {c} /\ pc'[c] = "exec"
      /\ \A q \in Forked : pc'[q] = pc[q]
  BY <1>0, ForkFrame DEF Inv
<1>2. StrictCase => \A q \in Forked : Excused(q)
  BY StrictParts
<1>3. Watched'
  BY <1>0, <1>1 DEF Watched
<1>4. StrictCase => \A q \in Forked : Excused(q)'
  BY <1>1, <1>2 DEF Excused, Ended
<1>5. Excused(c)'
  BY <1>1 DEF Excused, Ended
<1> QED
  BY <1>1, <1>3, <1>4, <1>5 DEF StrictCase

(***************************************************************************)
(* The wait: with -s and no status lost it finds the process it is for.    *)
(***************************************************************************)
LEMMA ReapKeepsStrict ==
  ASSUME Inv, StrictInv, ReapAny(Root) \/ ReapNone(Root), StrictCase'
  PROVE  Watched' /\ \A q \in Forked' : Excused(q)'
<1> DEFINE c == mem[Root].child
<1>0. /\ pc \in [Pid -> PC] /\ mem \in [Pid -> Memory] /\ Root \in Pid
      /\ mem[Root] \in Memory
  BY RootIsPid DEF Inv, TypeOK
<1>1. /\ UNCHANGED <<opt, status>> /\ lost \subseteq lost'
      /\ pc[Root] = "reap" /\ pc'[Root] = AfterReap
      /\ mem' = [mem EXCEPT ![Root] = AfterReapErr(@)]
  BY <1>0 DEF ReapAny, ReapNone, Goto, Zombies, Children, start, kernel, history
<1>2. StrictCase /\ ~opt.noWait
  BY <1>1, StrictWaits DEF StrictCase, StrictInv
<1>3. Watched /\ \A q \in Forked : Excused(q)
  BY <1>2, StrictParts
<1>4. pc'[Root] = "wait" /\ mem'[Root].child = c
  BY <1>0, <1>1, <1>2 DEF AfterReap, AfterReapErr, Memory
<1>5. Forked' = Forked
  <2>1. Calm
    BY BatchIsCalm DEF Batch, Inv, ReapAny, ReapNone, Fork, Goto
  <2> QED
    BY <2>1, CalmForked
<1>6. c \in Forked /\ c \in Pid \ {Root}
  BY <1>1, <1>3 DEF Watched, Forked
<1>7. /\ pc'[c] = pc[c]
      /\ \A q \in Pid \ {Root} : pc'[q] \in Ended => pc[q] \in Ended
  <2>1. CASE ReapNone(Root)
    BY <1>0, <1>6, <2>1 DEF ReapNone, Goto
  <2>2. CASE ReapAny(Root)
    <3>1. PICK z \in Zombies(Root) :
            /\ pc' = [pc EXCEPT ![Root] = AfterReap, ![z] = "gone"]
            /\ lost' = IF ~opt.noWait /\ z = c THEN lost \cup {z} ELSE lost
      BY <2>2 DEF ReapAny
    <3>2. z # c
      BY <1>2, <3>1 DEF StrictCase
    <3> QED
      BY <1>0, <1>6, <3>1, <3>2 DEF Zombies, Ended
  <2> QED
    BY <2>1, <2>2
<1>8. Watched'
  BY <1>1, <1>3, <1>4, <1>5, <1>6, <1>7 DEF Watched
<1>9. ASSUME NEW q \in Forked PROVE Excused(q)'
  <2>1. Excused(q) /\ pc[Root] \notin {"fail"} \cup Ended /\ q \in Pid \ {Root}
    BY <1>1, <1>3 DEF Ended, Forked
  <2> QED
    BY <1>1, <1>4, <1>7, <2>1 DEF Excused
<1> QED
  BY <1>5, <1>8, <1>9

LEMMA WaitKeepsStrict ==
  ASSUME Inv, StrictInv, StrictCase,
         WaitGone(Root) \/ WaitExited(Root) \/ WaitEvent(Root)
  PROVE  Watched' /\ \A q \in Forked' : Excused(q)'
<1>c. PICK c : c = mem[Root].child
  OBVIOUS
<1>0. /\ pc \in [Pid -> PC] /\ mem \in [Pid -> Memory] /\ Root \in Pid
      /\ pc[Root] = "wait"
  BY RootIsPid DEF Inv, TypeOK, WaitGone, WaitExited, WaitEvent, Goto
<1>1. Watched /\ \A q \in Forked : Excused(q) /\ parent[q] = Root
  BY StrictParts
<1>2. c \in Forked /\ c \in Pid \ {Root} /\ c \in Children(Root)
  BY <1>c, <1>0, <1>1 DEF Watched, Forked, Children
<1>3. UNCHANGED status
  BY DEF WaitGone, WaitExited, WaitEvent, kernel
<1>4. Forked' = Forked
  <2>1. Calm
    BY <1>0, BatchIsCalm DEF Batch, Inv, Fork
  <2> QED
    BY <2>1, CalmForked
<1>5. CASE WaitGone(Root)
  BY <1>c, <1>2, <1>5 DEF WaitGone
<1>6. CASE WaitExited(Root)
  <2>1. pc' = [pc EXCEPT ![Root] = IF opt.strict /\ status[c] # 0
                                   THEN "fail" ELSE "refine",
                         ![c] = "gone"]
    BY <1>c, <1>6 DEF WaitExited
  <2>2. /\ pc'[Root] = IF opt.strict /\ status[c] # 0 THEN "fail" ELSE "refine"
        /\ \A q \in Pid \ {Root, c} : pc'[q] = pc[q]
    BY <1>0, <1>2, <2>1
  <2>3. CASE status[c] # 0
    <3>1. pc'[Root] = "fail"
      BY <2>2, <2>3 DEF StrictCase
    <3> QED
      BY <3>1 DEF Watched, Excused
  <2>4. CASE status[c] = 0
    <3>1. pc'[Root] = "refine" /\ Excused(c)'
      BY <1>3, <2>2, <2>4 DEF Excused
    <3>2. ASSUME NEW q \in Forked \ {c} PROVE Excused(q)'
      BY <1>c, <1>0, <1>1, <1>3, <2>2 DEF Excused, Forked, Ended
    <3> QED
      BY <1>4, <3>1, <3>2 DEF Watched
  <2> QED
    BY <2>3, <2>4
<1>7. CASE WaitEvent(Root)
  <2>1. UNCHANGED <<mem, pc>>
    BY <1>0, <1>7 DEF WaitEvent, Goto
  <2> QED
    BY <1>1, <1>3, <1>4, <2>1 DEF Watched, Excused
<1> QED
  BY <1>5, <1>6, <1>7

LEMMA BatchKeepsStrict ==
  ASSUME Inv, StrictInv, Batch(Root)
  PROVE  StrictCase' => Watched' /\ \A q \in Forked' : Excused(q)'
<1>0. /\ pc \in [Pid -> PC] /\ Root \in Pid
      /\ StrictCase' => StrictCase
  <2>1. opt' = opt
    BY BatchIsCalm, ForkFrame DEF Calm, Inv
  <2> QED
    BY <2>1, HistorySteps, RootIsPid DEF Inv, TypeOK, StrictCase, XvpStep
<1>1. CASE ForceOnce(Root) \/ ForkFails(Root)
  <2>1. pc'[Root] = "fail"
    BY <1>0, <1>1 DEF ForceOnce, ForkFails, FailWith, Goto
  <2> QED
    BY <2>1 DEF Watched, Excused
<1>2. CASE Fork(Root)
  BY <1>2, ForkKeepsStrict
<1>3. CASE ReapAny(Root) \/ ReapNone(Root)
  BY <1>3, ReapKeepsStrict
<1>4. CASE WaitGone(Root) \/ WaitExited(Root) \/ WaitEvent(Root)
  BY <1>0, <1>4, WaitKeepsStrict
<1>5. CASE Refine(Root)
  <2>1. /\ pc[Root] = "refine" /\ pc'[Root] = "top" /\ UNCHANGED <<opt, lost, status>>
        /\ \A q \in Pid \ {Root} : pc'[q] = pc[q]
    BY <1>0, <1>5 DEF Refine, Goto, start, kernel, history
  <2>2. Forked' = Forked /\ \A q \in Forked : pc'[q] = pc[q]
    BY <2>1 DEF Forked
  <2>3. StrictCase => \A q \in Forked : Excused(q)
    BY StrictParts
  <2> QED
    BY <2>1, <2>2, <2>3, LoopKeepsStrict DEF Ended
<1> QED
  BY <1>1, <1>2, <1>3, <1>4, <1>5 DEF Batch

LEMMA StepKeepsStrict ==
  ASSUME Inv, StrictInv, NEW p \in Pid, XvpStep(p) \/ Outside(p)
  PROVE  StrictInv'
<1>0. TypeOK /\ PlaceInv
  BY DEF Inv
<1>1. /\ opt' \in Options
      /\ \A q \in Forked' : parent'[q] = Root
  <2>1. CASE Calm
    BY <2>1, CalmForked DEF Calm, StrictInv
  <2>2. CASE Fork(Root)
    <3>1. /\ opt' = opt /\ Forked' = Forked \cup {mem'[Root].child}
          /\ parent'[mem'[Root].child] = Root
          /\ \A q \in Forked : parent'[q] = parent[q]
      BY <1>0, <2>2, ForkFrame
    <3> QED
      BY <3>1 DEF StrictInv
  <2>3. CASE Close(Root)
    BY <1>0, <2>3, CloseFrame DEF StrictInv
  <2> QED
    BY <1>0, <2>1, <2>2, <2>3, CalmSteps
<1>2. StrictCase' => Watched' /\ \A q \in Forked' : Excused(q)'
  <2>1. CASE p # Root
    <3>1. StrictCase' => StrictCase
      BY <1>0, <2>1, ChildSteps, HistorySteps DEF ChildFrame, StrictCase
    <3> QED
      BY <2>1, <3>1, ChildKeepsStrict
  <2>2. CASE p = Root
    BY <2>2, GatherKeepsStrict, BatchKeepsStrict, LeaveKeepsStrict DEF XvpStep
  <2> QED
    BY <2>1, <2>2
<1> QED
  BY <1>1, <1>2, StrictParts DEF StrictInv, StrictCase, Watched, Excused

----------------------------------------------------------------------------
LEMMA InitPromises == OneReader /\ Init => PromiseInv
<1> SUFFICES ASSUME OneReader, Init PROVE PromiseInv
  OBVIOUS
<1>1. Inv
  BY InitInv
<1>2. /\ Forked = {} /\ pc[Root] = "setup" /\ ran = {} /\ handed = <<>>
      /\ linked = TRUE /\ opt \in Options /\ list \in ArgFiles
  BY RootIsPid DEF Init, Forked
<1>3. ~HasLast
  BY <1>2 DEF HasLast, Executing
<1>4. Distinct(list)
  <2>1. /\ list \in Seq(Arg)
        /\ \A i, j \in 1 .. Len(list) : list[i] = list[j] => i = j
    BY <1>2, ArgAssumption
  <2>2. DOMAIN list = 1 .. Len(list)
    BY <2>1, LenProperties
  <2> QED
    BY <2>1, <2>2 DEF Distinct
<1>5. BatchesInv
  BY <1>2, <1>3, <1>4 DEF BatchesInv
<1>6. ForceInv /\ NameInv /\ StrictInv
  BY <1>2, <1>3 DEF ForceInv, NameInv, StrictInv, Loop, Gathering
<1> QED
  BY <1>1, <1>5, <1>6 DEF PromiseInv

LEMMA RestsPromises ==
  ASSUME PromiseInv, UNCHANGED vars
  PROVE  PromiseInv'
<1>1. Inv'
  BY NextKeepsInv DEF PromiseInv
<1>2. Forked' = Forked /\ HasLast' = HasLast
  BY DEF vars, Forked, HasLast
<1>3. BatchesInv'
  <2>1. Calm /\ ran' = ran
    BY DEF vars, Calm
  <2> QED
    BY <2>1, RootIsPid, CalmKeepsBatches DEF PromiseInv, Inv
<1>4. ForceInv' /\ NameInv'
  BY <1>2 DEF vars, PromiseInv, ForceInv, NameInv
<1>5. StrictInv'
  BY <1>2 DEF vars, PromiseInv, StrictInv
<1> QED
  BY <1>1, <1>3, <1>4, <1>5 DEF PromiseInv

LEMMA NextKeepsPromises == PromiseInv /\ [Next]_vars => PromiseInv'
<1> SUFFICES ASSUME PromiseInv, [Next]_vars PROVE PromiseInv'
  OBVIOUS
<1>1. Inv' /\ Inv /\ TypeOK /\ PlaceInv
  BY NextKeepsInv DEF PromiseInv, Inv
<1>2. CASE UNCHANGED vars
  BY <1>2, RestsPromises
<1>3. ASSUME NEW p \in Pid, XvpStep(p) \/ Outside(p) PROVE PromiseInv'
  <2>1. BatchesInv'
    <3>1. Calm => BatchesInv'
      BY <1>1, <1>3, CalmKeepsBatches, HistorySteps DEF PromiseInv
    <3> QED
      BY <1>1, <1>3, <3>1, CalmSteps, ForkKeepsBatches, CloseKeepsBatches DEF PromiseInv
  <2>2. ForceInv' /\ NameInv' /\ StrictInv'
    BY <1>1, <1>3, StepKeepsForce, StepKeepsName, StepKeepsStrict DEF PromiseInv
  <2> QED
    BY <1>1, <2>1, <2>2 DEF PromiseInv
<1> QED
  BY <1>2, <1>3 DEF Next, Terminated

(***************************************************************************)
(* The inductive invariant with what it knows of the batches, of -f, of    *)
(* the name of the file and of the statuses.                               *)
(***************************************************************************)
THEOREM PromiseInvariant == Spec => [](OneReader => PromiseInv)
<1> DEFINE J == OneReader => PromiseInv
<1>1. Init => J
  BY InitPromises
<1>2. TypeOK /\ J /\ [Next]_vars => J'
  BY NextKeepsPromises, OneReaderKept
<1> HIDE DEF J
<1>3. Spec => []J
  BY <1>1, <1>2, TypeCorrect, PTL DEF Spec
<1> QED
  BY <1>3 DEF J

(***************************************************************************)
(* No argument is executed twice, by any processes: a batch is what        *)
(* argv_curr holds at the fork, and nothing of it is in another batch      *)
(* (lines 495-496 and 573-593).                                            *)
(***************************************************************************)
THEOREM AtMostOnceHolds == Spec => [](OneReader => AtMostOnce)
<1>1. PromiseInv => AtMostOnce
  <2> SUFFICES ASSUME PromiseInv, NEW p \in ran, NEW q \in ran,
                      NEW i \in DOMAIN mem[p].argv, NEW j \in DOMAIN mem[q].argv,
                      mem[p].argv[i] = mem[q].argv[j]
               PROVE  p = q /\ i = j
    BY DEF AtMostOnce
  <2>1. /\ mem[p].argv[i] \in Items(mem[p].argv)
        /\ mem[p].argv[i] \in Items(mem[q].argv)
    BY DEF Items
  <2>2. /\ p \in Forked \cup {Root} /\ q \in Forked \cup {Root}
        /\ p = Root \/ q = Root => HasLast
    BY DEF PromiseInv, BatchesInv, HasLast
  <2>3. p = q
    BY <2>1, <2>2 DEF PromiseInv, BatchesInv
  <2>4. Distinct(mem[p].argv)
    BY <2>2 DEF PromiseInv, BatchesInv
  <2> QED
    BY <2>3, <2>4 DEF Distinct
<1>2. (OneReader => PromiseInv) => (OneReader => AtMostOnce)
  BY <1>1
<1> QED
  BY <1>2, PromiseInvariant, PTL

(***************************************************************************)
(* -f: xvp forks nobody, and its one execution has the whole file if that  *)
(* could be read (lines 490-493 and 593).                                  *)
(***************************************************************************)
THEOREM ForceSingleHolds == Spec => []ForceSingle
<1>1. (OneReader => PromiseInv) => ForceSingle
  BY DEF OneReader, PromiseInv, BatchesInv, ForceInv, HasLast, ForceSingle
<1> QED
  BY <1>1, PromiseInvariant, PTL

(***************************************************************************)
(* -u: the name stays while xvp itself reads, and is gone when xvp has     *)
(* left run(), whichever system call fails in or behind the loop (lines    *)
(* 585-587 and 596-599).  If one in front of the loop fails it stays, and  *)
(* then nothing was read, nothing executed, and xvp exits with an error.   *)
(***************************************************************************)
THEOREM UnlinkedHolds == Spec => []Unlinked
<1>1. DeletedInv /\ (OneReader => PromiseInv) => Unlinked
  BY DEF DeletedInv, PromiseInv, NameInv, Unlinked, Untouched, Fresh, Loop, Gathering,
         Awaiting, Ended
<1> QED
  BY <1>1, DeletedInvariant, PromiseInvariant, PTL

LEMMA ExecutesAfterSuccess ==
  ASSUME PromiseInv, NEW p \in Pid, ExecProgram(p), opt.strict, lost = {}
  PROVE  NoneFailed
<1>1. /\ ~opt.noWait /\ \A q \in Forked : Excused(q)
      /\ pc[p] \in {"exec", "last", "again"}
  BY StrictWaits, StrictParts DEF PromiseInv, StrictInv, StrictCase, ExecProgram
<1>2. \/ p = Root
      \/ p # Root /\ pc[Root] \in {"reap", "wait"} /\ p = mem[Root].child
  BY <1>1 DEF PromiseInv, Inv, SerialInv, Ended
<1>3. ASSUME NEW q \in Pid, pc[q] \in Ended
      PROVE  status[q] = 0
  <2>1. q # Root /\ q # p
    BY <1>1, <1>2, <1>3 DEF Ended
  <2>2. q \in Forked
    BY <1>3, <2>1 DEF Forked, Ended
  <2> QED
    BY <1>1, <1>2, <1>3, <2>1, <2>2 DEF Excused, Ended
<1> QED
  BY <1>3 DEF NoneFailed

(***************************************************************************)
(* -s: no execution starts after a failed one, unless line 503 has thrown  *)
(* a status away: xvp itself is either still waiting for the process that  *)
(* failed or has given up (lines 521-561).                                 *)
(***************************************************************************)
THEOREM StrictStopsHolds == Spec /\ OneReader => StrictStops
<1>1. PromiseInv /\ [Next]_vars
        => [opt.strict /\ ran' # ran /\ lost = {} => NoneFailed]_vars
  <2> SUFFICES ASSUME PromiseInv, [Next]_vars, ran' # ran, opt.strict, lost = {}
               PROVE  NoneFailed
    OBVIOUS
  <2>1. PICK p \in Pid : XvpStep(p) \/ Outside(p)
    BY DEF Next, Terminated, vars
  <2>2. ExecProgram(p)
    BY <2>1, HistorySteps DEF PromiseInv, Inv
  <2> QED
    BY <2>2, ExecutesAfterSuccess
<1>2. OneReader /\ Init => PromiseInv
  BY InitPromises
<1>3. PromiseInv /\ [Next]_vars => PromiseInv'
  BY NextKeepsPromises
<1> QED
  BY <1>1, <1>2, <1>3, PTL DEF Spec, StrictStops

----------------------------------------------------------------------------
(***************************************************************************)
(* The exit code of xvp: it is that of the latest of the processes, and    *)
(* among processes there is a latest one.                                  *)
(***************************************************************************)
LEMMA LatestExists ==
  ASSUME Forked # {}
  PROVE  \E p \in Forked : Latest(p)
<1> DEFINE S == {n \in Nat : \E p \in Forked : n = MaxPid - p}
           Less == {ss \in Nat \X Nat : ss[1] < ss[2]}
<1>1. \A p \in Forked : p \in Nat /\ p <= MaxPid
  BY ProcessAssumption DEF Forked, Pid
<1>2. \A p \in Forked : MaxPid - p \in S
  BY <1>1, ProcessAssumption
<1>3. S # {} /\ S \in SUBSET Nat
  BY <1>2
<1>4. Less = OpToRel(<, Nat)
  BY Zenon DEF OpToRel
<1>5. IsWellFoundedOn(Less, Nat)
  BY <1>4, NatLessThanWellFounded, Zenon
<1> HIDE DEF Less
<1>6. PICK n \in S : \A m \in S : ~(<<m, n>> \in Less)
  BY <1>3, <1>5, WFMin
<1>7. PICK p \in Forked : n = MaxPid - p
  BY <1>6
<1>8. ASSUME NEW q \in Forked PROVE q <= p
  <2>1. MaxPid - q \in Nat /\ n \in Nat /\ ~(MaxPid - q < n)
    BY <1>2, <1>6 DEF Less
  <2> QED
    BY <1>1, <1>7, <2>1, ProcessAssumption
<1> QED
  BY <1>7, <1>8 DEF Latest

LEMMA LatestIsOne ==
  ASSUME NEW p, NEW q, Latest(p), Latest(q)
  PROVE  p = q
<1>1. p \in Nat /\ q \in Nat /\ p <= q /\ q <= p
  BY DEF Latest, Forked, Pid
<1> QED
  BY <1>1

----------------------------------------------------------------------------
(***************************************************************************)
(* How a process ends: in front of the loop, or with err, or as a          *)
(* <program>, or it could not execute what it had, or a signal ended it.   *)
(***************************************************************************)
Ends(p) ==
  \/ pc[p] = "setup" /\ status'[p] # 0
  \/ pc[p] \in {"exec", "last", "again"} /\ mem[p].argv # <<>> /\ status'[p] # 0
  \/ p # Root /\ status'[p] # 0
  \/ pc[p] = "program"
  \/ pc[p] = "fail" /\ status'[p] = mem[p].err
  \/ pc[p] = "last" /\ status'[p] = mem[p].err /\ mem[p].argv = <<>>

LEMMA OwnSteps ==
  ASSUME TypeOK, NEW p \in Pid, XvpStep(p) \/ Outside(p)
  PROVE  /\ pc[p] \notin {"free"} \cup Ended
         /\ \/ status'[p] = status[p] /\ pc'[p] \notin Ended
            \/ pc'[p] = "zombie" /\ Ends(p)
         /\ pc'[p] \in {"program", "stopped"} =>
              ExecProgram(p) \/ pc[p] \in {"program", "stopped"}
<1>0. pc \in [Pid -> PC] /\ status \in [Pid -> Int]
  BY SMTT(30) DEF TypeOK
<1> USE <1>0 DEF Goto, FailWith, start, file, kernel, history, Ended
<1>1. CASE Gather(p)
  BY <1>1 DEF Gather, Begin, AppendPending, AppendPendingFails, SkipRead, ReadBlock,
       EndOfFile, TakeArg, TakeArgFails, SetAside, BufferDone
<1>2. CASE Batch(p)
  <2>1. CASE ForceOnce(p) \/ ForkFails(p) \/ ReapNone(p) \/ WaitGone(p)
             \/ WaitEvent(p) \/ Refine(p)
    BY <2>1 DEF ForceOnce, ForkFails, ReapNone, WaitGone, WaitEvent, Refine, AfterReap
  <2>2. CASE Fork(p)
    BY <2>2 DEF Fork
  <2>3. CASE ReapAny(p) \/ WaitExited(p)
    BY <2>3 DEF ReapAny, WaitExited, Zombies, Children, AfterReap
  <2> QED
    BY <1>2, <2>1, <2>2, <2>3 DEF Batch
<1>3. CASE Close(p) \/ AwaitAny(p) \/ ExecProgram(p) \/ ExecRetry(p)
  BY <1>3 DEF Close, AwaitAny, Zombies, Children, ExecProgram, ExecRetry
<1>4. CASE RunErr(p) \/ Fail(p)
  BY <1>4 DEF RunErr, Fail, Exit, Ends, ENOMEM, EINVAL
<1>5. CASE ExecNothing(p)
  BY <1>5 DEF ExecNothing, Exit, Ends
<1>6. CASE ExecFails(p)
  <2>1. PICK e \in ExecErrors : Exit(p, e)
    BY <1>6 DEF ExecFails
  <2>2. e # 0 /\ pc[p] \in {"exec", "last", "again"} /\ mem[p].argv # <<>>
    BY <1>6, OutcomeAssumption DEF ExecFails
  <2> QED
    BY <2>1, <2>2 DEF Exit, Ends
<1>7. CASE ProgramExit(p)
  BY <1>7 DEF ProgramExit, Exit, Ends
<1>8. CASE Kill(p)
  BY <1>8 DEF Kill, Exit, Ends, Killed
<1>9. CASE Stop(p) \/ Continue(p)
  BY <1>9 DEF Stop, Continue
<1> QED
  BY <1>1, <1>2, <1>3, <1>4, <1>5, <1>6, <1>7, <1>8, <1>9
     DEF XvpStep, Leave, Outside

LEMMA SetupEnds ==
  ASSUME pc[Root] = "setup", Ends(Root)
  PROVE  status'[Root] # 0
BY DEF Ends

(***************************************************************************)
(* The other processes: a fork starts one, a wait takes one away.          *)
(***************************************************************************)
LEMMA OtherSteps ==
  ASSUME TypeOK, PlaceInv, NEW p \in Pid, XvpStep(p) \/ Outside(p),
         NEW q \in Pid \ {p}
  PROVE  /\ status'[q] = status[q]
         /\ \/ pc'[q] = pc[q]
            \/ pc[q] = "zombie" /\ pc'[q] = "gone"
            \/ pc[q] = "free" /\ pc'[q] = "exec"
<1>0. pc \in [Pid -> PC] /\ status'[q] = status[q]
  BY HistorySteps DEF TypeOK
<1>1. CASE p # Root
  BY <1>0, <1>1, ChildSteps DEF ChildFrame
<1>2. CASE p = Root /\ Gather(Root)
  BY <1>0, <1>2, GatherSteps DEF GatherFrame
<1>3. CASE p = Root /\ (Leave(Root) \/ Outside(Root))
  BY <1>0, <1>3, LeaveSteps DEF LeaveFrame
<1>4. CASE p = Root /\ Batch(Root)
  <2> USE <1>0, <1>4 DEF Goto, FailWith
  <2>1. CASE Fork(Root)
    BY <2>1 DEF Fork
  <2>2. CASE ReapAny(Root) \/ WaitExited(Root)
    BY <2>2 DEF ReapAny, WaitExited, Zombies
  <2>3. CASE ~Fork(Root) /\ ~ReapAny(Root) /\ ~WaitExited(Root)
    BY <2>3 DEF Batch, ForceOnce, ForkFails, ReapNone, WaitGone, WaitEvent, Refine
  <2> QED
    BY <2>1, <2>2, <2>3
<1> QED
  BY <1>1, <1>2, <1>3, <1>4 DEF XvpStep

(***************************************************************************)
(* A fork takes the lowest process that has not been used.                 *)
(***************************************************************************)
LEMMA ForkOrder ==
  ASSUME TypeOK, ForkedInv, Fork(Root)
  PROVE  LET c == mem'[Root].child IN
         /\ \A q \in 2 .. c : q \in Forked \cup {c}
         /\ \A q \in Forked : q < c
<1>0. /\ mem \in [Pid -> Memory] /\ Root \in Pid /\ mem[Root] \in Memory
  BY RootIsPid DEF TypeOK
<1>1. PICK c \in Pid :
        /\ pc[c] = "free" /\ \A d \in Pid : pc[d] = "free" => c <= d
        /\ mem' = [mem EXCEPT ![Root].child = c,
                              ![c] = [mem[Root] EXCEPT !.child = 0]]
        /\ pc[Root] = "ready"
  BY DEF Fork
<1>2. c # Root /\ mem'[Root].child = c
  BY <1>0, <1>1 DEF Memory
<1>3. ASSUME NEW q \in 2 .. c PROVE q \in Forked \cup {c}
  <2>1. q \in Pid /\ q # Root /\ (q = c \/ ~(c <= q))
    BY <1>2, ProcessAssumption DEF Pid, Root
  <2> QED
    BY <1>1, <2>1 DEF Forked
<1>4. ASSUME NEW q \in Forked PROVE q < c
  <2>1. c \notin Forked /\ q \in Nat /\ c \in Nat /\ c >= 2
    BY <1>1, <1>2, ProcessAssumption DEF Forked, Pid, Root
  <2>2. ~(c \in 2 .. q)
    BY <2>1 DEF ForkedInv
  <2> QED
    BY <2>1, <2>2
<1> QED
  BY <1>2, <1>3, <1>4

LEMMA StepKeepsForked ==
  ASSUME Inv, BatchesInv, ForkedInv, NEW p \in Pid, XvpStep(p) \/ Outside(p)
  PROVE  ForkedInv'
<1>0. TypeOK /\ PlaceInv
  BY DEF Inv
<1>1. \A q \in Forked' : /\ \A r \in 2 .. q : r \in Forked'
                         /\ mem'[q].argv # <<>>
  <2>1. CASE Forked' = Forked /\ \A q \in Forked : mem'[q] = mem[q]
    BY <2>1 DEF ForkedInv
  <2>2. Calm \/ Close(Root) =>
          Forked' = Forked /\ \A q \in Forked : mem'[q] = mem[q]
    BY <1>0, CalmForked, CloseFrame DEF Calm, Forked
  <2>3. CASE Fork(Root)
    <3> PICK c : c = mem'[Root].child
      OBVIOUS
    <3>1. /\ Forked' = Forked \cup {c} /\ mem[Root].argv # <<>>
          /\ mem'[c].argv = mem[Root].argv
          /\ \A q \in Forked : mem'[q] = mem[q]
      BY <1>0, <2>3, ForkFrame DEF PlaceInv
    <3>2. \A r \in 2 .. c : r \in Forked \cup {c}
      BY <1>0, <2>3, ForkOrder
    <3> QED
      BY <3>1, <3>2 DEF ForkedInv
  <2> QED
    BY <1>0, <2>1, <2>2, <2>3, CalmSteps
<1>2. ASSUME NEW q \in Pid
      PROVE  /\ pc'[q] \notin Ended => status'[q] = 0
             /\ pc'[q] \in {"program", "stopped"} => q \in ran'
  <2>1. ran \subseteq ran' /\ (ExecProgram(p) => p \in ran')
    BY <1>0, HistorySteps DEF ExecProgram
  <2>2. CASE q = p
    BY <1>0, <2>1, <2>2, OwnSteps DEF ForkedInv, Ended
  <2>3. CASE q # p
    BY <1>0, <2>1, <2>3, OtherSteps DEF ForkedInv, Ended
  <2> QED
    BY <2>2, <2>3
<1>3. ASSUME NEW q \in Forked', pc'[q] \in Ended
      PROVE  q \in ran' \/ status'[q] # 0
  <2>1. ran \subseteq ran' /\ q \in Pid \ {Root}
    BY <1>0, HistorySteps DEF Forked, ExecProgram
  <2>2. CASE q = p
    <3>1. pc[p] \in Executing
      BY <1>0, <2>1, <2>2, ChildSteps DEF ChildFrame
    <3>2. Ends(p)
      BY <1>0, <1>3, <2>2, OwnSteps
    <3> QED
      BY <2>1, <2>2, <3>1, <3>2 DEF Ends, ForkedInv, Executing
  <2>3. CASE q # p
    <3>1. pc[q] \in Ended /\ status'[q] = status[q] /\ q \in Forked
      BY <1>0, <1>3, <2>1, <2>3, OtherSteps DEF Ended, Forked
    <3> QED
      BY <2>1, <3>1 DEF ForkedInv
  <2> QED
    BY <2>2, <2>3
<1> QED
  BY <1>1, <1>2, <1>3 DEF ForkedInv

----------------------------------------------------------------------------
(***************************************************************************)
(* Behind the loop xvp stays there, unless it gives up.                    *)
(***************************************************************************)
LEMMA CalmBehind ==
  ASSUME PlaceInv, Calm, Behind
  PROVE  Behind' /\ mem'[Root] = mem[Root] /\ rest' = rest
BY DEF PlaceInv, RootPlaces, PC, Behind, Calm, Loop, Gathering, Awaiting, Leaving,
   Executing, Ended

LEMMA CalmClosed ==
  ASSUME TypeOK, PlaceInv, CodeInv, Calm, NEW p \in Pid, XvpStep(p) \/ Outside(p),
         Closed'
  PROVE  Closed /\ Behind /\ mem'[Root] = mem[Root] /\ rest' = rest
<1>1. pc[Root] \in Ended => status[Root] = 0 /\ pc'[Root] \in Ended
  <2>1. CASE p = Root
    BY <2>1, OwnSteps
  <2>2. CASE p # Root /\ pc[Root] \in Ended
    <3>1. status'[Root] = status[Root] /\ pc'[Root] \in Ended
      BY <2>2, OtherSteps, RootIsPid DEF Ended
    <3> QED
      BY <3>1 DEF Closed, Executing, Ended
  <2> QED
    BY <2>1, <2>2
<1>2. pc[Root] # "fail"
  <2> SUFFICES ASSUME pc[Root] = "fail" PROVE FALSE
    OBVIOUS
  <2>1. pc'[Root] # "fail"
    BY DEF Closed, Executing, Ended
  <2>2. Fail(Root)
    BY <2>1, FailOnly
  <2>3. pc'[Root] = "zombie" /\ status'[Root] = mem[Root].err
    BY <2>2, RootIsPid DEF Fail, Exit, TypeOK
  <2> QED
    BY <2>3 DEF Closed, CodeInv, Executing, Ended
<1>3. pc[Root] \notin Loop
  <2>1. ~(pc[Root] = "setup" /\ pc'[Root] = "zombie")
    <3> SUFFICES ASSUME pc[Root] = "setup", pc'[Root] = "zombie" PROVE FALSE
      OBVIOUS
    <3>1. p = Root
      BY OtherSteps, RootIsPid
    <3>2. status'[Root] # 0
      BY <3>1, OwnSteps, SetupEnds DEF Ended
    <3> QED
      BY <3>2 DEF Closed, Executing
  <2> QED
    BY <2>1 DEF Calm, Closed, Loop, Gathering, Awaiting, Executing, Ended
<1>4. Closed /\ Behind
  BY <1>1, <1>2, <1>3
     DEF PlaceInv, RootPlaces, PC, Closed, Behind, Leaving
<1> QED
  BY <1>3, <1>4 DEF Calm

LEMMA ClosesAtEnd ==
  ASSUME TypeOK, PlaceInv, HandedInv, NEW p \in Pid, XvpStep(p) \/ Outside(p),
         pc'[Root] = "close", "read" \notin Faults
  PROVE  rest' = <<>>
<1>0. pc \in [Pid -> PC] /\ Root \in Pid
  BY RootIsPid DEF TypeOK
<1>1. CASE p # Root
  <2>1. ChildFrame(p)
    BY <1>1, ChildSteps
  <2>2. pc[Root] = "close" /\ rest' = rest
    BY <1>0, <1>1, <2>1 DEF ChildFrame
  <2> QED
    BY <2>2 DEF HandedInv
<1>2. CASE p = Root /\ Gather(Root)
  BY <1>0, <1>2 DEF Gather, Begin, AppendPending, AppendPendingFails, SkipRead, ReadBlock,
       EndOfFile, TakeArg, TakeArgFails, SetAside, BufferDone, FailWith, Goto, file
<1>3. CASE p = Root /\ Batch(Root)
  <2>1. pc'[Root] # "close"
    BY <1>0, <1>3 DEF Batch, ForceOnce, Fork, ForkFails, ReapAny, ReapNone, WaitGone,
         WaitExited, WaitEvent, Refine, FailWith, Goto, Zombies, Children, AfterReap
  <2> QED
    BY <2>1
<1>4. CASE p = Root /\ (Leave(Root) \/ Outside(Root))
  BY <1>4, LeaveSteps DEF LeaveFrame, Loop
<1> QED
  BY <1>1, <1>2, <1>3, <1>4 DEF XvpStep

(***************************************************************************)
(* What is handed over next is in the list, and not handed over already.   *)
(***************************************************************************)
LEMMA Regroup ==
  ASSUME NEW s \in Seq(Arg), NEW t \in Seq(Arg), NEW u \in Seq(Arg)
  PROVE  s \o t \in Seq(Arg) /\ s \o (t \o u) = (s \o t) \o u
BY ConcatProperties, ConcatAssociative

LEMMA HandsOn ==
  ASSUME Inv, BatchesInv, pc[Root] \in {"ready", "close"}
  PROVE  /\ Items(handed \o mem[Root].argv)
              = Items(handed) \cup Items(mem[Root].argv)
         /\ Items(handed \o mem[Root].argv) \subseteq Items(list)
<1> DEFINE h == handed \o mem[Root].argv
           left == mem[Root].pend \o (mem[Root].buf \o rest)
<1>1. /\ handed \in Seq(Arg) /\ mem[Root].argv \in Seq(Arg) /\ left \in Seq(Arg)
      /\ list = handed \o (mem[Root].argv \o left)
  BY RootHas DEF Current, Loop, Gathering
<1>2. h \in Seq(Arg) /\ list = h \o left
  BY <1>1, Regroup
<1>3. <<>> \in Seq(Arg) /\ left \o <<>> = left
  BY <1>1, EmptySeq, ConcatEmptySeq
<1>4. Distinct(list)
  BY DEF BatchesInv
<1> HIDE DEF h, left
<1>5. Distinct(h \o (left \o <<>>))
  BY <1>2, <1>3, <1>4
<1>6. Items(h \o left) = Items(h) \cup Items(left)
  BY <1>1, <1>2, <1>3, <1>5, Pieces
<1>7. Items(h) \subseteq Items(list)
  BY <1>2, <1>6
<1> QED
  BY <1>7, BatchIsNew DEF h

LEMMA StepKeepsHanded ==
  ASSUME Inv, BatchesInv, ForceInv, HandedInv, CodeInv,
         NEW p \in Pid, XvpStep(p) \/ Outside(p)
  PROVE  HandedInv'
<1>0. TypeOK /\ PlaceInv
  BY DEF Inv
<1>1. pc'[Root] = "close" /\ "read" \notin Faults => rest' = <<>>
  BY <1>0, ClosesAtEnd
<1>2. CASE Calm
  <2>1. /\ Forked' = Forked /\ UNCHANGED <<list, handed>>
        /\ \A q \in Forked : mem'[q] = mem[q]
    BY <1>2, CalmForked DEF Calm, Forked
  <2>2. Closed' => Closed /\ mem'[Root] = mem[Root] /\ rest' = rest
    BY <1>0, <1>2, CalmClosed
  <2>3. ASSUME NEW a \in Items(handed)
        PROVE  \/ \E q \in Forked' : a \in Items(mem'[q].argv)
               \/ Behind' /\ a \in Items(mem'[Root].argv)
    <3>1. CASE \E q \in Forked : a \in Items(mem[q].argv)
      BY <2>1, <3>1
    <3>2. CASE Behind /\ a \in Items(mem[Root].argv)
      BY <1>0, <1>2, <3>2, CalmBehind
    <3> QED
      BY <3>1, <3>2 DEF HandedInv, Behind
  <2>4. (\A a \in Items(handed) : \/ \E q \in Forked : a \in Items(mem[q].argv)
                                  \/ Behind /\ a \in Items(mem[Root].argv))'
    BY <2>1, <2>3 DEF Items
  <2>5. (Items(handed) \subseteq Items(list))'
    BY <2>1 DEF HandedInv, Items
  <2>6. (Closed => /\ handed \o rest = list
                   /\ Items(mem[Root].argv) \subseteq Items(handed))'
    BY <2>1, <2>2, ZenonT(60) DEF HandedInv, Items
  <2> QED
    BY <1>1, <2>2, <2>4, <2>5, <2>6 DEF HandedInv
<1>3. CASE Fork(Root)
  <2> PICK c : c = mem'[Root].child
    OBVIOUS
  <2>1. /\ UNCHANGED list /\ pc[Root] = "ready" /\ pc'[Root] = "reap"
        /\ handed' = handed \o mem[Root].argv
        /\ Forked' = Forked \cup {c} /\ mem'[c].argv = mem[Root].argv
        /\ \A q \in Forked : mem'[q] = mem[q]
    BY <1>0, <1>3, ForkFrame
  <2>2. /\ Items(handed') = Items(handed) \cup Items(mem'[c].argv)
        /\ Items(handed') \subseteq Items(list)
    BY <2>1, HandsOn
  <2>3. ~Closed'
    BY <2>1 DEF Closed, Executing, Ended
  <2>4. ~Behind
    BY <2>1 DEF Behind, Loop, Gathering
  <2>5. ASSUME NEW a \in Items(handed')
        PROVE  \E q \in Forked' : a \in Items(mem'[q].argv)
    BY <2>1, <2>2, <2>4 DEF HandedInv, Behind
  <2>6. (\A a \in Items(handed) : \E q \in Forked : a \in Items(mem[q].argv))'
    BY <2>5 DEF Items
  <2>7. (Items(handed) \subseteq Items(list))'
    BY <2>1, <2>2 DEF Items
  <2> QED
    BY <2>1, <2>3, <2>6, <2>7 DEF HandedInv
<1>4. CASE Close(Root)
  <2>1. /\ UNCHANGED <<list, rest, mem>> /\ pc[Root] = "close" /\ pc'[Root] = "waitany"
        /\ handed' = handed \o mem[Root].argv /\ Forked' = Forked
    BY <1>0, <1>4, CloseFrame
  <2>2. /\ Items(handed') = Items(handed) \cup Items(mem[Root].argv)
        /\ Items(handed') \subseteq Items(list)
    BY <2>1, HandsOn
  <2>3. handed' \o rest = list
    <3>1. /\ mem[Root].argv \in Seq(Arg) /\ handed \in Seq(Arg) /\ rest \in Seq(Arg)
          /\ mem[Root].pend = <<>> /\ mem[Root].buf = <<>>
          /\ list = handed \o (mem[Root].argv
                               \o (mem[Root].pend \o (mem[Root].buf \o rest)))
      BY <1>0, <2>1, RootHas, RootSequences, RootBatch
         DEF Current, Loop, Inv, ForceInv
    <3>2. <<>> \o rest = rest
      BY <3>1, ConcatEmptySeq
    <3>3. list = handed \o (mem[Root].argv \o rest)
      BY <3>1, <3>2
    <3>4. list = (handed \o mem[Root].argv) \o rest
      BY <3>1, <3>3, Regroup
    <3> QED
      BY <2>1, <3>4
  <2>4. Behind' /\ ~Behind
    BY <2>1 DEF Behind, Loop, Gathering, Awaiting
  <2>5. "read" \notin Faults => rest' = <<>>
    BY <2>1 DEF HandedInv
  <2>6. ASSUME NEW a \in Items(handed')
        PROVE  \/ \E q \in Forked' : a \in Items(mem'[q].argv)
               \/ Behind' /\ a \in Items(mem'[Root].argv)
    BY <2>1, <2>2, <2>4 DEF HandedInv, Behind
  <2>7. (\A a \in Items(handed) : \/ \E q \in Forked : a \in Items(mem[q].argv)
                                  \/ Behind /\ a \in Items(mem[Root].argv))'
    BY <2>6 DEF Items
  <2>8. (Items(handed) \subseteq Items(list))'
    BY <2>1, <2>2 DEF Items
  <2>9. (handed \o rest = list /\ Items(mem[Root].argv) \subseteq Items(handed))'
    BY <2>1, <2>2, <2>3 DEF Items
  <2> QED
    BY <2>5, <2>7, <2>8, <2>9 DEF HandedInv
<1> QED
  BY <1>0, <1>2, <1>3, <1>4, CalmSteps

----------------------------------------------------------------------------
(***************************************************************************)
(* What decides the exit code lasts until xvp forks again.                 *)
(***************************************************************************)
LEMMA CodeLasts ==
  ASSUME Forked' = Forked, list' = list,
         \A q \in Forked : mem'[q] = mem[q] /\ status'[q] = status[q]
  PROVE  /\ \A q : Latest(q)' <=> Latest(q)
         /\ \A e : IsLatestCode(e)' <=> IsLatestCode(e)
         /\ Undelivered' <=> Undelivered
<1>1. \A q : Latest(q)' <=> Latest(q)
  BY DEF Latest
<1>2. \A q : Latest(q) => CodeOf(q)' = CodeOf(q)
  BY DEF Latest, CodeOf
<1>3. \A e : IsLatestCode(e)' <=> IsLatestCode(e)
  BY <1>1, <1>2 DEF IsLatestCode
<1>4. Undelivered' <=> Undelivered
  BY DEF Undelivered, Items
<1> QED
  BY <1>1, <1>3, <1>4

(***************************************************************************)
(* An argument that xvp still has is in no batch of a child.               *)
(***************************************************************************)
LEMMA StillHas ==
  ASSUME Inv, BatchesInv, pc[Root] \in Gathering,
         mem[Root].argv # <<>> \/ mem[Root].pend # <<>> \/ mem[Root].buf # <<>>
  PROVE  Undelivered
<1> DEFINE left == mem[Root].argv \o (mem[Root].pend \o (mem[Root].buf \o rest))
<1>1. /\ handed \in Seq(Arg) /\ mem[Root].argv \in Seq(Arg)
      /\ mem[Root].pend \in Seq(Arg) /\ mem[Root].buf \in Seq(Arg)
      /\ rest \in Seq(Arg)
  BY RootSequences DEF Inv
<1>2. left \in Seq(Arg) /\ list = handed \o left
  BY RootHas DEF Current, Loop
<1>3. left # <<>>
  <2>1. \A s, t \in Seq(Arg) : s # <<>> \/ t # <<>> => s \o t # <<>> /\ s \o t \in Seq(Arg)
    <3> SUFFICES ASSUME NEW s \in Seq(Arg), NEW t \in Seq(Arg), s # <<>> \/ t # <<>>
                 PROVE  s \o t # <<>> /\ s \o t \in Seq(Arg)
      OBVIOUS
    <3>1. /\ s \o t \in Seq(Arg) /\ Len(s \o t) = Len(s) + Len(t)
          /\ Len(s) \in Nat /\ Len(t) \in Nat
      BY ConcatProperties, LenProperties
    <3>2. Len(s) > 0 \/ Len(t) > 0
      BY <3>1, EmptySeq
    <3> QED
      BY <3>1, <3>2, EmptySeq
  <2>2. \A s, t \in Seq(Arg) : s \o t \in Seq(Arg)
    BY ConcatProperties
  <2>3. mem[Root].buf \o rest \in Seq(Arg)
        /\ mem[Root].pend \o (mem[Root].buf \o rest) \in Seq(Arg)
    BY <1>1, <2>2
  <2>4. mem[Root].buf # <<>> => mem[Root].buf \o rest # <<>>
    BY <1>1, <2>1
  <2>5. mem[Root].pend # <<>> \/ mem[Root].buf # <<>>
          => mem[Root].pend \o (mem[Root].buf \o rest) # <<>>
    BY <1>1, <2>1, <2>3, <2>4
  <2> QED
    BY <1>1, <2>1, <2>3, <2>5
<1>4. <<>> \in Seq(Arg) /\ left \o <<>> = left
  BY <1>2, EmptySeq, ConcatEmptySeq
<1>5. Distinct(list)
  BY DEF BatchesInv
<1> HIDE DEF left
<1>6. /\ Items(handed) \cap Items(left) = {}
      /\ Items(list) = Items(handed) \cup Items(left)
  BY <1>1, <1>2, <1>4, <1>5, Pieces
<1>7. left[1] \in Items(left)
  <2>1. Len(left) \in Nat /\ Len(left) # 0 /\ DOMAIN left = 1 .. Len(left)
    BY <1>2, <1>3, EmptySeq, LenProperties
  <2> QED
    BY <2>1 DEF Items
<1>8. /\ left[1] \in Items(list)
      /\ \A q \in Forked : left[1] \notin Items(mem[q].argv)
  BY <1>6, <1>7 DEF BatchesInv
<1> QED
  BY <1>8 DEF Undelivered

(***************************************************************************)
(* So is the last batch of xvp itself.                                     *)
(***************************************************************************)
LEMMA LastIsUndelivered ==
  ASSUME TypeOK, BatchesInv, HandedInv, pc[Root] \in {"last", "again"},
         mem[Root].argv # <<>>
  PROVE  Undelivered
<1>1. Closed /\ HasLast
  BY DEF Closed, HasLast, Executing
<1>2. mem[Root].argv \in Seq(Arg)
  BY RootSequences
<1>3. mem[Root].argv[1] \in Items(mem[Root].argv)
  <2>1. Len(mem[Root].argv) \in Nat \ {0}
        /\ DOMAIN mem[Root].argv = 1 .. Len(mem[Root].argv)
    BY <1>2, EmptySeq, LenProperties
  <2> QED
    BY <2>1 DEF Items
<1>4. /\ mem[Root].argv[1] \in Items(list)
      /\ \A q \in Forked : mem[Root].argv[1] \notin Items(mem[q].argv)
  BY <1>1, <1>3 DEF BatchesInv, HandedInv
<1> QED
  BY <1>4 DEF Undelivered

----------------------------------------------------------------------------
(***************************************************************************)
(* A forked process leaves the exit code alone: without -n xvp waits for   *)
(* it.                                                                     *)
(***************************************************************************)
LEMMA ChildKeepsCode ==
  ASSUME Inv, BatchesInv, StrictInv, CodeInv,
         NEW p \in Pid \ {Root}, XvpStep(p) \/ Outside(p)
  PROVE  CodeInv'
<1>0. TypeOK /\ PlaceInv /\ opt \in Options
  BY DEF Inv, StrictInv
<1>1. /\ ChildFrame(p) /\ Forked' = Forked /\ lost' = lost
      /\ status'[Root] = status[Root]
      /\ Root \notin ran' => Root \notin ran
      /\ pc'[p] # "gone"
  BY <1>0, ChildSteps, ChildIsCalm, CalmForked, HistorySteps, ChildReapsOwn,
     RootIsPid DEF ExecProgram
<1>2. /\ UNCHANGED <<opt, mem>> /\ pc[p] \in Executing
      /\ pc'[Root] = pc[Root] \/ (pc[Root] \in Ended /\ pc'[Root] \in Ended)
  BY <1>1, RootIsPid DEF ChildFrame, Ended
<1>3. ~opt.noWait => pc[Root] \in {"reap", "wait"} /\ p = mem[Root].child
  BY <1>1 DEF Inv, SerialInv, ChildFrame, Executing, Ended
<1>4. CASE opt.noWait
  <2>1. ~opt.strict
    BY <1>0, <1>4, StrictWaits
  <2> QED
    BY <1>1, <1>2, <1>4, <2>1 DEF CodeInv, Observed, Ended
<1>5. CASE ~opt.noWait
  <2>1. pc'[Root] = pc[Root] /\ pc[Root] \in {"reap", "wait"} /\ p = mem[Root].child
    BY <1>2, <1>3, <1>5 DEF Ended
  <2>2. Observed => Latest(mem[Root].child)'
    BY <1>1, <1>2, <2>1 DEF CodeInv, Latest
  <2>3. ~Closed'
    BY <2>1 DEF Closed, Executing, Ended
  <2> QED
    BY <1>1, <1>2, <2>1, <2>2, <2>3
       DEF CodeInv, Observed, Gathering, Ended
<1> QED
  BY <1>4, <1>5

(***************************************************************************)
(* xvp itself, while it gathers a batch.                                   *)
(***************************************************************************)
LEMMA GatherErr ==
  ASSUME TypeOK, Gather(Root)
  PROVE  /\ UNCHANGED <<ran, lost, status>>
         /\ \/ pc'[Root] # "fail" /\ mem'[Root].err = mem[Root].err
            \/ /\ pc'[Root] = "fail" /\ mem'[Root].err # 0
               /\ mem[Root].pend # <<>> \/ mem[Root].buf # <<>>
<1>0. /\ pc \in [Pid -> PC] /\ mem \in [Pid -> Memory] /\ Root \in Pid
      /\ mem[Root] \in Memory
  BY RootIsPid DEF TypeOK
<1> USE <1>0 DEF Goto, FailWith, Memory, kernel, history, Appended, ENOMEM
<1>1. CASE Begin(Root) \/ AppendPending(Root)
  BY <1>1 DEF Begin, AppendPending
<1>2. CASE AppendPendingFails(Root) \/ TakeArgFails(Root)
  BY <1>2 DEF AppendPendingFails, TakeArgFails
<1>3. CASE SkipRead(Root) \/ ReadBlock(Root) \/ EndOfFile(Root) \/ BufferDone(Root)
  BY <1>3 DEF SkipRead, ReadBlock, EndOfFile, BufferDone
<1>4. CASE TakeArg(Root)
  <2>1. PICK a : mem'[Root] = [Appended(mem[Root], a) EXCEPT !.buf = Tail(@)]
    BY <1>4 DEF TakeArg
  <2>2. Appended(mem[Root], a).err = mem[Root].err
    OBVIOUS
  <2>3. mem'[Root].err = mem[Root].err
    BY <2>1, <2>2
  <2>4. pc'[Root] # "fail"
    BY <1>4 DEF TakeArg
  <2> QED
    BY <1>4, <2>3, <2>4 DEF TakeArg
<1>5. CASE SetAside(Root)
  BY <1>5 DEF SetAside
<1> QED
  BY <1>1, <1>2, <1>3, <1>4, <1>5 DEF Gather

LEMMA GatherKeepsCode ==
  ASSUME Inv, BatchesInv, CodeInv, Gather(Root)
  PROVE  CodeInv'
<1>1. /\ GatherFrame /\ Forked' = Forked /\ list' = list
      /\ UNCHANGED <<opt, lost, ran, status>>
      /\ \A q \in Forked : mem'[q] = mem[q]
  BY GatherSteps, GatherIsCalm, GatherErr, CalmForked DEF Inv, GatherFrame, Forked
<1>2. /\ \A e : IsLatestCode(e)' <=> IsLatestCode(e)
      /\ Undelivered' <=> Undelivered
  BY <1>1, CodeLasts
<1>3. ~Closed' /\ pc'[Root] \notin {"reap", "wait"} \cup Ended
  BY <1>1 DEF GatherFrame, Closed, Gathering, Executing, Ended
<1>4. CASE pc'[Root] # "fail"
  <2>1. mem'[Root].err = mem[Root].err
    BY <1>4, GatherErr DEF Inv
  <2>2. Observed => IsLatestCode(mem[Root].err)'
    BY <1>1, <1>2, <2>1 DEF CodeInv, GatherFrame, IsLatestCode, CodeOf, Latest
  <2> QED
    BY <1>1, <1>3, <1>4, <2>2 DEF CodeInv, Observed
<1>5. CASE pc'[Root] = "fail"
  <2>1. /\ mem'[Root].err # 0
        /\ mem[Root].pend # <<>> \/ mem[Root].buf # <<>>
    BY <1>5, GatherErr DEF Inv
  <2>2. Undelivered'
    BY <1>1, <1>2, <2>1, StillHas DEF GatherFrame
  <2> QED
    BY <1>3, <1>5, <2>1, <2>2 DEF CodeInv, Gathering
<1> QED
  BY <1>4, <1>5

(***************************************************************************)
(* xvp itself forks: the new process is the latest.                        *)
(***************************************************************************)
LEMMA ForkKeepsCode ==
  ASSUME Inv, ForkedInv, Fork(Root)
  PROVE  CodeInv'
<1> PICK c : c = mem'[Root].child
  OBVIOUS
<1>1. /\ pc'[Root] = "reap" /\ Forked' = Forked \cup {c} /\ pc'[c] = "exec"
  BY ForkFrame DEF Inv
<1>2. c \in Nat /\ \A q \in Forked : q < c /\ q \in Nat
  BY <1>1, ForkFrame, ForkOrder, ProcessAssumption DEF Inv, Forked, Pid
<1>3. Latest(mem[Root].child)'
  BY <1>1, <1>2 DEF Latest
<1>4. ~Closed'
  BY <1>1 DEF Closed, Executing, Ended
<1> QED
  BY <1>1, <1>3, <1>4 DEF CodeInv, Gathering, Ended

(***************************************************************************)
(* Line 503: err is ECHILD until a status is known.                        *)
(***************************************************************************)
LEMMA ReapKeepsCode ==
  ASSUME Inv, StrictInv, CodeInv, ReapAny(Root) \/ ReapNone(Root)
  PROVE  CodeInv'
<1> PICK c : c = mem[Root].child
  OBVIOUS
<1>0. /\ pc \in [Pid -> PC] /\ mem \in [Pid -> Memory] /\ Root \in Pid
      /\ mem[Root] \in Memory
  BY RootIsPid DEF Inv, TypeOK
<1>1. /\ UNCHANGED <<opt, status>> /\ lost \subseteq lost'
      /\ pc[Root] = "reap" /\ pc'[Root] = AfterReap
      /\ mem' = [mem EXCEPT ![Root] = AfterReapErr(@)]
  BY <1>0 DEF ReapAny, ReapNone, Goto, Zombies, Children, start, kernel, history
<1>2. Forked' = Forked
  BY BatchIsCalm, CalmForked DEF Batch, Inv, ReapAny, ReapNone, Fork, Goto
<1>3. ~Closed'
  BY <1>1 DEF Closed, AfterReap, Executing, Ended
<1>4. CASE opt.noWait
  <2>1. pc'[Root] = "refine"
    BY <1>1, <1>4 DEF AfterReap
  <2> QED
    BY <1>1, <1>3, <1>4, <2>1 DEF CodeInv, Observed, Ended
<1>5. CASE ~opt.noWait
  <2>1. pc'[Root] = "wait" /\ mem'[Root].err = ECHILD /\ mem'[Root].child = c
    BY <1>0, <1>1, <1>5 DEF AfterReap, AfterReapErr, Memory
  <2>2. ASSUME Observed'
        PROVE  Latest(c)' /\ pc'[c] # "gone"
    <3>1. Observed
      BY <1>1, <2>2 DEF Observed
    <3>2. Latest(c) /\ pc[c] # "gone"
      BY <1>1, <3>1 DEF CodeInv
    <3>3. c \in Pid \ {Root}
      BY <3>2 DEF Latest, Forked
    <3>4. CASE ReapNone(Root)
      BY <1>0, <1>2, <3>2, <3>3, <3>4 DEF ReapNone, Goto, Latest
    <3>5. CASE ReapAny(Root)
      <4>1. PICK z \in Zombies(Root) :
              /\ pc' = [pc EXCEPT ![Root] = AfterReap, ![z] = "gone"]
              /\ lost' = IF ~opt.noWait /\ z = c THEN lost \cup {z} ELSE lost
        BY <3>5 DEF ReapAny
      <4>2. z # c
        BY <1>5, <2>2, <4>1 DEF Observed
      <4> QED
        BY <1>0, <1>2, <3>2, <3>3, <4>1, <4>2 DEF Latest
    <3> QED
      BY <3>4, <3>5
  <2> QED
    BY <1>3, <2>1, <2>2 DEF CodeInv, Gathering, Ended
<1> QED
  BY <1>4, <1>5

(***************************************************************************)
(* The wait: xvp learns the status of the latest child, unless that was    *)
(* lost.                                                                   *)
(***************************************************************************)
LEMMA WaitKeepsCode ==
  ASSUME Inv, StrictInv, CodeInv,
         WaitGone(Root) \/ WaitExited(Root) \/ WaitEvent(Root)
  PROVE  CodeInv'
<1> PICK c : c = mem[Root].child
  OBVIOUS
<1>0. /\ pc \in [Pid -> PC] /\ mem \in [Pid -> Memory] /\ Root \in Pid
      /\ mem[Root] \in Memory /\ pc[Root] = "wait" /\ opt \in Options
  BY RootIsPid DEF Inv, TypeOK, StrictInv, WaitGone, WaitExited, WaitEvent, Goto
<1>1. /\ UNCHANGED <<opt, list, status, lost, ran>>
  BY DEF WaitGone, WaitExited, WaitEvent, start, kernel, history
<1>2. Forked' = Forked /\ \A q \in Forked : mem'[q] = mem[q]
  BY <1>0, BatchIsCalm, CalmForked DEF Batch, Inv, Fork, Calm, Forked
<1>3. \A e : IsLatestCode(e)' <=> IsLatestCode(e)
  BY <1>1, <1>2, CodeLasts
<1>4. Observed => /\ Latest(c) /\ pc[c] # "gone"
                  /\ c \in Forked /\ c \in Children(Root)
  BY <1>0 DEF CodeInv, StrictInv, Latest, Forked, Children
<1>5. CASE WaitGone(Root)
  <2>1. ~Observed /\ pc'[Root] = "refine" /\ mem' = mem
    BY <1>0, <1>4, <1>5 DEF WaitGone, Goto
  <2>2. ~Closed'
    BY <2>1 DEF Closed, Executing, Ended
  <2> QED
    BY <1>1, <2>1, <2>2 DEF CodeInv, Observed, Ended
<1>6. CASE WaitExited(Root)
  <2>1. /\ pc[c] = "zombie" /\ c \in Pid
        /\ pc' = [pc EXCEPT ![Root] = IF opt.strict /\ status[c] # 0
                                      THEN "fail" ELSE "refine", ![c] = "gone"]
    BY <1>6 DEF WaitExited, Zombies, Children
  <2>2. pc'[Root] = IF opt.strict /\ status[c] # 0 THEN "fail" ELSE "refine"
    BY <1>0, <2>1
  <2>3. mem'[Root].err = IF status[c] = Killed THEN mem[Root].err ELSE status[c]
    BY <1>0, <1>6 DEF WaitExited, Memory
  <2>4. ~opt.noWait => mem[Root].err = ECHILD /\ mem'[Root].err = CodeOf(c)
    BY <1>0, <2>3 DEF CodeInv, CodeOf
  <2>5. Observed => IsLatestCode(mem'[Root].err)
    <3> SUFFICES ASSUME Observed, NEW q \in Pid, Latest(q)
                 PROVE  mem'[Root].err = CodeOf(q)
      BY DEF IsLatestCode
    <3> QED
      BY <1>4, <2>4, LatestIsOne DEF Observed
  <2>6. Observed' => IsLatestCode(mem[Root].err)'
    <3>1. \A e : e = mem'[Root].err => (IsLatestCode(e)' <=> IsLatestCode(e))
      BY <1>3
    <3> QED
      BY <1>1, <1>2, <2>5 DEF Observed, IsLatestCode, CodeOf, Latest
  <2>7. pc'[Root] = "fail" => mem'[Root].err # 0
    <3> SUFFICES ASSUME pc'[Root] = "fail" PROVE mem'[Root].err # 0
      OBVIOUS
    <3>1. opt.strict /\ status[c] # 0
      BY <2>2
    <3>2. mem'[Root].err = CodeOf(c)
      BY <1>0, <2>4, <3>1, StrictWaits
    <3> QED
      BY <3>1, <3>2 DEF CodeOf, ECHILD
  <2>8. ~Closed' /\ pc'[Root] \notin {"reap", "wait"} \cup Ended
    BY <2>2 DEF Closed, Executing, Ended
  <2> QED
    BY <2>6, <2>7, <2>8 DEF CodeInv
<1>7. CASE WaitEvent(Root)
  <2>1. UNCHANGED <<mem, pc>>
    BY <1>0, <1>7 DEF WaitEvent, Goto
  <2>2. ~Closed'
    BY <1>0, <2>1 DEF Closed, Executing, Ended
  <2>3. Observed => Latest(mem[Root].child)'
    BY <1>2, <1>4, <2>1 DEF Latest
  <2> QED
    BY <1>0, <1>1, <1>4, <2>1, <2>2, <2>3 DEF CodeInv, Observed, Gathering, Ended
<1> QED
  BY <1>5, <1>6, <1>7

LEMMA BatchKeepsCode ==
  ASSUME Inv, BatchesInv, StrictInv, ForkedInv, CodeInv, Batch(Root)
  PROVE  CodeInv'
<1>0. /\ pc \in [Pid -> PC] /\ mem \in [Pid -> Memory] /\ Root \in Pid
      /\ mem[Root] \in Memory
  BY RootIsPid DEF Inv, TypeOK
<1>1. CASE ForceOnce(Root) \/ ForkFails(Root)
  <2>1. /\ pc[Root] = "ready" /\ pc'[Root] = "fail" /\ mem'[Root].err # 0
        /\ UNCHANGED <<list, status>>
    BY <1>0, <1>1 DEF ForceOnce, ForkFails, FailWith, Goto, Memory, E2BIG, EAGAIN,
         start, kernel
  <2>2. Forked' = Forked /\ \A q \in Forked : mem'[q] = mem[q]
    <3>1. \A q \in Pid \ {Root} : pc'[q] = pc[q] /\ mem'[q] = mem[q]
      BY <1>0, <1>1 DEF ForceOnce, ForkFails, FailWith, Goto
    <3> QED
      BY <3>1 DEF Forked
  <2>3. Undelivered
    BY <2>1, StillHas DEF Inv, PlaceInv, Gathering
  <2>4. Undelivered'
    BY <2>1, <2>2, <2>3, CodeLasts
  <2>5. ~Closed'
    BY <2>1 DEF Closed, Executing, Ended
  <2> QED
    BY <2>1, <2>4, <2>5 DEF CodeInv, Gathering, Ended
<1>2. CASE Fork(Root)
  BY <1>2, ForkKeepsCode
<1>3. CASE ReapAny(Root) \/ ReapNone(Root)
  BY <1>3, ReapKeepsCode
<1>4. CASE WaitGone(Root) \/ WaitExited(Root) \/ WaitEvent(Root)
  BY <1>4, WaitKeepsCode
<1>5. CASE Refine(Root)
  <2>1. /\ pc[Root] = "refine" /\ pc'[Root] = "top" /\ mem'[Root].err = mem[Root].err
        /\ UNCHANGED <<opt, list, lost, status, ran>>
        /\ \A q \in Pid \ {Root} : mem'[q] = mem[q]
    BY <1>0, <1>5 DEF Refine, Goto, Memory, start, kernel, history
  <2>2. Forked' = Forked
    BY <1>5, <2>1, BatchIsCalm, CalmForked DEF Batch, Inv, Fork
  <2>3. Observed => IsLatestCode(mem[Root].err)'
    BY <2>1, <2>2 DEF CodeInv, IsLatestCode, CodeOf, Latest
  <2>4. ~Closed'
    BY <2>1 DEF Closed, Executing, Ended
  <2> QED
    BY <2>1, <2>3, <2>4 DEF CodeInv, Observed, Gathering, Ended
<1> QED
  BY <1>1, <1>2, <1>3, <1>4, <1>5 DEF Batch

(***************************************************************************)
(* Behind the loop: the last steps of xvp itself.                          *)
(***************************************************************************)
LEMMA LeavesTo ==
  ASSUME TypeOK, PlaceInv, Leave(Root) \/ Outside(Root)
  PROVE  /\ pc'[Root] # "fail"
         /\ pc'[Root] \in {"waitany", "last"} => pc[Root] \in {"close", "waitany"}
<1>0. /\ pc \in [Pid -> PC] /\ Root \in Pid
      /\ pc[Root] \notin {"free", "exec"}
  BY RootIsPid DEF TypeOK, PlaceInv, RootPlaces
<1> USE <1>0 DEF Goto, Exit
<1>1. CASE AwaitAny(Root)
  BY <1>1 DEF AwaitAny, Zombies, Children
<1>2. CASE RunErr(Root) \/ Close(Root) \/ Fail(Root) \/ ExecNothing(Root)
  BY <1>2 DEF RunErr, Close, Fail, ExecNothing
<1>3. CASE ExecProgram(Root) \/ ExecRetry(Root) \/ ExecFails(Root)
  BY <1>3 DEF ExecProgram, ExecRetry, ExecFails
<1>4. CASE Outside(Root)
  BY <1>4 DEF Outside, ProgramExit, Kill, Stop, Continue
<1> QED
  BY <1>1, <1>2, <1>3, <1>4 DEF Leave

LEMMA LeaveKeepsCode ==
  ASSUME PromiseInv, SetupInv, ForkedInv, HandedInv, CodeInv,
         Leave(Root) \/ Outside(Root)
  PROVE  CodeInv'
<1>0. /\ TypeOK /\ PlaceInv /\ BatchesInv /\ StrictInv
      /\ Root \in Pid /\ (XvpStep(Root) \/ Outside(Root))
  BY RootIsPid DEF PromiseInv, Inv, XvpStep
<1>1. /\ UNCHANGED <<opt, list, mem, lost>> /\ ran \subseteq ran'
      /\ pc'[Root] \in RootPlaces \ Loop /\ pc'[Root] # "fail"
      /\ pc'[Root] \in {"waitany", "last"} => pc[Root] \in {"close", "waitany"}
      /\ \A q \in Forked : status'[q] = status[q]
  BY <1>0, LeaveSteps, LeavesTo, HistorySteps
     DEF LeaveFrame, ReapAny, ExecProgram, Forked
<1>2. Forked' = Forked
  BY <1>0, LeaveIsCalm, CalmForked, CloseFrame
<1>3. /\ \A e : IsLatestCode(e)' <=> IsLatestCode(e)
      /\ Undelivered' <=> Undelivered
  BY <1>1, <1>2, CodeLasts
<1>4. ASSUME pc'[Root] \in Ended, Root \notin ran'
      PROVE  /\ status'[Root] = 0 => mem[Root].argv = <<>>
             /\ Observed =>
                  \/ status'[Root] # 0 /\ Undelivered
                  \/ IsLatestCode(status'[Root])
  <2>1. Ends(Root) /\ Root \notin ran
    BY <1>0, <1>1, <1>4, OwnSteps
  <2>2. CASE pc[Root] \in {"last", "again"} /\ mem[Root].argv # <<>> /\ status'[Root] # 0
    BY <1>0, <2>2, LastIsUndelivered
  <2>3. CASE pc[Root] = "fail" /\ status'[Root] = mem[Root].err
    BY <2>3 DEF CodeInv
  <2>4. CASE pc[Root] = "last" /\ status'[Root] = mem[Root].err /\ mem[Root].argv = <<>>
    BY <2>4 DEF CodeInv
  <2>5. CASE pc[Root] = "setup" /\ status'[Root] # 0
    <3>1. \A q : ~Latest(q)
      BY <2>5 DEF SetupInv, Fresh, Latest
    <3> QED
      BY <2>5, <3>1 DEF IsLatestCode
  <2>6. pc[Root] # "program" /\ pc[Root] # "exec"
    BY <1>0, <2>1 DEF ForkedInv, PlaceInv, RootPlaces
  <2> QED
    BY <2>1, <2>2, <2>3, <2>4, <2>5, <2>6 DEF Ends
<1>5. Observed /\ pc'[Root] \in {"waitany", "last"} => IsLatestCode(mem[Root].err)
  BY <1>1 DEF CodeInv
<1>6. ASSUME opt.strict, lost = {}, Closed', NEW q \in Forked
      PROVE  status[q] = 0
  <2>1. CASE pc[Root] = "close"
    <3>1. pc[q] \notin Ended \/ status[q] = 0
      BY <1>0, <1>6, <2>1 DEF StrictInv, Ended
    <3> QED
      BY <3>1 DEF ForkedInv, Forked
  <2>2. CASE pc[Root] # "close"
    <3>1. Calm
      BY <1>0, <2>2, LeaveIsCalm DEF Close, Goto
    <3>2. Closed
      BY <1>0, <1>6, <3>1, CalmClosed
    <3> QED
      BY <1>6, <3>2 DEF CodeInv
  <2> QED
    BY <2>1, <2>2
<1>7. /\ pc'[Root] \notin {"wait", "reap", "refine", "close"} \cup Gathering
      /\ mem'[Root] = mem[Root]
  BY <1>1 DEF Loop, Awaiting
<1>8. /\ \A e : e = status'[Root] => (IsLatestCode(e)' <=> IsLatestCode(e))
      /\ \A e : e = mem[Root].err => (IsLatestCode(e)' <=> IsLatestCode(e))
  BY <1>3
<1>9. Observed' /\ pc'[Root] \in Gathering \cup {"refine", "close", "waitany", "last"}
        => IsLatestCode(mem[Root].err)'
  BY <1>1, <1>5, <1>7, <1>8 DEF Observed, IsLatestCode
<1>10. Observed' /\ pc'[Root] \in Ended /\ Root \notin ran'
         => (status'[Root] # 0 /\ Undelivered') \/ IsLatestCode(status[Root])'
  BY <1>1, <1>3, <1>4, <1>8 DEF Observed, IsLatestCode
<1>11. opt'.strict /\ lost' = {} /\ Closed' => \A q \in Forked' : status'[q] = 0
  BY <1>1, <1>2, <1>6
<1> QED
  BY <1>1, <1>4, <1>7, <1>9, <1>10, <1>11 DEF CodeInv

----------------------------------------------------------------------------
LEMMA InitWhole == OneReader /\ Init => WholeInv
<1> SUFFICES ASSUME OneReader, Init PROVE WholeInv
  OBVIOUS
<1>1. PromiseInv
  BY InitPromises
<1>2. /\ Forked = {} /\ pc[Root] = "setup" /\ handed = <<>> /\ linked = TRUE
      /\ \A p \in Pid : pc[p] \in {"setup", "free"} /\ status[p] = 0
  BY RootIsPid DEF Init, Forked
<1>3. ForkedInv
  BY <1>2 DEF ForkedInv, Ended
<1>4. ~Closed /\ Items(handed) = {} /\ \A p : ~Latest(p)
  BY <1>2 DEF Closed, Executing, Ended, Items, Latest
<1>5. HandedInv
  BY <1>2, <1>4 DEF HandedInv
<1>6. CodeInv
  BY <1>2, <1>4 DEF CodeInv, IsLatestCode, Ended
<1>7. SetupInv /\ DeletedInv
  BY <1>2, InitSetup DEF DeletedInv, Loop, Gathering
<1> QED
  BY <1>1, <1>3, <1>5, <1>6, <1>7 DEF WholeInv

LEMMA RestsWhole ==
  ASSUME WholeInv, UNCHANGED vars
  PROVE  WholeInv'
<1>1. PromiseInv'
  BY RestsPromises DEF WholeInv
<1>2. /\ Forked' = Forked /\ (Closed' <=> Closed) /\ (Behind' <=> Behind)
      /\ (Observed' <=> Observed)
  BY DEF vars, Forked, Closed, Behind, Observed
<1>3. ForkedInv'
  BY <1>2 DEF vars, WholeInv, ForkedInv
<1>4. HandedInv'
  <2>1. UNCHANGED <<list, rest, pc, mem, handed>>
    BY DEF vars
  <2>2. /\ Items(handed)' = Items(handed) /\ Items(list)' = Items(list)
        /\ Items(mem[Root].argv)' = Items(mem[Root].argv)
        /\ \A q : Items(mem[q].argv)' = Items(mem[q].argv)
    BY <2>1 DEF Items
  <2> QED
    BY <1>2, <2>1, <2>2 DEF WholeInv, HandedInv
<1>5. CodeInv'
  <2>1. UNCHANGED <<opt, list, pc, mem, status, ran, lost>>
    BY DEF vars
  <2>2. /\ \A q : Latest(q)' <=> Latest(q)
        /\ Undelivered' <=> Undelivered
        /\ IsLatestCode(mem[Root].err)' <=> IsLatestCode(mem[Root].err)
        /\ IsLatestCode(status[Root])' <=> IsLatestCode(status[Root])
    BY <1>2, <2>1 DEF Latest, Undelivered, Items, IsLatestCode, CodeOf
  <2>3. Latest(mem[Root].child)' <=> Latest(mem[Root].child)
    BY <1>2, <2>1 DEF Latest
  <2> QED
    BY <1>2, <2>1, <2>2, <2>3 DEF WholeInv, CodeInv
<1>6. SetupInv' /\ DeletedInv'
  BY SetupStep, DeletedStep DEF WholeInv, PromiseInv, Inv
<1> QED
  BY <1>1, <1>3, <1>4, <1>5, <1>6 DEF WholeInv

LEMMA NextKeepsWhole == WholeInv /\ [Next]_vars => WholeInv'
<1> SUFFICES ASSUME WholeInv, [Next]_vars PROVE WholeInv'
  OBVIOUS
<1>1. PromiseInv' /\ PromiseInv /\ ForkedInv /\ HandedInv /\ CodeInv
  BY NextKeepsPromises DEF WholeInv
<1>2. Inv /\ BatchesInv /\ ForceInv /\ StrictInv
  BY <1>1 DEF PromiseInv
<1>3. CASE UNCHANGED vars
  BY <1>3, RestsWhole
<1>5. SetupInv /\ SetupInv' /\ DeletedInv'
  BY <1>2, SetupStep, DeletedStep DEF WholeInv, Inv
<1>4. ASSUME NEW p \in Pid, XvpStep(p) \/ Outside(p) PROVE WholeInv'
  <2>1. ForkedInv' /\ HandedInv'
    BY <1>1, <1>2, <1>4, StepKeepsForked, StepKeepsHanded
  <2>2. CodeInv'
    <3>1. CASE p # Root
      BY <1>1, <1>2, <1>4, <3>1, ChildKeepsCode
    <3>2. CASE p = Root
      BY <1>1, <1>2, <1>4, <1>5, <3>2, GatherKeepsCode, BatchKeepsCode, LeaveKeepsCode
         DEF XvpStep
    <3> QED
      BY <3>1, <3>2
  <2> QED
    BY <1>1, <1>5, <2>1, <2>2 DEF WholeInv
<1> QED
  BY <1>3, <1>4 DEF Next, Terminated

(***************************************************************************)
(* The whole inductive invariant: what was handed over is in the batches   *)
(* of the processes, and err is the status of the latest child (lines      *)
(* 495-583 and 585-604).                                                   *)
(***************************************************************************)
THEOREM WholeInvariant == Spec => [](OneReader => WholeInv)
<1> DEFINE J == OneReader => WholeInv
<1>1. Init => J
  BY InitWhole
<1>2. TypeOK /\ J /\ [Next]_vars => J'
  BY NextKeepsWhole, OneReaderKept
<1> HIDE DEF J
<1>3. Spec => []J
  BY <1>1, <1>2, TypeCorrect, PTL DEF Spec
<1> QED
  BY <1>3 DEF J

----------------------------------------------------------------------------
(***************************************************************************)
(* When xvp has ended without -n all that it has started has ended, too.   *)
(***************************************************************************)
LEMMA NobodyLeft ==
  ASSUME WholeInv, pc[Root] = "zombie", ~opt.noWait, NEW p \in Forked
  PROVE  /\ p \in Pid \ {Root} /\ pc[p] \in Ended
         /\ p \in ran \/ status[p] # 0
BY DEF WholeInv, PromiseInv, Inv, SerialInv, ForkedInv, Forked

LEMMA SuccessHasAll ==
  ASSUME WholeInv, Succeeded, rest = <<>>, NEW a \in Items(list)
  PROVE  \E p \in Forked \cup (ran \cap {Root}) : a \in Items(mem[p].argv)
<1>1. Closed
  BY DEF Succeeded, Closed, Ended
<1>2. handed = list
  <2>1. handed \in Seq(Arg) /\ handed \o rest = list
    BY <1>1 DEF WholeInv, PromiseInv, Inv, TypeOK, HandedInv
  <2> QED
    BY <2>1, ConcatEmptySeq
<1>3. CASE \E p \in Forked : a \in Items(mem[p].argv)
  BY <1>3
<1>4. CASE a \in Items(mem[Root].argv)
  <2>1. mem[Root].argv # <<>>
    BY <1>4 DEF Items
  <2>2. Root \in ran
    BY <2>1 DEF WholeInv, CodeInv, Succeeded, Ended
  <2> QED
    BY <1>4, <2>2
<1> QED
  BY <1>2, <1>3, <1>4 DEF WholeInv, HandedInv

(***************************************************************************)
(* A child that has executed and has no later one that has is the latest,  *)
(* if the latest has executed.                                             *)
(***************************************************************************)
LEMMA LastIsLatest ==
  ASSUME WholeInv, NEW p \in ran \ {Root}, Last(p), NEW l \in Forked, Latest(l), l \in ran
  PROVE  p = l
<1>1. p \in Forked /\ l # Root
  BY DEF WholeInv, PromiseInv, BatchesInv, Forked
<1>2. p <= l /\ l <= p /\ p \in Nat /\ l \in Nat
  BY <1>1 DEF Last, Latest, Forked, Pid
<1> QED
  BY <1>2

(***************************************************************************)
(* "EXACT return code" (line 14), a success: without -n and without a lost *)
(* status the last execution has succeeded, and with -s every one; then    *)
(* everything was executed, too, if the file could be read to its end.     *)
(***************************************************************************)
THEOREM SuccessIsExactHolds == Spec => [](OneReader => SuccessIsExact)
<1>1. ASSUME WholeInv, Succeeded, ~opt.noWait, lost = {}
      PROVE  /\ \A p \in ran \ {Root} :
                  opt.strict \/ (Root \notin ran /\ Last(p)) => status[p] = 0
             /\ opt.strict /\ rest = <<>> => Delivered
  <2>1. /\ Closed /\ Observed
        /\ pc[Root] = "zombie" /\ status[Root] = 0
        /\ \A p \in ran \ {Root} : p \in Forked
        /\ opt.strict => \A p \in Forked : status[p] = 0
    BY <1>1 DEF Succeeded, Closed, Observed, Ended, WholeInv, PromiseInv, BatchesInv,
         CodeInv
  <2>2. ASSUME NEW p \in ran \ {Root}, Root \notin ran, Last(p)
        PROVE  status[p] = 0
    <3>1. IsLatestCode(0)
      BY <1>1, <2>1, <2>2 DEF WholeInv, CodeInv, Ended
    <3>2. PICK l \in Forked : Latest(l)
      BY <2>1, <2>2, LatestExists
    <3>3. status[l] = 0
      BY <3>1, <3>2 DEF IsLatestCode, CodeOf, ECHILD, Forked
    <3>4. l \in ran
      BY <1>1, <2>1, <3>3, NobodyLeft
    <3> QED
      BY <1>1, <2>2, <3>2, <3>3, <3>4, LastIsLatest
  <2>3. opt.strict /\ rest = <<>> => Delivered
    <3>1. opt.strict => Forked \subseteq ran
      BY <1>1, <2>1, NobodyLeft
    <3> QED
      BY <1>1, <3>1, SuccessHasAll DEF Delivered
  <2> QED
    BY <2>1, <2>2, <2>3
<1>2. (OneReader => WholeInv) => (OneReader => SuccessIsExact)
  BY <1>1 DEF SuccessIsExact
<1> QED
  BY <1>2, WholeInvariant, PTL

(***************************************************************************)
(* "EXACT return code" (line 14), the other half: unless a status was lost *)
(* xvp exits with that of its last child if the children executed all.     *)
(***************************************************************************)
THEOREM ExactUnlessLostHolds == Spec => []ExactUnlessLost
<1>1. ASSUME WholeInv, lost = {}, NEW p \in ran \ {Root}, pc[Root] = "zombie",
             ~opt.noWait, Root \notin ran, Last(p), Delivered, status[p] # Killed
      PROVE  status[Root] = status[p]
  <2>1. /\ Observed /\ ran \subseteq Forked
        /\ Undelivered \/ IsLatestCode(status[Root])
    BY <1>1 DEF Observed, Ended, WholeInv, PromiseInv, BatchesInv, CodeInv
  <2>2. ~Undelivered
    BY <1>1, <2>1 DEF Delivered, Undelivered
  <2>3. PICK l \in Forked : Latest(l)
    BY <1>1, <2>1, LatestExists
  <2>4. mem[l].argv \in Seq(Arg) /\ mem[l].argv # <<>>
    <3>1. l \in Pid /\ TypeOK /\ mem[l].argv # <<>>
      BY <1>1, <2>3 DEF Forked, WholeInv, PromiseInv, Inv, ForkedInv
    <3>2. mem[l] \in Memory
      BY <3>1 DEF TypeOK
    <3> QED
      BY <3>1, <3>2, MemoryFields
  <2>5. mem[l].argv[1] \in Items(mem[l].argv)
    <3>1. Len(mem[l].argv) \in Nat \ {0} /\ DOMAIN mem[l].argv = 1 .. Len(mem[l].argv)
      BY <2>4, EmptySeq, LenProperties
    <3> QED
      BY <3>1 DEF Items
  <2>6. mem[l].argv[1] \in Items(list)
    BY <1>1, <2>5 DEF WholeInv, PromiseInv, BatchesInv, HandedInv
  <2>7. PICK q \in ran : mem[l].argv[1] \in Items(mem[q].argv)
    BY <1>1, <2>6 DEF Delivered
  <2>8. q = l
    BY <1>1, <2>1, <2>5, <2>7 DEF WholeInv, PromiseInv, BatchesInv
  <2>9. p = l
    BY <1>1, <2>3, <2>7, <2>8, LastIsLatest
  <2> QED
    BY <1>1, <2>1, <2>2, <2>3, <2>9 DEF IsLatestCode, CodeOf, Forked
<1>2. (OneReader => WholeInv) => ExactUnlessLost
  BY <1>1 DEF ExactUnlessLost, ExactCode
<1> QED
  BY <1>2, WholeInvariant, PTL

(***************************************************************************)
(* Where read() works a success of xvp without -n means that every         *)
(* argument was executed, but for those of a child that ended, with        *)
(* another status than 0, before it could (lines 416-483, 585-594).        *)
(***************************************************************************)
THEOREM SuccessDeliversHolds ==
  ASSUME "read" \notin Faults
  PROVE  Spec => []SuccessDelivers
<1>1. ASSUME WholeInv, Succeeded, ~opt.noWait, NEW a \in Items(list)
      PROVE  \E p \in Pid : /\ a \in Items(mem[p].argv)
                            /\ p \in ran \/ NotStarted(p)
  <2>1. Closed /\ pc[Root] = "zombie"
    BY <1>1 DEF Succeeded, Closed, Ended
  <2>2. rest = <<>>
    BY <1>1, <2>1 DEF WholeInv, HandedInv
  <2>3. PICK p \in Forked \cup (ran \cap {Root}) : a \in Items(mem[p].argv)
    BY <1>1, <2>2, SuccessHasAll
  <2>4. CASE p \in Forked
    <3>1. p \in Pid /\ pc[p] \in Ended /\ (p \in ran \/ status[p] # 0)
      BY <1>1, <2>1, <2>4, NobodyLeft
    <3> QED
      BY <2>3, <3>1 DEF NotStarted
  <2> QED
    BY <2>3, <2>4, RootIsPid
<1>2. (OneReader => WholeInv) => SuccessDelivers
  BY <1>1 DEF SuccessDelivers, Accounted
<1> QED
  BY <1>2, WholeInvariant, PTL
=============================================================================
