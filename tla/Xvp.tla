-------------------------------- MODULE Xvp --------------------------------
(***************************************************************************)
(* xvp: run() and do_exec() of src/xvp.cc, for xvp itself and for every    *)
(* process it forks.  fork() copies the memory of run(), shares the open   *)
(* <arg file>, and the copy that finds nothing to execute goes on in the   *)
(* same loop as its parent, so every process has the whole program.        *)
(*                                                                         *)
(* Data: an argument is a member of Arg with a length; read(2) may stop    *)
(* inside of one, and when two processes read, what a reader puts together *)
(* may be of two arguments (module ArgStream has the bytes); argv_init is  *)
(* its item count and its bytes.  Bounds: MaxPid processes, no pid is used *)
(* twice; a block ends between arguments or at one of Cuts.                *)
(* A definition marked "variant" is the one after it with a plausible bug: *)
(* it shows that a property can fail and is no part of the specification.  *)
(***************************************************************************)
EXTENDS Integers, Sequences, FiniteSets

CONSTANTS
  MaxPid,        \* processes are 1 .. MaxPid, the first one is xvp itself
  Arg,           \* arguments that <arg file> may have
  ArgLen,        \* their lengths, a function on Arg
  ArgFiles,      \* what <arg file> may hold: sequences of different arguments
  Cuts,          \* for each argument: after how many bytes a block may end
  Torn,          \* what parts of different arguments may give
  InitCount,     \* argv_init.count(): <program> and the common arguments
  InitUsed,      \* argv_init.used()
  ArgcMax,       \* argc_max
  SizeArgs,      \* size_args
  Options,       \* the option sets under which xvp may be started
  Codes,         \* what <program> may exit with
  ExecErrors,    \* what execvp may fail with
  Faults,        \* what may fail: "alloc", "open", "append", "read", "fork"
  Signals        \* what may happen to a child: "kill", "stop"

WORD == 8        \* sizeof(size_t), sizeof(char *)
argc_padding == 4

E2BIG == 7
ECHILD == 10
EAGAIN == 11
ENOMEM == 12
EINVAL == 22
Killed == -1     \* the status of a process that a signal has ended

Pid == 1 .. MaxPid
Root == 1

(***************************************************************************)
(* What the code keeps in memory, copied by fork(): argv_curr after its    *)
(* argv_init part, argv_curr.used(), the argument that arg_pend announces, *)
(* the arguments in buf_read, what follows them in buf_read or is in       *)
(* buf_arg already and has no NUL yet, err and child.                      *)
(***************************************************************************)
Memory == [argv : Seq(Arg), used : Nat, pend : Seq(Arg), buf : Seq(Arg),
           part : Nat \X Nat, err : Int, child : 0 .. MaxPid]

OptionSet == [noWait : BOOLEAN, strict : BOOLEAN, force : BOOLEAN,
              unlink : BOOLEAN]

(***************************************************************************)
(* get_argv_fullsize, is_argv_full with an extra argument, the size of one *)
(* item of uvector::str.                                                   *)
(***************************************************************************)
FullSize(count, used) == used + count * WORD

IsArgvFullWithoutExtra(count, used, extra) ==  \* variant: extra forgotten
  \/ count >= ArgcMax
  \/ FullSize(count, used) + 1 >= SizeArgs

IsArgvFull(count, used, extra) ==
  \/ count >= ArgcMax
  \/ FullSize(count, used) + extra + 1 >= SizeArgs

ItemSize(len) == ((len + 1 + WORD - 1) \div WORD) * WORD

(***************************************************************************)
(* prepare() refuses an argv_init that is over the limit; strict and no    *)
(* wait exclude each other in parse_opts().                                *)
(***************************************************************************)
ASSUME ProcessAssumption == MaxPid \in Nat \ {0}

ASSUME ArgAssumption ==
  /\ \A a \in Arg : ArgLen[a] \in Nat
  /\ ArgFiles \subseteq Seq(Arg)
  /\ \A s \in ArgFiles :
       \A i, j \in 1 .. Len(s) : s[i] = s[j] => i = j
  /\ \A a \in Arg : Cuts[a] \subseteq 1 .. ArgLen[a]
  /\ Torn \subseteq Arg

ASSUME LimitAssumption ==
  /\ InitCount \in Nat \ {0}
  /\ InitUsed \in Nat
  /\ ArgcMax \in Nat /\ InitCount <= ArgcMax
  /\ SizeArgs \in Nat /\ FullSize(InitCount, InitUsed) <= SizeArgs

ASSUME OptionAssumption ==
  Options \subseteq {o \in OptionSet : ~(o.noWait /\ o.strict)}

ASSUME OutcomeAssumption ==
  /\ Codes \subseteq Nat /\ ExecErrors \subseteq Nat \ {0}
  /\ Faults \subseteq {"alloc", "open", "append", "read", "fork"}
  /\ Signals \subseteq {"kill", "stop"}

VARIABLES
  opt,       \* opt: chosen at the start, read by every process
  list,      \* the arguments in <arg file>, which nobody changes
  rest,      \* the arguments of the open file that nobody has read yet
  cut,       \* how many bytes of the first of them were read all the same
  linked,    \* <arg file> still has its name
  pc,        \* where each process is
  mem,       \* the memory of each process
  parent,    \* who forked it
  status,    \* what it exited with
  note,      \* a stop or a continuation that no wait has reported yet
  handed,    \* history: the arguments xvp itself passed on, in order
  ran,       \* history: the processes that became <program>
  lost       \* history: the children whose status line 503 threw away

vars == <<opt, list, rest, cut, linked, pc, mem, parent, status, note, handed, ran,
          lost>>
start == <<opt, list>>
file == <<rest, cut, linked>>
kernel == <<parent, status, note>>
history == <<handed, ran, lost>>

(***************************************************************************)
(* run() up to the end of its loop, in the order of its lines; then what   *)
(* follows; then what has left run().                                      *)
(***************************************************************************)
Gathering == {"setup", "top", "read", "parse", "ready"}
Awaiting == {"reap", "wait", "refine"}
Loop == Gathering \cup Awaiting \cup {"close"}
Leaving == {"waitany", "last", "fail"}
Executing == {"exec", "backoff", "again", "program", "stopped"}
Ended == {"zombie", "gone"}
PC == {"free"} \cup Loop \cup Leaving \cup Executing \cup Ended

(***************************************************************************)
(* A part of an argument is known by where it ends: how many arguments     *)
(* were left, the one it is of included, and how many of its bytes have    *)
(* been read.  A part that was put together from different arguments ends  *)
(* nowhere in the file.                                                    *)
(***************************************************************************)
NoPart == <<0, 0>>
MixedPart == <<0, 1>>
PartOf(left, n) == IF n = 0 THEN NoPart ELSE <<left, n>>

NoMemory == [argv |-> <<>>, used |-> InitUsed, pend |-> <<>>, buf |-> <<>>,
             part |-> NoPart, err |-> 0, child |-> 0]

Init ==
  /\ opt \in Options
  /\ list \in ArgFiles
  /\ rest = list
  /\ cut = 0
  /\ linked = TRUE
  /\ pc = [p \in Pid |-> IF p = Root THEN "setup" ELSE "free"]
  /\ mem = [p \in Pid |-> NoMemory]
  /\ parent = [p \in Pid |-> 0]
  /\ status = [p \in Pid |-> 0]
  /\ note = [p \in Pid |-> "none"]
  /\ handed = <<>>
  /\ ran = {}
  /\ lost = {}

Count(m) == InitCount + Len(m.argv)

(***************************************************************************)
(* uvector::str::append to argv_curr.                                      *)
(***************************************************************************)
Appended(m, a) == [m EXCEPT !.argv = Append(@, a),
                            !.used = @ + ItemSize(ArgLen[a])]

Goto(p, from, to) == pc[p] = from /\ pc' = [pc EXCEPT ![p] = to]

(***************************************************************************)
(* _run_out: the error is in err, the file is deleted by `Fail'.           *)
(***************************************************************************)
FailWith(p, from, e) ==
  /\ Goto(p, from, "fail")
  /\ mem' = [mem EXCEPT ![p].err = e]
  /\ UNCHANGED <<start, file, kernel, history>>

Exit(p, code) ==
  /\ pc' = [pc EXCEPT ![p] = "zombie"]
  /\ status' = [status EXCEPT ![p] = code]
  /\ note' = [note EXCEPT ![p] = "none"]

----------------------------------------------------------------------------
(***************************************************************************)
(* Before the loop: the buffers, argv_curr and the open file are there, or *)
(* run() ends, for want of memory at _run_err, or because the file cannot  *)
(* be opened, looked at or read.  Either way the file keeps its name.      *)
(***************************************************************************)
Begin(p) == Goto(p, "setup", "top") /\ UNCHANGED <<start, file, mem, kernel, history>>

RunErr(p) ==
  /\ pc[p] = "setup"
  /\ \/ "alloc" \in Faults /\ Exit(p, ENOMEM)
     \/ "open" \in Faults /\ Exit(p, EINVAL)
  /\ UNCHANGED <<start, file, mem, parent, history>>

(***************************************************************************)
(* The head of the loop: append the argument that did not fit into the     *)
(* batch before, without a look at the limits.                             *)
(***************************************************************************)
AppendPendingDrops(p) ==  \* variant: arg_pend cleared, nothing appended
  /\ Goto(p, "top", "read")
  /\ mem' = [mem EXCEPT ![p].pend = <<>>]
  /\ UNCHANGED <<start, file, kernel, history>>

AppendPending(p) ==
  /\ Goto(p, "top", "read")
  /\ mem' = [mem EXCEPT ![p] =
               IF @.pend = <<>> THEN @
               ELSE [Appended(@, Head(@.pend)) EXCEPT !.pend = <<>>]]
  /\ UNCHANGED <<start, file, kernel, history>>

AppendPendingFails(p) ==
  /\ "append" \in Faults
  /\ mem[p].pend # <<>>
  /\ FailWith(p, "top", ENOMEM)

(***************************************************************************)
(* read(2), only when buf_read is used up.  The offset is shared.  A block *)
(* has the ends of k arguments, and n bytes of the next one have then been *)
(* read.  The first of the k is one of the file if this process has just   *)
(* what was read of it before; otherwise parts of different arguments meet *)
(* in it, or it has become too long for buf_arg and is dropped.            *)
(***************************************************************************)
BlockEnds(k, n) ==
  /\ n = 0 \/ (k < Len(rest) /\ n \in Cuts[rest[k + 1]])
  /\ k > 0 \/ n > cut

Intact(m) == m.part = PartOf(Len(rest), cut)

Found(m, whole) ==
  IF Intact(m) \/ whole = <<>> THEN {whole}
  ELSE {Tail(whole)} \cup {<<t>> \o Tail(whole) : t \in Torn}

PartAfter(m, k, n) ==
  IF Intact(m) \/ k > 0 THEN PartOf(Len(rest) - k, n) ELSE MixedPart

SkipRead(p) ==
  /\ mem[p].buf # <<>>
  /\ Goto(p, "read", "parse")
  /\ UNCHANGED <<start, file, mem, kernel, history>>

ReadBlockSkips(p) ==  \* variant: the argument at the end of a block is lost
  /\ mem[p].buf = <<>>
  /\ Goto(p, "read", "parse")
  /\ \E k \in 1 .. Len(rest) :
       /\ mem' = [mem EXCEPT ![p].buf = SubSeq(rest, 1, k - 1)]
       /\ rest' = SubSeq(rest, k + 1, Len(rest))
  /\ UNCHANGED <<start, cut, linked, kernel, history>>

ReadBlock(p) ==
  /\ mem[p].buf = <<>>
  /\ Goto(p, "read", "parse")
  /\ \E k \in 0 .. Len(rest), n \in {0} \cup UNION {Cuts[a] : a \in Arg} :
       /\ BlockEnds(k, n)
       /\ \E found \in Found(mem[p], SubSeq(rest, 1, k)) :
            mem' = [mem EXCEPT ![p].buf = found,
                               ![p].part = PartAfter(mem[p], k, n)]
       /\ rest' = SubSeq(rest, k + 1, Len(rest))
       /\ cut' = n
  /\ UNCHANGED <<start, linked, kernel, history>>

(***************************************************************************)
(* Nothing was read: the end of the file, or an error, which line 486 does *)
(* not tell apart.                                                         *)
(***************************************************************************)
EndOfFileIgnored(p) ==  \* variant: the loop does not end
  /\ mem[p].buf = <<>>
  /\ rest = <<>> \/ "read" \in Faults
  /\ Goto(p, "read", "parse")
  /\ UNCHANGED <<start, file, mem, kernel, history>>

EndOfFile(p) ==
  /\ mem[p].buf = <<>>
  /\ rest = <<>> \/ "read" \in Faults
  /\ Goto(p, "read", "close")
  /\ UNCHANGED <<start, file, mem, kernel, history>>

(***************************************************************************)
(* The inner loop: the next argument fits and joins the batch, which may   *)
(* then be full; or it is set aside; or the buffer is used up.             *)
(***************************************************************************)
TakeArg(p) ==
  /\ mem[p].buf # <<>>
  /\ LET a == Head(mem[p].buf)
         m == [Appended(mem[p], a) EXCEPT !.buf = Tail(@)]
     IN /\ ~IsArgvFull(Count(mem[p]), mem[p].used, ArgLen[a])
        /\ mem' = [mem EXCEPT ![p] = m]
        /\ Goto(p, "parse",
                IF IsArgvFull(Count(m), m.used, 0) THEN "ready" ELSE "parse")
  /\ UNCHANGED <<start, file, kernel, history>>

TakeArgFails(p) ==
  /\ "append" \in Faults
  /\ mem[p].buf # <<>>
  /\ ~IsArgvFull(Count(mem[p]), mem[p].used, ArgLen[Head(mem[p].buf)])
  /\ FailWith(p, "parse", ENOMEM)

SetAsideAlways(p) ==  \* variant: the limit is not looked at
  /\ mem[p].buf # <<>>
  /\ mem' = [mem EXCEPT ![p].pend = <<Head(mem[p].buf)>>, ![p].buf = Tail(@)]
  /\ Goto(p, "parse", "ready")
  /\ UNCHANGED <<start, file, kernel, history>>

SetAside(p) ==
  /\ mem[p].buf # <<>>
  /\ LET a == Head(mem[p].buf)
     IN /\ IsArgvFull(Count(mem[p]), mem[p].used, ArgLen[a])
        /\ mem' = [mem EXCEPT ![p].pend = <<a>>, ![p].buf = Tail(@)]
  /\ Goto(p, "parse", "ready")
  /\ UNCHANGED <<start, file, kernel, history>>

BufferDone(p) ==
  /\ mem[p].buf = <<>>
  /\ Goto(p, "parse", "top")
  /\ UNCHANGED <<start, file, mem, kernel, history>>

----------------------------------------------------------------------------
(***************************************************************************)
(* The batch is full: with -f that is an error.                            *)
(***************************************************************************)
AnotherAlways == TRUE  \* variant: -f forgotten
MayExecuteAnother == ~opt.force

ForceOnce(p) ==
  /\ ~MayExecuteAnother
  /\ FailWith(p, "ready", E2BIG)

Fork(p) ==
  /\ pc[p] = "ready"
  /\ MayExecuteAnother
  /\ \E c \in Pid :
       /\ pc[c] = "free"
       /\ \A d \in Pid : pc[d] = "free" => c <= d
       /\ pc' = [pc EXCEPT ![p] = "reap", ![c] = "exec"]
       /\ mem' = [mem EXCEPT ![p].child = c,
                             ![c] = [mem[p] EXCEPT !.child = 0]]
       /\ parent' = [parent EXCEPT ![c] = p]
  /\ handed' = IF p = Root THEN handed \o mem[p].argv ELSE handed
  /\ UNCHANGED <<start, file, status, note, ran, lost>>

ForkFails(p) ==
  /\ "fork" \in Faults
  /\ MayExecuteAnother
  /\ FailWith(p, "ready", EAGAIN)

(***************************************************************************)
(* The children of p that a wait would find, and those it would reap.      *)
(***************************************************************************)
Children(p) == {c \in Pid : parent[c] = p /\ pc[c] \notin {"free", "gone"}}
Zombies(p) == {c \in Children(p) : pc[c] = "zombie"}

AfterReapNoWait == "refine"  \* variant: nobody waits
AfterReap == IF opt.noWait THEN "refine" ELSE "wait"
AfterReapErr(m) == IF opt.noWait THEN m ELSE [m EXCEPT !.err = ECHILD]

(***************************************************************************)
(* Line 503: waitpid(-1, nullptr, WNOHANG) takes any child that has ended, *)
(* the one just forked not excepted, and drops its status.                 *)
(***************************************************************************)
ReapAny(p) ==
  /\ pc[p] = "reap"
  /\ \E c \in Zombies(p) :
       /\ pc' = [pc EXCEPT ![p] = AfterReap, ![c] = "gone"]
       /\ lost' = IF ~opt.noWait /\ c = mem[p].child THEN lost \cup {c}
                  ELSE lost
  /\ mem' = [mem EXCEPT ![p] = AfterReapErr(@)]
  /\ UNCHANGED <<start, file, kernel, handed, ran>>

ReapNone(p) ==
  /\ Zombies(p) = {}
  /\ Goto(p, "reap", AfterReap)
  /\ mem' = [mem EXCEPT ![p] = AfterReapErr(@)]
  /\ UNCHANGED <<start, file, kernel, history>>

(***************************************************************************)
(* waitid(P_PID, child): there is no such child (any more); it has ended,  *)
(* by itself or by a signal; it was stopped or continued.                  *)
(***************************************************************************)
WaitGone(p) ==
  /\ mem[p].child \notin Children(p)
  /\ Goto(p, "wait", "refine")
  /\ UNCHANGED <<start, file, mem, kernel, history>>

WaitExitedIgnores(p) ==  \* variant: the status is not looked at
  LET c == mem[p].child IN
  /\ pc[p] = "wait"
  /\ c \in Zombies(p)
  /\ pc' = [pc EXCEPT ![p] = "refine", ![c] = "gone"]
  /\ UNCHANGED <<start, file, mem, kernel, history>>

WaitExited(p) ==
  LET c == mem[p].child IN
  /\ pc[p] = "wait"
  /\ c \in Zombies(p)
  /\ pc' = [pc EXCEPT ![p] = IF opt.strict /\ status[c] # 0
                             THEN "fail" ELSE "refine",
                      ![c] = "gone"]
  /\ mem' = [mem EXCEPT ![p].err = IF status[c] = Killed THEN @ ELSE status[c],
                        ![p].child = IF opt.strict /\ status[c] # 0
                                     THEN @ ELSE 0]
  /\ UNCHANGED <<start, file, kernel, history>>

WaitEvent(p) ==
  LET c == mem[p].child IN
  /\ c \in Children(p) \ Zombies(p)
  /\ note[c] # "none"
  /\ Goto(p, "wait", "wait")
  /\ note' = [note EXCEPT ![c] = "none"]
  /\ UNCHANGED <<start, file, mem, parent, status, history>>

(***************************************************************************)
(* argv_curr starts again from argv_init.                                  *)
(***************************************************************************)
RefineKeeps(p) ==  \* variant: argv_curr is not freed
  Goto(p, "refine", "top") /\ UNCHANGED <<start, file, mem, kernel, history>>

RefineSubtracts(p) ==  \* variant: the bytes are subtracted, not reset
  /\ Goto(p, "refine", "top")
  /\ mem' = [mem EXCEPT ![p].argv = <<>>, ![p].used = InitUsed - @]
  /\ UNCHANGED <<start, file, kernel, history>>

Refine(p) ==
  /\ Goto(p, "refine", "top")
  /\ mem' = [mem EXCEPT ![p].argv = <<>>, ![p].used = InitUsed]
  /\ UNCHANGED <<start, file, kernel, history>>

----------------------------------------------------------------------------
(***************************************************************************)
(* delete_script(): opt.unlink stands for -u with an <arg file> that is    *)
(* regular, is not stdin and keeps its identity (module ArgFile has these).*)
(***************************************************************************)
DeleteNothing == UNCHANGED linked  \* variant
DeleteScript == linked' = (linked /\ ~opt.unlink)

(***************************************************************************)
(* After the loop: close and delete the file, wait for any one child,      *)
(* become <program> with the last batch.                                   *)
(***************************************************************************)
Close(p) ==
  /\ Goto(p, "close", "waitany")
  /\ DeleteScript
  /\ handed' = IF p = Root THEN handed \o mem[p].argv ELSE handed
  /\ UNCHANGED <<start, rest, cut, mem, kernel, ran, lost>>

(***************************************************************************)
(* waitid(P_ALL) of run() and wait(nullptr) of do_exec().                  *)
(***************************************************************************)
AwaitAny(p) ==
  LET next == IF pc[p] = "waitany" THEN "last" ELSE "again" IN
  /\ pc[p] \in {"waitany", "backoff"}
  /\ \/ \E c \in Zombies(p) : pc' = [pc EXCEPT ![p] = next, ![c] = "gone"]
     \/ Children(p) = {} /\ pc' = [pc EXCEPT ![p] = next]
  /\ UNCHANGED <<start, file, mem, kernel, history>>

(***************************************************************************)
(* do_exec() with nothing to execute returns: to the loop in a forked      *)
(* process, to exit(err) at the end of run().                              *)
(***************************************************************************)
ExecNothing(p) ==
  /\ mem[p].argv = <<>>
  /\ \/ Goto(p, "exec", "reap") /\ UNCHANGED <<status, note>>
     \/ pc[p] = "last" /\ Exit(p, mem[p].err)
  /\ UNCHANGED <<start, file, mem, parent, history>>

ExecProgram(p) ==
  /\ pc[p] \in {"exec", "last", "again"}
  /\ mem[p].argv # <<>>
  /\ pc' = [pc EXCEPT ![p] = "program"]
  /\ ran' = ran \cup {p}
  /\ UNCHANGED <<start, file, mem, kernel, handed, lost>>

(***************************************************************************)
(* execvp fails; with -n it is tried once more after wait(nullptr).        *)
(***************************************************************************)
ExecRetry(p) ==
  /\ opt.noWait
  /\ ExecErrors # {}
  /\ pc[p] \in {"exec", "last"}
  /\ mem[p].argv # <<>>
  /\ pc' = [pc EXCEPT ![p] = "backoff"]
  /\ UNCHANGED <<start, file, mem, kernel, history>>

ExecFails(p) ==
  /\ pc[p] \in (IF opt.noWait THEN {"again"} ELSE {"exec", "last"})
  /\ mem[p].argv # <<>>
  /\ \E e \in ExecErrors : Exit(p, e)
  /\ UNCHANGED <<start, file, mem, parent, history>>

(***************************************************************************)
(* _run_out, which goes on to _run_err: the file is deleted as well.       *)
(***************************************************************************)
FailSilently(p) ==  \* variant: exit(0)
  /\ pc[p] = "fail"
  /\ DeleteScript
  /\ Exit(p, 0)
  /\ UNCHANGED <<start, rest, cut, mem, parent, history>>

Fail(p) ==
  /\ pc[p] = "fail"
  /\ DeleteScript
  /\ Exit(p, mem[p].err)
  /\ UNCHANGED <<start, rest, cut, mem, parent, history>>

----------------------------------------------------------------------------
(***************************************************************************)
(* <program> and whoever sends signals to the children of xvp.             *)
(***************************************************************************)
ProgramExit(p) ==
  /\ pc[p] = "program"
  /\ \E code \in Codes : Exit(p, code)
  /\ UNCHANGED <<start, file, mem, parent, history>>

Kill(p) ==
  /\ "kill" \in Signals
  /\ p # Root
  /\ pc[p] \notin {"free"} \cup Ended
  /\ Exit(p, Killed)
  /\ UNCHANGED <<start, file, mem, parent, history>>

Stop(p) ==
  /\ "stop" \in Signals
  /\ p # Root
  /\ Goto(p, "program", "stopped")
  /\ note' = [note EXCEPT ![p] = "stopped"]
  /\ UNCHANGED <<start, file, mem, parent, status, history>>

Continue(p) ==
  /\ Goto(p, "stopped", "program")
  /\ note' = [note EXCEPT ![p] = "continued"]
  /\ UNCHANGED <<start, file, mem, parent, status, history>>

Gather(p) ==
  \/ Begin(p) \/ AppendPending(p) \/ AppendPendingFails(p)
  \/ SkipRead(p) \/ ReadBlock(p) \/ EndOfFile(p)
  \/ TakeArg(p) \/ TakeArgFails(p) \/ SetAside(p) \/ BufferDone(p)

Batch(p) ==
  \/ ForceOnce(p) \/ Fork(p) \/ ForkFails(p)
  \/ ReapAny(p) \/ ReapNone(p)
  \/ WaitGone(p) \/ WaitExited(p) \/ WaitEvent(p)
  \/ Refine(p)

Leave(p) ==
  \/ RunErr(p) \/ Close(p) \/ AwaitAny(p) \/ Fail(p)
  \/ ExecNothing(p) \/ ExecProgram(p) \/ ExecRetry(p) \/ ExecFails(p)

XvpStep(p) == Gather(p) \/ Batch(p) \/ Leave(p)
Outside(p) == ProgramExit(p) \/ Kill(p) \/ Stop(p) \/ Continue(p)

(***************************************************************************)
(* Nothing is left to do: xvp and all that it has started have ended.      *)
(***************************************************************************)
Terminated ==
  /\ \A p \in Pid : pc[p] \in {"free"} \cup Ended
  /\ UNCHANGED vars

Next == (\E p \in Pid : XvpStep(p) \/ Outside(p)) \/ Terminated

Spec == Init /\ [][Next]_vars

(***************************************************************************)
(* The scheduler runs every process, <program> ends, and whoever stops a   *)
(* child lets it go on.                                                    *)
(***************************************************************************)
Fairness ==
  \A p \in Pid : /\ WF_vars(XvpStep(p))
                 /\ SF_vars(ProgramExit(p))
                 /\ WF_vars(Continue(p))

FairSpec == Spec /\ Fairness
----------------------------------------------------------------------------
TypeOK ==
  /\ opt \in OptionSet
  /\ list \in Seq(Arg)
  /\ rest \in Seq(Arg)
  /\ cut \in Nat
  /\ linked \in BOOLEAN
  /\ pc \in [Pid -> PC]
  /\ mem \in [Pid -> Memory]
  /\ parent \in [Pid -> 0 .. MaxPid]
  /\ status \in [Pid -> Int]
  /\ note \in [Pid -> {"none", "stopped", "continued"}]
  /\ handed \in Seq(Arg)
  /\ ran \subseteq Pid
  /\ lost \subseteq Pid

Items(s) == {s[i] : i \in DOMAIN s}

(***************************************************************************)
(* An argument that does not fit beside argv_init: is_argv_full holds of   *)
(* it although there is none in the batch.                                 *)
(***************************************************************************)
NeverFits(a) == IsArgvFull(InitCount, InitUsed, ArgLen[a])
ListFits == \A a \in Items(list) : ~NeverFits(a)

(***************************************************************************)
(* Only xvp itself reads <arg file>: no process finds its batch empty and  *)
(* goes back to the loop, or -f allows no process.                         *)
(***************************************************************************)
OneReader == ListFits \/ opt.force

(***************************************************************************)
(* The arguments of the batch that xvp itself has not passed on yet.       *)
(***************************************************************************)
Current ==
  IF pc[Root] \in Gathering \cup {"close"} THEN mem[Root].argv ELSE <<>>

(***************************************************************************)
(* No argument is lost, doubled or reordered between the file and the      *)
(* executions: what xvp handed over, the current batch, the one set aside, *)
(* the buffer and the rest of the file are the file (lines 416-483).       *)
(***************************************************************************)
Conservation ==
  OneReader /\ pc[Root] \in Loop =>
    handed \o (Current \o (mem[Root].pend \o (mem[Root].buf \o rest))) = list

(***************************************************************************)
(* Where a forked process has nothing to execute, and so returns from      *)
(* do_exec() into the loop of its parent (lines 261, 496), an argument     *)
(* that never fits was set aside from an empty batch; with -f there is no  *)
(* forked process.                                                         *)
(***************************************************************************)
ReturnsOnlyOver ==
  \A p \in Pid \ {Root} :
    pc[p] = "exec" /\ mem[p].argv = <<>> =>
      /\ ~opt.force
      /\ \E a \in Arg : mem[p].pend = <<a>> /\ NeverFits(a)

(***************************************************************************)
(* No two executions, of any processes, get the same argument.             *)
(***************************************************************************)
AtMostOnce ==
  \A p, q \in ran :
    \A i \in DOMAIN mem[p].argv, j \in DOMAIN mem[q].argv :
      mem[p].argv[i] = mem[q].argv[j] => p = q /\ i = j

(***************************************************************************)
(* argc_padding pays for what is_argv_full does not count (the padding and *)
(* the pointer of the item it lets in, the final null pointer): no batch   *)
(* is over the limits unless it is a single argument that cannot fit.      *)
(***************************************************************************)
WithinLimit ==
  \A p \in ran :
    \/ /\ Count(mem[p]) <= ArgcMax
       /\ FullSize(Count(mem[p]), mem[p].used) + WORD
            <= SizeArgs + argc_padding * WORD
    \/ \E a \in Arg : mem[p].argv = <<a>> /\ NeverFits(a)

(***************************************************************************)
(* Without -n at most one <program> is alive, stopped ones included.       *)
(***************************************************************************)
Alive(p) == pc[p] \in {"program", "stopped"}
Serial == ~opt.noWait => \A p, q \in Pid : Alive(p) /\ Alive(q) => p = q

(***************************************************************************)
(* -s, "stop after first failed child process" (line 62): no <program>     *)
(* starts once a process has failed, if line 503 threw no status away.     *)
(***************************************************************************)
NoneFailed == \A q \in Pid : pc[q] \in Ended => status[q] = 0
StrictStops ==
  [][opt.strict /\ ran' # ran /\ lost = {} => NoneFailed]_vars

(***************************************************************************)
(* The whole of what line 62 says: the same whatever line 503 does.        *)
(***************************************************************************)
StrictAlwaysStops == [][opt.strict /\ ran' # ran => NoneFailed]_vars

(***************************************************************************)
(* "return code is EXACT program return code or appropriate error code"    *)
(* (line 14): a success of xvp without -n and without a lost status means  *)
(* that the last execution succeeded (with -s: every one) and, with -s,    *)
(* that every argument was executed if the file could be read to its end.  *)
(***************************************************************************)
Last(p) == \A q \in ran \ {Root} : q <= p
Delivered == \A a \in Items(list) : \E p \in ran : a \in Items(mem[p].argv)
NotStarted(p) == pc[p] \in Ended /\ p \notin ran /\ status[p] # 0
Accounted ==
  \A a \in Items(list) : \E p \in Pid :
    a \in Items(mem[p].argv) /\ (p \in ran \/ NotStarted(p))
Succeeded == pc[Root] = "zombie" /\ status[Root] = 0
SuccessIsExact ==
  Succeeded /\ ~opt.noWait /\ lost = {} =>
    /\ \A p \in ran \ {Root} :
         opt.strict \/ (Root \notin ran /\ Last(p)) => status[p] = 0
    /\ opt.strict /\ rest = <<>> => Delivered

(***************************************************************************)
(* The other half of line 14: when xvp executed nothing itself and gave up *)
(* nothing, it exits with what its last child exited with.                 *)
(***************************************************************************)
ExactCode ==
  OneReader => \A p \in ran \ {Root} :
    pc[Root] = "zombie" /\ ~opt.noWait /\ Root \notin ran /\ Last(p)
      /\ Delivered /\ status[p] # Killed
    => status[Root] = status[p]

ExactUnlessLost == lost = {} => ExactCode

(***************************************************************************)
(* Where read() works, a success of xvp without -n means that every        *)
(* argument was executed, with or without -s, but for those of a child     *)
(* that ended, with another status than 0, before it could execute them.   *)
(***************************************************************************)
SuccessDelivers == OneReader /\ Succeeded /\ ~opt.noWait => Accounted

(***************************************************************************)
(* -f, "force single <program> execution or return error" (line 61): one   *)
(* execution, by xvp itself, with the whole file if it could be read.      *)
(***************************************************************************)
ForceSingle ==
  opt.force => /\ ran \subseteq {Root}
               /\ Root \in ran /\ rest = <<>> => mem[Root].argv = list

(***************************************************************************)
(* -u, "unlink (delete) <arg file> after work" (README.md:30): the file    *)
(* keeps its name while xvp itself still reads it.  When xvp has left      *)
(* run(), the last execution included, the name has gone, unless nothing   *)
(* was read, nothing was executed and xvp has failed: the exits in front   *)
(* of the loop (lines 363-401) do not delete the file.                     *)
(***************************************************************************)
Untouched == rest = list /\ cut = 0 /\ ran = {} /\ status[Root] # 0
Unlinked ==
  /\ ~linked => opt.unlink /\ (OneReader => pc[Root] \notin Loop)
  /\ pc[Root] \in {"program", "stopped"} \cup Ended /\ opt.unlink =>
       ~linked \/ Untouched

(***************************************************************************)
(* xvp and everything it started ends, whatever the options.               *)
(***************************************************************************)
Terminates == <>(\A p \in Pid : pc[p] \in {"free"} \cup Ended)

(***************************************************************************)
(* Unless -f or -s makes xvp give up, every argument is executed, or its   *)
(* execution cannot start and a process says so by its exit code: also     *)
(* when several processes read the file, because without -n the one that   *)
(* was forked last reads to the end while the others wait.  With -n each   *)
(* of several readers may get another part of an argument, and then it is  *)
(* executed by none (lines 430-435, 455-460).                              *)
(***************************************************************************)
EverythingRuns ==
  ~opt.force /\ ~opt.strict /\ (OneReader \/ ~opt.noWait) => <>Accounted

(***************************************************************************)
(* Xvp implements ArgRunner.                                               *)
(***************************************************************************)
Outcome ==
  IF pc[Root] \in Loop THEN "running"
  ELSE IF handed = list THEN "complete" ELSE "failed"

Promise == INSTANCE ArgRunner WITH given <- handed, outcome <- Outcome
Implements == Promise!Spec
=============================================================================
