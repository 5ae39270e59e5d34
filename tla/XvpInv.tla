------------------------------- MODULE XvpInv -------------------------------
(***************************************************************************)
(* The inductive invariants behind the safety properties of module Xvp:    *)
(* those that hold for any <arg file>, and those for one that only xvp     *)
(* itself reads (OneReader).                                               *)
(***************************************************************************)
EXTENDS Xvp

(***************************************************************************)
(* The batch of every process, whoever reads the file: within the limits   *)
(* but for a single argument that cannot fit; an empty one that is being   *)
(* gathered has the size of argv_init; an argument is set aside only from  *)
(* a full batch until the next one begins, and from an empty batch only if *)
(* it never fits.                                                          *)
(***************************************************************************)
Bounded(m) ==
  /\ Count(m) <= ArgcMax
  /\ FullSize(Count(m), m.used) <= SizeArgs + 2 * WORD - 2

Single(m) ==
  \E a \in Arg : /\ NeverFits(a)
                 /\ m.argv = <<a>> /\ m.used = InitUsed + ItemSize(ArgLen[a])

BatchOK(place, m) ==
  /\ Bounded(m) \/ Single(m)
  /\ m.pend = <<>> \/ \E a \in Arg : m.pend = <<a>>
  /\ place \in Gathering /\ m.argv = <<>> => m.used = InitUsed
  /\ place \in {"setup", "read", "parse", "close"} => m.pend = <<>>
  /\ place = "top" /\ m.pend # <<>> => m.argv = <<>>
  /\ place \in {"ready", "exec"} /\ m.argv = <<>> =>
       \E a \in Arg : m.pend = <<a>> /\ NeverFits(a)

BatchInv == \A p \in Pid : BatchOK(pc[p], mem[p])

(***************************************************************************)
(* The processes that xvp, or one of these, has forked; none with -f.      *)
(***************************************************************************)
Forked == {p \in Pid \ {Root} : pc[p] # "free"}

AloneInv == opt.force => Forked = {}

(***************************************************************************)
(* The processes are forked in the order of their numbers.  Without -n,    *)
(* and if nobody kills one of them, those that have not ended are a chain: *)
(* each but the last waits for the next.                                   *)
(***************************************************************************)
Live(p) == pc[p] \notin {"free"} \cup Ended

ChainInv ==
  /\ \A p, q \in Pid : p < q /\ pc[q] # "free" => pc[p] # "free"
  /\ ~opt.noWait /\ "kill" \notin Signals =>
       \A p, q \in Pid : Live(p) /\ Live(q) /\ p < q =>
         /\ pc[p] \in {"reap", "wait"}
         /\ \E c \in Pid : mem[p].child = c /\ Live(c) /\ parent[c] = p /\ c <= q

(***************************************************************************)
(* The name goes only with -u, and has gone when xvp itself is out, unless *)
(* it went out with an error before its loop and did nothing.              *)
(***************************************************************************)
Fresh == rest = list /\ cut = 0 /\ ran = {} /\ Forked = {}
SetupInv == pc[Root] = "setup" => Fresh

DeletedInv ==
  /\ ~linked => opt.unlink
  /\ pc[Root] \notin Loop \cup {"fail"} /\ opt.unlink =>
       ~linked \/ (pc[Root] \in Ended /\ status[Root] # 0 /\ Fresh)

----------------------------------------------------------------------------

(***************************************************************************)
(* The places where xvp itself can be.                                     *)
(***************************************************************************)
RootPlaces == PC \ {"free", "exec"}

(***************************************************************************)
(* Where each process is: only xvp itself runs the loop, a forked process  *)
(* that is about to execute has something to execute, because a batch that *)
(* may be forked is not empty: without -f no argument was set aside from   *)
(* an empty one.                                                           *)
(***************************************************************************)
PlaceInv ==
  /\ pc[Root] \in RootPlaces
  /\ pc[Root] = "ready" =>
       mem[Root].argv # <<>> \/ (opt.force /\ mem[Root].pend # <<>>)
  /\ \A p \in Pid \ {Root} :
       /\ pc[p] \notin Loop \cup Leaving
       /\ pc[p] = "exec" => mem[p].argv # <<>>

(***************************************************************************)
(* What Conservation says.  It needs that the part of an argument that xvp *)
(* holds is the one that was read of the file.                             *)
(***************************************************************************)
FileInv ==
  pc[Root] \in Loop =>
    handed \o (Current \o (mem[Root].pend \o (mem[Root].buf \o rest))) = list

PartInv == pc[Root] \in Loop => Intact(mem[Root])

(***************************************************************************)
(* Without -n the only child that has not ended is the one that xvp itself *)
(* is about to wait for or waits for.                                      *)
(***************************************************************************)
SerialInv ==
  ~opt.noWait =>
    \A p \in Pid \ {Root} :
      \/ pc[p] \in {"free"} \cup Ended
      \/ /\ pc[Root] \in {"reap", "wait"}
         /\ p = mem[Root].child
         /\ parent[p] = Root

Inv ==
  OneReader /\ TypeOK /\ PlaceInv /\ BatchInv /\ PartInv /\ FileInv /\ SerialInv

----------------------------------------------------------------------------
(***************************************************************************)
(* xvp itself has its last batch.                                          *)
(***************************************************************************)
HasLast == pc[Root] \in {"waitany", "last"} \cup Executing \/ Root \in ran

Distinct(s) == \A i, j \in DOMAIN s : s[i] = s[j] => i = j

(***************************************************************************)
(* The batches of all processes have nothing in common, because each of    *)
(* them is a piece of what was handed over, and what comes next is not.    *)
(***************************************************************************)
BatchesInv ==
  /\ Distinct(list)
  /\ \A p \in Forked : /\ Distinct(mem[p].argv)
                       /\ Items(mem[p].argv) \subseteq Items(handed)
  /\ \A p, q \in Forked : p # q => Items(mem[p].argv) \cap Items(mem[q].argv) = {}
  /\ HasLast => /\ Distinct(mem[Root].argv)
                /\ \A p \in Forked : Items(mem[Root].argv) \cap Items(mem[p].argv) = {}
  /\ ran \subseteq Forked \cup {Root}
  /\ Root \in ran => pc[Root] \in Executing \cup Ended

(***************************************************************************)
(* With -f nothing is handed over before the last batch, which is then     *)
(* everything that was read.                                               *)
(***************************************************************************)
ForceInv ==
  /\ pc[Root] = "close" => mem[Root].buf = <<>>
  /\ opt.force => /\ Forked = {}
                  /\ pc[Root] \in Loop => handed = <<>>
                  /\ HasLast /\ rest = <<>> => mem[Root].argv = list

(***************************************************************************)
(* The name goes with the step that leaves the loop, or with the failure.  *)
(***************************************************************************)
NameInv == linked \/ (opt.unlink /\ pc[Root] \notin Loop \cup {"fail"})

(***************************************************************************)
(* With -s and no status lost, a child that has failed is the one that xvp *)
(* is about to wait for, or xvp gives up.                                  *)
(***************************************************************************)
StrictInv ==
  /\ opt \in Options
  /\ \A p \in Forked : parent[p] = Root
  /\ opt.strict /\ lost = {} =>
       /\ pc[Root] \in {"reap", "wait"} =>
            /\ mem[Root].child \in Forked
            /\ pc[mem[Root].child] # "gone"
       /\ \A p \in Forked :
            \/ pc[p] \notin Ended \/ status[p] = 0
            \/ pc[Root] \in {"reap", "wait"} /\ p = mem[Root].child
            \/ pc[Root] \in {"fail"} \cup Ended

PromiseInv == Inv /\ BatchesInv /\ ForceInv /\ NameInv /\ StrictInv

----------------------------------------------------------------------------
(***************************************************************************)
(* The processes in the order of their forks: each has had something to    *)
(* execute, and has executed it when it has ended with success.            *)
(***************************************************************************)
Latest(p) == p \in Forked /\ \A q \in Forked : q <= p

ForkedInv ==
  /\ \A p \in Forked : /\ \A q \in 2 .. p : q \in Forked
                       /\ mem[p].argv # <<>>
  /\ \A p \in Pid : /\ pc[p] \notin Ended => status[p] = 0
                    /\ pc[p] \in {"program", "stopped"} => p \in ran
  /\ \A p \in Forked : pc[p] \in Ended => p \in ran \/ status[p] # 0

(***************************************************************************)
(* What was handed over is in some batch; behind the loop, unless xvp gave *)
(* up, it is all that was read.                                            *)
(***************************************************************************)
Behind == pc[Root] \notin Loop \cup {"fail"}

Closed == \/ pc[Root] \in {"waitany", "last"} \cup Executing
          \/ pc[Root] \in Ended /\ status[Root] = 0

HandedInv ==
  /\ \A a \in Items(handed) :
       \/ \E p \in Forked : a \in Items(mem[p].argv)
       \/ Behind /\ a \in Items(mem[Root].argv)
  /\ Items(handed) \subseteq Items(list)
  /\ Closed => /\ handed \o rest = list
               /\ Items(mem[Root].argv) \subseteq Items(handed)
  /\ (pc[Root] = "close" \/ Closed) /\ "read" \notin Faults => rest = <<>>

(***************************************************************************)
(* err between a wait and the next one: the status of the latest child, or *)
(* ECHILD when a signal has ended it.  xvp exits with it, or gives up with *)
(* another error, and then an argument is in no batch of a child.          *)
(***************************************************************************)
Observed == ~opt.noWait /\ lost = {}
CodeOf(p) == IF status[p] = Killed THEN ECHILD ELSE status[p]
IsLatestCode(e) == \A p \in Pid : Latest(p) => e = CodeOf(p)
Undelivered ==
  \E a \in Items(list) : \A p \in Forked : a \notin Items(mem[p].argv)

CodeInv ==
  /\ ~opt.noWait /\ pc[Root] = "wait" => mem[Root].err = ECHILD
  /\ pc[Root] = "fail" => mem[Root].err # 0
  /\ pc[Root] \in Ended /\ Root \notin ran /\ status[Root] = 0 =>
       mem[Root].argv = <<>>
  /\ Observed =>
       /\ pc[Root] \in {"reap", "wait"} => /\ Latest(mem[Root].child)
                                           /\ pc[mem[Root].child] # "gone"
       /\ pc[Root] \in Gathering \cup {"refine", "close", "waitany", "last"} =>
            IsLatestCode(mem[Root].err)
       /\ pc[Root] = "fail" => Undelivered \/ IsLatestCode(mem[Root].err)
       /\ pc[Root] \in Ended /\ Root \notin ran =>
            (status[Root] # 0 /\ Undelivered) \/ IsLatestCode(status[Root])
  /\ opt.strict /\ lost = {} /\ Closed => \A p \in Forked : status[p] = 0

WholeInv ==
  PromiseInv /\ SetupInv /\ DeletedInv /\ ForkedInv /\ HandedInv /\ CodeInv
=============================================================================
