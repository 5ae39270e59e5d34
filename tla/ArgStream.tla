----------------------------- MODULE ArgStream -----------------------------
(***************************************************************************)
(* The reader of run() in src/xvp.cc (lines 352-362 and 414-486): blocks   *)
(* of <arg file>, cut at any byte, are parsed in place; a part of an       *)
(* argument is kept in buf_arg until its NUL arrives; an argument that is  *)
(* too long is skipped; one that does not fit into the batch waits there.  *)
(* Module Xvp has the batches and the processes: here a batch may be full  *)
(* at any argument, and executing it keeps everything that is read.        *)
(***************************************************************************)
EXTENDS Integers, Sequences, FiniteSets, FiniteSetsExt

CONSTANTS
  Letter,     \* the bytes that are not NUL
  MaxLen,     \* s_buf_arg: the size of buf_arg, 32 pages
  ReadSize,   \* s_buf_read: a page more
  Files       \* the contents that <arg file> may have

NUL == 0
Byte == Letter \cup {NUL}

ASSUME StreamAssumption ==
  /\ NUL \notin Letter
  /\ MaxLen \in Nat \ {0} /\ ReadSize \in Nat /\ ReadSize > MaxLen
  /\ Files \subseteq Seq(Byte)

VARIABLES
  file,      \* <arg file>
  rest,      \* what read(2) has not delivered yet
  pc,        \* "top", "read", "parse", "done"
  buf,       \* the n_buf bytes from tbuf on
  total,     \* total: the length of the argument so far
  stored,    \* buf_arg, as far as it is not zero
  pend,      \* arg_pend: buf_arg holds a whole argument for the next batch
  out        \* the arguments appended to argv_curr, over all batches

vars == <<file, rest, pc, buf, total, stored, pend, out>>

Init ==
  /\ file \in Files
  /\ rest = file
  /\ pc = "top"
  /\ buf = <<>>
  /\ total = 0
  /\ stored = <<>>
  /\ pend = FALSE
  /\ out = <<>>

Argument == SubSeq(stored, 1, total)

(***************************************************************************)
(* The head of the loop.                                                   *)
(***************************************************************************)
AppendPendingStale ==  \* variant: total is not reset
  /\ pc = "top"
  /\ pc' = "read"
  /\ out' = IF pend THEN Append(out, Argument) ELSE out
  /\ pend' = FALSE
  /\ UNCHANGED <<file, rest, buf, total, stored>>

AppendPending ==
  /\ pc = "top"
  /\ pc' = "read"
  /\ IF pend
     THEN /\ out' = Append(out, Argument)
          /\ total' = 0
          /\ stored' = <<>>
     ELSE UNCHANGED <<out, total, stored>>
  /\ pend' = FALSE
  /\ UNCHANGED <<file, rest, buf>>

(***************************************************************************)
(* read(2) delivers any number of bytes.                                   *)
(***************************************************************************)
Read ==
  /\ pc = "read"
  /\ IF buf = <<>>
     THEN \E k \in 1 .. Min({ReadSize, Len(rest)}) :
            /\ buf' = SubSeq(rest, 1, k)
            /\ rest' = SubSeq(rest, k + 1, Len(rest))
     ELSE UNCHANGED <<buf, rest>>
  /\ pc' = "parse"
  /\ UNCHANGED <<file, total, stored, pend, out>>

EndOfFileIgnored ==  \* variant: the loop does not end
  /\ pc = "read"
  /\ buf = <<>> /\ rest = <<>>
  /\ pc' = "parse"
  /\ UNCHANGED <<file, rest, buf, total, stored, pend, out>>

EndOfFile ==
  /\ pc = "read"
  /\ buf = <<>> /\ rest = <<>>
  /\ pc' = "done"
  /\ UNCHANGED <<file, rest, buf, total, stored, pend, out>>

(***************************************************************************)
(* strnlen(tbuf, n_buf), and what is left behind the NUL it stops at.      *)
(***************************************************************************)
Nuls(s) == {i \in DOMAIN s : s[i] = NUL}
BlockWithNul ==  \* variant: the NUL is counted
  IF Nuls(buf) = {} THEN Len(buf) ELSE Min(Nuls(buf))
Block == IF Nuls(buf) = {} THEN Len(buf) ELSE Min(Nuls(buf)) - 1
Unfinished == Block = Len(buf)
BehindNul == SubSeq(buf, Block + 2, Len(buf))

TooLongByOne(len) == len > MaxLen  \* variant: buf_arg overflows
TooLong(len) == len + 1 >= MaxLen

(***************************************************************************)
(* Lines 441-453: the argument is too long.  Its end may be far away.      *)
(***************************************************************************)
SkipForgets ==  \* variant: a too long argument ends with its block
  /\ pc = "parse" /\ buf # <<>>
  /\ TooLong(total + Block)
  /\ buf' = (IF Unfinished THEN <<>> ELSE BehindNul)
  /\ total' = 0 /\ stored' = <<>>
  /\ UNCHANGED <<file, rest, pc, pend, out>>

Skip ==
  /\ pc = "parse" /\ buf # <<>>
  /\ TooLong(total + Block)
  /\ IF Unfinished
     THEN buf' = <<>> /\ total' = total + Block /\ UNCHANGED stored
     ELSE buf' = BehindNul /\ total' = 0 /\ stored' = <<>>
  /\ UNCHANGED <<file, rest, pc, pend, out>>

(***************************************************************************)
(* Line 455: memcpy(buf_arg + total - block, tbuf, block), after line 439. *)
(***************************************************************************)
Stored == SubSeq(stored, 1, total) \o SubSeq(buf, 1, Block)

(***************************************************************************)
(* Lines 457-460: the block ends within the argument.                      *)
(***************************************************************************)
StorePart ==
  /\ pc = "parse" /\ buf # <<>>
  /\ ~TooLong(total + Block)
  /\ Unfinished
  /\ stored' = Stored
  /\ total' = total + Block
  /\ buf' = <<>>
  /\ UNCHANGED <<file, rest, pc, pend, out>>

(***************************************************************************)
(* Lines 464-468: the batch has no room for the argument.                  *)
(***************************************************************************)
SetAsideTwice ==  \* variant: it joins this batch and waits for the next one
  /\ pc = "parse" /\ buf # <<>>
  /\ ~TooLong(total + Block)
  /\ ~Unfinished
  /\ out' = Append(out, Stored)
  /\ stored' = Stored
  /\ total' = total + Block
  /\ buf' = BehindNul
  /\ pend' = TRUE
  /\ pc' = "top"
  /\ UNCHANGED <<file, rest>>

SetAside ==
  /\ pc = "parse" /\ buf # <<>>
  /\ ~TooLong(total + Block)
  /\ ~Unfinished
  /\ stored' = Stored
  /\ total' = total + Block
  /\ buf' = BehindNul
  /\ pend' = TRUE
  /\ pc' = "top"
  /\ UNCHANGED <<file, rest, out>>

(***************************************************************************)
(* Lines 470-483: the argument joins the batch, which may be full then.    *)
(***************************************************************************)
TakeArg ==
  /\ pc = "parse" /\ buf # <<>>
  /\ ~TooLong(total + Block)
  /\ ~Unfinished
  /\ out' = Append(out, Stored)
  /\ total' = 0
  /\ stored' = <<>>
  /\ buf' = BehindNul
  /\ pc' \in {"parse", "top"}
  /\ UNCHANGED <<file, rest, pend>>

BufferDone ==
  /\ pc = "parse" /\ buf = <<>>
  /\ pc' = "top"
  /\ UNCHANGED <<file, rest, buf, total, stored, pend, out>>

Done == pc = "done" /\ UNCHANGED vars

Step == AppendPending \/ Read \/ EndOfFile \/ Skip \/ StorePart \/ SetAside
          \/ TakeArg \/ BufferDone

Next == Step \/ Done

Spec == Init /\ [][Next]_vars

(***************************************************************************)
(* The process runs on, and read(2) answers.                               *)
(***************************************************************************)
FairSpec == Spec /\ WF_vars(Step)

----------------------------------------------------------------------------
(***************************************************************************)
(* The meaning of <arg file>, from the positions of its NULs: the bytes    *)
(* before each NUL, back to the one before, where there are not too many.  *)
(***************************************************************************)
PieceBefore(s, i) ==
  SubSeq(s, Max({0} \cup {j \in Nuls(s) : j < i}) + 1, i - 1)

FitNuls(s) == {i \in Nuls(s) : Len(PieceBefore(s, i)) + 1 < MaxLen}

Upto(S, i) == {j \in S : j <= i}
Nth(S, k) == CHOOSE i \in S : Cardinality(Upto(S, i)) = k

Fitting(s) ==
  [k \in 1 .. Cardinality(FitNuls(s)) |-> PieceBefore(s, Nth(FitNuls(s), k))]

AfterLastNul(s) == SubSeq(s, Max({0} \cup Nuls(s)) + 1, Len(s))

Consumed == SubSeq(file, 1, Len(file) - Len(rest) - Len(buf))

TypeOK ==
  /\ file \in Seq(Byte) /\ rest \in Seq(Byte) /\ buf \in Seq(Byte)
  /\ pc \in {"top", "read", "parse", "done"}
  /\ total \in Nat
  /\ stored \in Seq(Letter)
  /\ pend \in BOOLEAN
  /\ out \in Seq(Seq(Letter))

(***************************************************************************)
(* However read(2) cuts the file and wherever batches end, the arguments   *)
(* so far are those of the bytes so far: complete, in order, each once,    *)
(* without the ones that are too long (lines 416-484).                     *)
(***************************************************************************)
ExactArguments ==
  out \o (IF pend THEN <<Argument>> ELSE <<>>) = Fitting(Consumed)

(***************************************************************************)
(* Between two NULs, total counts what was read of the argument, and       *)
(* buf_arg has all of it unless it is too long already.                    *)
(***************************************************************************)
ExactPart ==
  ~pend => /\ total = Len(AfterLastNul(Consumed))
           /\ ~TooLong(total) => stored = AfterLastNul(Consumed)

(***************************************************************************)
(* memcpy stays within buf_arg, and the last byte of it stays zero.        *)
(***************************************************************************)
InBufArg == Len(stored) < MaxLen

(***************************************************************************)
(* What joins the batches are the arguments that fit, of the whole file    *)
(* when the loop ends: as ArgRunner promises of xvp, and as module Xvp     *)
(* takes them for granted (lines 414-488).                                 *)
(***************************************************************************)
FittingFiles == {Fitting(f) : f \in Files}

Promise == INSTANCE ArgRunner
  WITH list <- Fitting(file), given <- out, ArgFiles <- FittingFiles,
       outcome <- IF pc = "done" THEN "complete" ELSE "running"

Implements == Promise!Spec

(***************************************************************************)
(* The end of a finite file is reached.                                    *)
(***************************************************************************)
ReadsAll == <>(pc = "done" /\ Consumed = file)
=============================================================================
