----------------------------- MODULE ArgRunner -----------------------------
(***************************************************************************)
(* What xvp promises about the arguments of <arg file>: they are handed to *)
(* executions of <program> in the order of the file, every one of them at  *)
(* most once, in non-empty batches; and if xvp does not give up, all of    *)
(* them have been handed over when it is done.  Module Xvp implements it.  *)
(***************************************************************************)
EXTENDS Integers, Sequences

CONSTANT ArgFiles    \* what <arg file> may hold

VARIABLES list,      \* the arguments in <arg file>, in its order
          given,     \* the arguments handed to <program> so far
          outcome    \* "running", "complete" or "failed"

vars == <<list, given, outcome>>

Init == list \in ArgFiles /\ given = <<>> /\ outcome = "running"

(***************************************************************************)
(* One more execution of <program> gets the next n arguments.              *)
(***************************************************************************)
RunBatch(n) ==
  /\ outcome = "running"
  /\ given' = SubSeq(list, 1, Len(given) + n)
  /\ UNCHANGED <<list, outcome>>

(***************************************************************************)
(* The last execution, which may get nothing: no argument is left.         *)
(***************************************************************************)
Finish ==
  /\ outcome = "running"
  /\ given' = list
  /\ outcome' = "complete"
  /\ UNCHANGED list

(***************************************************************************)
(* xvp gives up; the last execution may still get what it has.             *)
(***************************************************************************)
GiveUp ==
  /\ outcome = "running"
  /\ outcome' = "failed"
  /\ \E n \in 0 .. Len(list) - Len(given) - 1 :
       given' = SubSeq(list, 1, Len(given) + n)
  /\ UNCHANGED list

Next ==
  \/ \E n \in 1 .. Len(list) - Len(given) : RunBatch(n)
  \/ Finish
  \/ GiveUp

Spec == Init /\ [][Next]_vars

=============================================================================
