-------------------------------- MODULE Boxes --------------------------------
(***************************************************************************)
(* What the containers of include/rockdrilla/uvector promise: each of them *)
(* is a sequence of items of its own, of limited length, as long as memory *)
(* is given and the caller keeps to the rules.  Module Vectors implements  *)
(* it.                                                                     *)
(***************************************************************************)
EXTENDS Integers, Sequences

CONSTANTS
  Box,       \* the containers
  Item,      \* what they hold
  Capacity,  \* how much, a function on Box
  Refusing   \* the containers that need memory, which may be refused

VARIABLES
  seq,       \* what each container holds
  excused,   \* memory was refused or a rule broken
  broken     \* nothing is promised any more

vars == <<seq, excused, broken>>

Nothing == [b \in Box |-> <<>>]

Init == seq = Nothing /\ excused = FALSE /\ broken = FALSE

Lesser(m, n) == IF m < n THEN m ELSE n

AppendItem(b) ==
  /\ Len(seq[b]) < Capacity[b]
  /\ \E x \in Item : seq' = [seq EXCEPT ![b] = Append(@, x)]

SetItem(b) ==
  \E i \in DOMAIN seq[b], x \in Item : seq' = [seq EXCEPT ![b][i] = x]

Clear(b) == seq' = [seq EXCEPT ![b] = <<>>]

Copy(b, a) ==
  seq' = [seq EXCEPT ![b] = SubSeq(seq[a], 1, Lesser(Len(seq[a]), Capacity[b]))]

(***************************************************************************)
(* Assignment hands the items over.                                        *)
(***************************************************************************)
Move(b, a) ==
  /\ a # b /\ {a, b} \subseteq Refusing
  /\ seq' = [seq EXCEPT ![b] = seq[a], ![a] = <<>>]

Break ==
  /\ excused'
  /\ broken' = TRUE
  /\ seq' = Nothing

Next ==
  /\ ~broken
  /\ \/ /\ \E a, b \in Box : \/ AppendItem(b) \/ SetItem(b) \/ Clear(b)
                             \/ Copy(b, a) \/ Move(b, a)
                             \/ UNCHANGED seq
        /\ excused' \in {excused, TRUE}
        /\ UNCHANGED broken
     \/ Break

Spec == Init /\ [][Next]_vars
=============================================================================
