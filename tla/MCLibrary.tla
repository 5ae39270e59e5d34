----------------------------- MODULE MCLibrary -----------------------------
(***************************************************************************)
(* The library under src/include.  The containers: items of 3 bytes in     *)
(* blocks of 8 and an index of 3 bits, so that the first block has room    *)
(* for two items and the second one for as many as an index allows, three; *)
(* two dynmems, their blocks and a place to move one to.  The numbers:     *)
(* functions on 8 bits and on 16 bits against their meaning, for all small *)
(* arguments and those around the top bit and the overflow.  The messages: *)
(* each part empty, short or longer than a buffer.                         *)
(***************************************************************************)
EXTENDS Vectors, Numbers, LogStderr, TLC

MCMaxItems == [v \in Inp |-> 2]
MCValue == {1}
MCAmounts == {1, 2, 7}

(***************************************************************************)
(* No address and no dynmem differs from another, but for its name.        *)
(***************************************************************************)
Symmetry == Permutations(Addr) \cup Permutations(Dyn)

(***************************************************************************)
(* What is asked of the functions and of the log, while the containers do  *)
(* nothing; or calls of the containers, and nothing else.                  *)
(***************************************************************************)
MCWidth == {8, 16}
MCNumber ==
  [of : {"unsigned"}, w : {8}, x : 0 .. 255, y : 0 .. 17 \cup {127, 128, 255}]
    \cup [of : {"unsigned"}, w : {16}, y : {1, 3, 8, 12, 4096, 32767},
          x : 0 .. 130 \cup 32700 .. 32800 \cup 65400 .. 65535]
    \cup [of : {"signed"}, x : -3 .. 3, y : -3 .. 3]
MCLengths == {0, 1, 2, 7, 100, PATH_MAX, PATH_MAX + 1}
Nothing == [of |-> "nothing"]

MCInit ==
  /\ Init
  /\ \/ asked \in MCNumber /\ logged = Nothing
     \/ asked = Nothing /\ logged \in {Nothing} \cup Message \cup Error
MCNext ==
  /\ UNCHANGED <<asked, logged>>
  /\ IF asked = Nothing /\ logged = Nothing THEN Next ELSE UNCHANGED vars
MCSpec == MCInit /\ [][MCNext]_<<vars, asked, logged>>
=============================================================================
