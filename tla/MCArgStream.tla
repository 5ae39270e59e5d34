---------------------------- MODULE MCArgStream ----------------------------
(***************************************************************************)
(* Every file of at most 6 bytes over two letters and NUL, with a buf_arg  *)
(* of 4 bytes: arguments of 0 to 2 bytes fit, longer ones do not, and a    *)
(* block of at most 5 bytes can begin and end anywhere.                    *)
(***************************************************************************)
EXTENDS ArgStream

MCLetter == {1, 2}
MCFiles == UNION {[1 .. n -> MCLetter \cup {0}] : n \in 0 .. 6}
=============================================================================
