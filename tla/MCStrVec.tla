------------------------------ MODULE MCStrVec ------------------------------
(***************************************************************************)
(* Words of 4 bytes in blocks of 16: the second string, the fourth offset  *)
(* or one long string need another block.                                  *)
(***************************************************************************)
EXTENDS StrVec

MCLens == {0, 3, 4, 20}
=============================================================================
