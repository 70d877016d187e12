----------------------------- MODULE MCSurround -----------------------------
(***************************************************************************)
(* One voice on two chips.  The F-numbers the halves combine to lie below, *)
(* on and above both limits at which the filter changes the block, in the  *)
(* lowest, a middle and the highest block.                                 *)
(***************************************************************************)
EXTENDS SurroundOpl

KeyOn(block, upper) == 32 + 4 * block + upper

MCLows == {31, 215, 216}
MCHighs == {KeyOn(0, 0), KeyOn(3, 0), KeyOn(3, 3), KeyOn(7, 3), 4 * 3 + 3}
=============================================================================
