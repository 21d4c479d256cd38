----------------------------- MODULE MCTransfer -----------------------------
(***************************************************************************)
(* An object of two blocks, sent whole, in two parts, or in parts that are *)
(* no blocks; a counter that is next to its carry.                         *)
(***************************************************************************)
EXTENDS Transfer

MCPartSizes == {2, 3, 4}
MCChunkSizes == {1, 2, 6, 13}
=============================================================================
