--------------------------- MODULE MCOutputReader ---------------------------
(***************************************************************************)
(* Blocks of two bytes and words of five bits.  Positions go up to 43      *)
(* blocks and a byte, past the carry at block 32; reads of up to 17 blocks *)
(* and a byte use every group of lanes and cross the carry.                *)
(***************************************************************************)
EXTENDS OutputReader

MCSeekPositions == {0, 5, 87, 88, 200}
MCSeekOffsets == {-90, -3, 0, 90}
=============================================================================
