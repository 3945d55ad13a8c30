--------------------------- MODULE MCSubtreeWide ----------------------------
(***************************************************************************)
(* Chunks of one block of two bytes.  A build with up to four lanes, run   *)
(* on machines with one, two and four; up to eight calls that hash chunks, *)
(* so that every machine forks at two levels and more.                     *)
(***************************************************************************)
EXTENDS SubtreeWide

MCDegrees == {1, 2, 4}
MCLens == 3 .. 13 \cup {16, 19, 24, 29}
=============================================================================
