-------------------------- MODULE MCCryptoRuntime --------------------------
(***************************************************************************)
(* Every function with every algorithm, any one pointer NULL, and lengths  *)
(* of nothing, something and more than an int holds.                       *)
(***************************************************************************)
EXTENDS CryptoRuntime

MCLengths == {0, 1, 3}
\* A capacity below, at and above each size of a digest.
MCCapacities == {15, 16, 20, 28, 31, 32, 48, 64}
=============================================================================
