----------------------------- MODULE MCDispatch -----------------------------
(***************************************************************************)
(* Two threads on every processor, operating system and build; a call of   *)
(* blake3_xof_many for two blocks goes through its loop twice.             *)
(***************************************************************************)
EXTENDS Dispatch, TLC

CONSTANTS t1, t2
MCThreads == {t1, t2}
Symmetry == Permutations(MCThreads)
=============================================================================
