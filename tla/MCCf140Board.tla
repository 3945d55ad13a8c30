---------------------------- MODULE MCCf140Board ----------------------------
(***************************************************************************)
(* Two transactions, with a budget of none, one, or one clamped from two.  *)
(***************************************************************************)
EXTENDS Cf140Board

MCRequested == 0 .. 2
=============================================================================
