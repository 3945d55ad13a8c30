----------------------------- MODULE MCCustody16 -----------------------------
(***************************************************************************)
(* Custody16 on a directory with a file of up to two blocks of two bytes,  *)
(* and a directory with a link and two small files, which together are     *)
(* more entries than fit.  A read returns any part of a file.              *)
(***************************************************************************)
EXTENDS Custody16

MCChildren == [d \in {"/", "d"} |-> IF d = "/" THEN <<"a", "d">> ELSE <<"b", "c", "l">>]
MCFileLengths == [f \in {"a", "b", "c"} |-> CASE f = "a" -> {0, 4} [] f = "b" -> {1} [] f = "c" -> {0}]
MCBaseLane == [e \in {"a", "b", "c", "d", "l"} |-> IF e \in {"a", "l"} THEN 0 ELSE 1]
=============================================================================
