--------------------------- MODULE MCBlake3Hasher ---------------------------
(***************************************************************************)
(* A hasher with chunks of two blocks of two bytes, and messages of up to  *)
(* sixteen chunks: every cut of every length into any number of calls, in  *)
(* a mode without a key and in the one that derives it.                    *)
(***************************************************************************)
EXTENDS Blake3Hasher

MCModes == {"hash", "derive"}
=============================================================================
