---------------------------- MODULE MCRefHasher -----------------------------
(* The reference hasher on the instance of MCBlake3Hasher. *)
EXTENDS RefHasher

MCModes == {"hash", "keyed", "derive"}
=============================================================================
