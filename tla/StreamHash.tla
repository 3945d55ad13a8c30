----------------------------- MODULE StreamHash -----------------------------
(***************************************************************************)
(* What an incremental hasher promises: the digest is the hash of the      *)
(* concatenation of the inputs absorbed since the hasher was initialised   *)
(* or reset, in the mode it was initialised with, however the inputs were  *)
(* cut into calls, and asking for a digest does not disturb the hasher.    *)
(***************************************************************************)
EXTENDS HashTree

CONSTANTS Modes,      \* initialisers used: subset of {"hash", "keyed", "derive"}
          MaxTotal    \* bound on the bytes absorbed between two resets

VARIABLES mode,       \* the initialiser the hasher was built with
          absorbed,   \* bytes absorbed since then or since the last reset
          digest      \* what the last call returned: a digest, or NoDigest

vars == <<mode, absorbed, digest>>

NoDigest == <<"none">>

\* The length of the context string of derive_key in the model: two chunks
\* less a byte, so that deriving a key builds a tree.
ContextLen == 2 * ChunkLen - 1

Init ==
  /\ mode \in Modes
  /\ absorbed = 0
  /\ digest = NoDigest

\* update(): absorb n more bytes.
Absorb(n) ==
  /\ absorbed + n <= MaxTotal
  /\ absorbed' = absorbed + n
  /\ digest' = NoDigest
  /\ UNCHANGED mode

\* finalize(): the digest of what was absorbed.
Finalize ==
  /\ digest' = Hash(ModeKey(mode, ContextLen), ModeFlags(mode), absorbed)
  /\ UNCHANGED <<mode, absorbed>>

\* reset(): as new, in the same mode.
Reset ==
  /\ absorbed' = 0
  /\ digest' = NoDigest
  /\ UNCHANGED mode

Next ==
  \/ \E n \in 1 .. MaxTotal : Absorb(n)
  \/ Finalize
  \/ Reset

Spec == Init /\ [][Next]_vars
=============================================================================
