------------------------------ MODULE HashTree ------------------------------
(***************************************************************************)
(* The BLAKE3 tree over a message, as terms.                               *)
(*                                                                         *)
(* The compression function is a free constructor: two chaining values are *)
(* equal exactly when the same compressions were made on the same inputs   *)
(* with the same counters, lengths and domain flags.  A message is the     *)
(* sequence of its byte positions, so a block of data is named by its      *)
(* first position and its length.  What the hashers of this project        *)
(* compute is compared with TreeOutput below.                              *)
(***************************************************************************)
EXTENDS Naturals, Sequences

CONSTANTS BlockLen,   \* BLAKE3_BLOCK_LEN, 64 in the code
          ChunkLen    \* BLAKE3_CHUNK_LEN, 1024 in the code

-----------------------------------------------------------------------------
(* Integer helpers of blake3_impl.h. *)

AtMost(a, b) == IF a < b THEN a ELSE b

\* The number of 1 bits of a natural number.
popcnt[x \in Nat] == IF x = 0 THEN 0 ELSE (x % 2) + popcnt[x \div 2]

\* The largest power of two at most x, and 1 for 0.
round_down_to_power_of_2[x \in Nat] ==
  IF x <= 1 THEN 1 ELSE 2 * round_down_to_power_of_2[x \div 2]

\* A number of bytes, halved until it divides the count of the bytes before them.
halved_until_aligned(count) ==
  LET shrink[n \in Nat] == IF n <= 1 \/ count % n = 0 THEN n ELSE shrink[n \div 2]
  IN  shrink

\* A chunk is a power of two of bytes, the size of a whole number of blocks.
ASSUME HashTreeAssumption ==
  /\ BlockLen \in Nat \ {0}
  /\ ChunkLen \in Nat \ {0}
  /\ ChunkLen % BlockLen = 0
  /\ ChunkLen = round_down_to_power_of_2[ChunkLen]

\* Mutant of left_subtree_len: half of the chunks, rounded down.
left_subtree_half(n) ==
  round_down_to_power_of_2[((n - 1) \div ChunkLen + 1) \div 2] * ChunkLen

\* Bytes of the left subtree of an input longer than one chunk.
left_subtree_len(n) ==
  round_down_to_power_of_2[(n - 1) \div ChunkLen] * ChunkLen

-----------------------------------------------------------------------------
(* Terms. *)

IV == <<"key", "IV">>
UserKey == <<"key", "user">>

\* An output_t: the state just before choosing between a chaining value and
\* root bytes.
make_output(cv, block, len, counter, flags) ==
  [cv |-> cv, block |-> block, len |-> len, counter |-> counter, flags |-> flags]

\* The chaining value of an output_t, compressed without the ROOT flag.
output_chaining_value(o) == <<"cv", o>>

\* The first bytes of the root output of an output_t.  The counter of the
\* compression is the number of the output block, not the output's own.
output_root(o) ==
  <<"root", make_output(o.cv, o.block, o.len, 0, o.flags \cup {"ROOT"})>>

DataBlock(from, len) == [from |-> from, len |-> len]

parent_output(left, right, key, flags) ==
  make_output(key, [left |-> left, right |-> right], BlockLen, 0,
              flags \cup {"PARENT"})

-----------------------------------------------------------------------------
(* The reference tree.  These definitions are what the hashers promise; no *)
(* hasher calls them to hash its own input.                                *)

\* The output of chunk number c holding len bytes: every block but the last
\* is compressed into the chaining value, the last one carries CHUNK_END.
ChunkOutput(key, flags, c, len) ==
  LET from == c * ChunkLen
      full == IF len = 0 THEN 0 ELSE (len - 1) \div BlockLen
      start(i) == IF i = 0 THEN {"CHUNK_START"} ELSE {}
      chain[i \in 0 .. full] ==
        IF i = 0 THEN key
        ELSE output_chaining_value(
               make_output(chain[i - 1], DataBlock(from + (i - 1) * BlockLen, BlockLen),
                           BlockLen, c, flags \cup start(i - 1)))
  IN  make_output(chain[full],
                  DataBlock(from + full * BlockLen, len - full * BlockLen),
                  len - full * BlockLen, c, flags \cup start(full) \cup {"CHUNK_END"})

\* The output of the subtree over the n bytes that begin with chunk number c:
\* one chunk, or a parent whose left side is the largest power of two of
\* chunks that leaves at least a byte for the right side.
TreeOutput(key, flags, c0, n0) ==
  LET tree[n \in Nat] ==
        IF n <= ChunkLen THEN [c \in Nat |-> ChunkOutput(key, flags, c, n)]
        ELSE LET l == left_subtree_len(n)
             IN  [c \in Nat |-> parent_output(output_chaining_value(tree[l][c]),
                                              output_chaining_value(tree[n - l][c + (l \div ChunkLen)]),
                                              key, flags)]
  IN  tree[n0][c0]

\* The chaining value of that subtree.
SubtreeCV(key, flags, c, n) == output_chaining_value(TreeOutput(key, flags, c, n))

\* The hash of a message of n bytes.
Hash(key, flags, n) == output_root(TreeOutput(key, flags, 0, n))

\* The key and the flags of the three modes.  The key of derive_key is the
\* hash of the context string, here n bytes long, in a domain of its own.
ModeKey(m, n) ==
  CASE m = "hash"   -> IV
    [] m = "keyed"  -> UserKey
    [] m = "derive" -> Hash(IV, {"DERIVE_KEY_CONTEXT"}, n)

ModeFlags(m) ==
  CASE m = "hash"   -> {}
    [] m = "keyed"  -> {"KEYED_HASH"}
    [] m = "derive" -> {"DERIVE_KEY_MATERIAL"}
=============================================================================
