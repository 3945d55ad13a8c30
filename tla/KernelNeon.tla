------------------------------ MODULE KernelNeon ------------------------------
(***************************************************************************)
(* c/blake3_neon.c: four lanes, with the transposition of NEON.  A single  *)
(* input is compressed by the portable code.                               *)
(***************************************************************************)
EXTENDS KernelPortable

\* vrev32q_u16, byte shuffles, and shifts with insertion.
rot16(x) == shuffle_epi8(x, <<2, 3, 0, 1, 6, 7, 4, 5, 10, 11, 8, 9, 14, 15, 12, 13>>)
rot12(x) == shifts(x, 12, 32 - 12)
rot8(x) == shuffle_epi8(x, <<1, 2, 3, 0, 5, 6, 7, 4, 9, 10, 11, 8, 13, 14, 15, 12>>)
rot7(x) == shifts(x, 7, 32 - 7)

Lane == INSTANCE LaneKernel

round_fn4(v, m, r) == Lane!lane_round_fn(v, m, r)
load_counters4(counter, increment) ==
  [l \in 0 .. 3 |-> lane_by_split(counter, IF increment THEN l ELSE 0)]

\* Mutant of transpose_vecs_128: the halves are put together in rows, not columns.
transpose_unswapped(v) ==
  LET rows01(k) == trn_val(v[0], v[1], k)
      rows23(k) == trn_val(v[2], v[3], k)
  IN  Vec(<<combine(rows01(0), 0, rows01(0), 2), combine(rows01(1), 0, rows01(1), 2),
            combine(rows23(0), 0, rows23(0), 2), combine(rows23(1), 0, rows23(1), 2)>>)

\* The four corners are transposed, then two of them swapped.
transpose_vecs_128(v) ==
  LET rows01(k) == trn_val(v[0], v[1], k)
      rows23(k) == trn_val(v[2], v[3], k)
  IN  Vec(<<combine(rows01(0), 0, rows23(0), 0), combine(rows01(1), 0, rows23(1), 0),
            combine(rows01(0), 2, rows23(0), 2), combine(rows01(1), 2, rows23(1), 2)>>)

hash4(inputs, blocks, counter, increment, flags) ==
  Lane!hash4(inputs, blocks, load_counters4(counter, increment), flags, transpose_vecs_128)
hash_one_neon(input, blocks, counter, flags) ==
  hash_one(compress_in_place_portable, input, blocks, counter, flags)

\* The words stored by one turn of a loop of hash_many.
hash_group(width, inputs, blocks, counter, increment, flags) ==
  CASE width = 4 -> hash4(inputs, blocks, counter, increment, flags)
    [] width = 1 -> hash_one_neon(inputs[1], blocks, counter, flags)
=============================================================================
