------------------------------ MODULE KernelSse41 -----------------------------
(***************************************************************************)
(* c/blake3_sse41.c: four lanes, with byte shuffles for two rotations and  *)
(* the blend of SSE4.1.                                                    *)
(***************************************************************************)
EXTENDS KernelPortable

\* The masks of _mm_set_epi8, from byte 0.
rot16(x) == shuffle_epi8(x, <<2, 3, 0, 1, 6, 7, 4, 5, 10, 11, 8, 9, 14, 15, 12, 13>>)
rot12(x) == shifts(x, 12, 32 - 12)
rot8(x) == shuffle_epi8(x, <<1, 2, 3, 0, 5, 6, 7, 4, 9, 10, 11, 8, 13, 14, 15, 12>>)
rot7(x) == shifts(x, 7, 32 - 7)
blend_epi16(a, b, imm8) == mm_blend_epi16(a, b, imm8)

Lane == INSTANCE LaneKernel
Row == INSTANCE RowKernel

round_fn4(v, m, r) == Lane!lane_round_fn(v, m, r)
first_groups(m) == Row!first_groups(m)
row_round(rows, t) == Row!round(rows, t)
compress_in_place(cv, block, block_len, counter, flags) ==
  Row!compress_in_place(cv, block, block_len, counter, flags)
compress_xof(cv, block, block_len, counter, flags) ==
  Row!compress_xof(cv, block, block_len, counter, flags)

load_counters(counter, increment) ==
  [l \in 0 .. 3 |-> lane_by_compare(counter, IF increment THEN l ELSE 0)]
transpose_vecs(v) == Lane!transpose_vecs_128(v)

hash4(inputs, blocks, counter, increment, flags) ==
  Lane!hash4(inputs, blocks, load_counters(counter, increment), flags, transpose_vecs)
hash_one_sse41(input, blocks, counter, flags) ==
  hash_one(compress_in_place, input, blocks, counter, flags)

\* The words stored by one turn of a loop of hash_many.
hash_group(width, inputs, blocks, counter, increment, flags) ==
  CASE width = 4 -> hash4(inputs, blocks, counter, increment, flags)
    [] width = 1 -> hash_one_sse41(inputs[1], blocks, counter, flags)
=============================================================================
