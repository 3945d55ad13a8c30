------------------------------ MODULE KernelSse2 ------------------------------
(***************************************************************************)
(* c/blake3_sse2.c: four lanes, with rotations by shifts and 16-bit        *)
(* shuffles and a blend made of masks, which SSE2 does not have.           *)
(***************************************************************************)
EXTENDS KernelPortable

\* 0xB1 swaps the halves of every pair of halves.
rot16(x) == shuffle_epi16(shuffle_epi16(x, 0, \hB1), 1, \hB1)
rot12(x) == shifts(x, 12, 32 - 12)
rot8(x) == shifts(x, 8, 32 - 8)
rot7(x) == shifts(x, 7, 32 - 7)

\* A half is taken from b if its bit of imm8 is set, lowest bit first.
blend_epi16(a, b, imm8) == blend_halves(a, b, [h \in 0 .. 7 |-> bit(imm8, h)])

Lane == INSTANCE LaneKernel
Row == INSTANCE RowKernel

round_fn4(v, m, r) == Lane!lane_round_fn(v, m, r)
first_groups(m) == Row!first_groups(m)
row_round(rows, t) == Row!round(rows, t)
compress_in_place(cv, block, block_len, counter, flags) ==
  Row!compress_in_place(cv, block, block_len, counter, flags)
compress_xof(cv, block, block_len, counter, flags) ==
  Row!compress_xof(cv, block, block_len, counter, flags)

load_counters(counter, increment) ==
  [l \in 0 .. 3 |-> lane_by_compare(counter, IF increment THEN l ELSE 0)]
transpose_vecs(v) == Lane!transpose_vecs_128(v)

hash4(inputs, blocks, counter, increment, flags) ==
  Lane!hash4(inputs, blocks, load_counters(counter, increment), flags, transpose_vecs)
hash_one_sse2(input, blocks, counter, flags) ==
  hash_one(compress_in_place, input, blocks, counter, flags)

\* The words stored by one turn of a loop of hash_many.
hash_group(width, inputs, blocks, counter, increment, flags) ==
  CASE width = 4 -> hash4(inputs, blocks, counter, increment, flags)
    [] width = 1 -> hash_one_sse2(inputs[1], blocks, counter, flags)
=============================================================================
