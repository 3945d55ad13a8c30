------------------------------ MODULE KernelAvx2 ------------------------------
(***************************************************************************)
(* c/blake3_avx2.c: eight lanes.  It has no compression of a single block: *)
(* what is left of the inputs goes to SSE4.1, or to the portable code in a *)
(* build without SSE4.1.                                                   *)
(***************************************************************************)
EXTENDS KernelPortable

\* The masks of _mm256_set_epi8, from byte 0; both halves of them are the same.
rot16(x) == shuffle_epi8(x, <<2, 3, 0, 1, 6, 7, 4, 5, 10, 11, 8, 9, 14, 15, 12, 13>>)
rot12(x) == shifts(x, 12, 32 - 12)
rot8(x) == shuffle_epi8(x, <<1, 2, 3, 0, 5, 6, 7, 4, 9, 10, 11, 8, 13, 14, 15, 12>>)
rot7(x) == shifts(x, 7, 32 - 7)

Lane == INSTANCE LaneKernel
Sse41 == INSTANCE KernelSse41

round_fn8(v, m, r) == Lane!lane_round_fn(v, m, r)
load_counters(counter, increment) ==
  [l \in 0 .. 7 |-> lane_by_compare(counter, IF increment THEN l ELSE 0)]
transpose_vecs(v) == Lane!transpose_vecs_256(v)

hash8(inputs, blocks, counter, increment, flags) ==
  Lane!hash8(inputs, blocks, load_counters(counter, increment), flags, transpose_vecs)

\* The words stored by one turn of a loop of hash_many, in a build with SSE4.1
\* or without.
hash_group(width, inputs, blocks, counter, increment, flags, sse41) ==
  CASE width = 8 -> hash8(inputs, blocks, counter, increment, flags)
    [] width < 8 /\ sse41 -> Sse41!hash_group(width, inputs, blocks, counter, increment, flags)
    [] width < 8 /\ ~sse41 -> hash_one_portable(inputs[1], blocks, counter, flags)
=============================================================================
