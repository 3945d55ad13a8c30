----------------------------- MODULE KernelAvx512 -----------------------------
(***************************************************************************)
(* c/blake3_avx512.c: sixteen, eight and four lanes with the rotations of  *)
(* AVX-512, and extended output in as many lanes.                          *)
(***************************************************************************)
EXTENDS KernelPortable

rot16(x) == ror(x, 16)
rot12(x) == ror(x, 12)
rot8(x) == ror(x, 8)
rot7(x) == ror(x, 7)
blend_epi16(a, b, imm8) == mm_blend_epi16(a, b, imm8)

Lane == INSTANCE LaneKernel
Row == INSTANCE RowKernel

first_groups(m) == Row!first_groups(m)
row_round(rows, t) == Row!round(rows, t)
compress_in_place(cv, block, block_len, counter, flags) ==
  Row!compress_in_place(cv, block, block_len, counter, flags)
compress_xof(cv, block, block_len, counter, flags) ==
  Row!compress_xof(cv, block, block_len, counter, flags)
round_fn4(v, m, r) == Lane!lane_round_fn(v, m, r)
round_fn8(v, m, r) == Lane!lane_round_fn(v, m, r)
round_fn16(v, m, r) == Lane!lane_round_fn(v, m, r)

-----------------------------------------------------------------------------
load_counters4(counter, increment) ==
  [l \in 0 .. 3 |-> lane_by_split(counter, IF increment THEN l ELSE 0)]
load_counters8(counter, increment) ==
  [l \in 0 .. 7 |-> lane_by_split(counter, IF increment THEN l ELSE 0)]
load_counters16(counter, increment) ==
  [l \in 0 .. 15 |-> lane_by_sign(counter, IF increment THEN l ELSE 0)]

transpose_vecs_128(v) == Lane!transpose_vecs_128(v)
transpose_vecs_256(v) == Lane!transpose_vecs_256(v)

\* Quads 0 and 2 of each vector, and quads 1 and 3.
unpack_lo_128(a, b) == shuffle_i32x4(a, b, \h88)
unpack_hi_128(a, b) == shuffle_i32x4(a, b, \hdd)

\* 32-bit and 64-bit lanes are interleaved, then 128-bit lanes twice.
transpose_vecs_512(v) ==
  LET fours == Array(4, LAMBDA q :
                 Lane!interleave(v[4 * q], v[4 * q + 1], v[4 * q + 2], v[4 * q + 3]))
      both(a, b, n) == Array(2 * n, LAMBDA i : IF i < n THEN unpack_lo_128(a[i], b[i])
                                               ELSE unpack_hi_128(a[i - n], b[i - n]))
      abcdefgh == both(fours[0], fours[1], 4)
      ijklmnop == both(fours[2], fours[3], 4)
  IN  both(abcdefgh, ijklmnop, 8)

-----------------------------------------------------------------------------
hash4(inputs, blocks, counter, increment, flags) ==
  Lane!hash4(inputs, blocks, load_counters4(counter, increment), flags, transpose_vecs_128)
hash8(inputs, blocks, counter, increment, flags) ==
  Lane!hash8(inputs, blocks, load_counters8(counter, increment), flags, transpose_vecs_256)

\* Eight vectors padded with zeros to a square; the lower half of each is stored.
hash16(inputs, blocks, counter, increment, flags) ==
  LET h == Lane!h_vecs(inputs, blocks, load_counters16(counter, increment), flags,
                       transpose_vecs_512)
      padded == transpose_vecs_512(Array(16, LAMBDA i : IF i < 8 THEN h[i] ELSE set1(16, Zero)))
  IN  Stored([i \in 1 .. 16 |-> [j \in 0 .. 7 |-> padded[i - 1][j]]])

hash_one_avx512(input, blocks, counter, flags) ==
  hash_one(compress_in_place, input, blocks, counter, flags)

\* The words stored by one turn of a loop of hash_many.
hash_group(width, inputs, blocks, counter, increment, flags) ==
  CASE width = 16 -> hash16(inputs, blocks, counter, increment, flags)
    [] width = 8 -> hash8(inputs, blocks, counter, increment, flags)
    [] width = 4 -> hash4(inputs, blocks, counter, increment, flags)
    [] width = 1 -> hash_one_avx512(inputs[1], blocks, counter, flags)

\* Four quarters of four output blocks, transposed and put together.
xof4(cv, block, block_len, counter, flags) ==
  LET v == Lane!xof_vecs(4, cv, block, block_len, load_counters4(counter, TRUE), flags)
      q == Array(4, LAMBDA k : Lane!transposed(v, 4 * k, 4, transpose_vecs_128))
  IN  Stored([k \in 1 .. 16 |-> q[(k - 1) % 4][(k - 1) \div 4]])

\* Mutant of xof8: all lower halves are stored before the upper ones.
xof8_unpaired(cv, block, block_len, counter, flags) ==
  LET v == Lane!xof_vecs(8, cv, block, block_len, load_counters8(counter, TRUE), flags)
      half == Array(2, LAMBDA k : Lane!transposed(v, 8 * k, 8, transpose_vecs_256))
  IN  Stored([k \in 1 .. 16 |-> half[(k - 1) \div 8][(k - 1) % 8]])

xof8(cv, block, block_len, counter, flags) ==
  LET v == Lane!xof_vecs(8, cv, block, block_len, load_counters8(counter, TRUE), flags)
      half == Array(2, LAMBDA k : Lane!transposed(v, 8 * k, 8, transpose_vecs_256))
  IN  Stored([k \in 1 .. 16 |-> half[(k - 1) % 2][(k - 1) \div 2]])

xof16(cv, block, block_len, counter, flags) ==
  Stored(Words(transpose_vecs_512(
    Lane!xof_vecs(16, cv, block, block_len, load_counters16(counter, TRUE), flags))))

\* The words stored by one turn of a loop of xof_many.
xof_group(width, cv, block, block_len, counter, flags) ==
  CASE width = 16 -> xof16(cv, block, block_len, counter, flags)
    [] width = 8 -> xof8(cv, block, block_len, counter, flags)
    [] width = 4 -> xof4(cv, block, block_len, counter, flags)
    [] width = 1 -> Words(compress_xof(cv, block, block_len, counter, flags))
=============================================================================
