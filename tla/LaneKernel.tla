------------------------------ MODULE LaneKernel ------------------------------
(***************************************************************************)
(* The kernel that hashes one input in every lane: vector i holds word i   *)
(* of every lane's state.  The text of its round function is the same, up  *)
(* to the names of the vector operations, in c/blake3_sse2.c,              *)
(* blake3_sse41.c, blake3_avx2.c, blake3_neon.c and, for each of its three *)
(* widths, blake3_avx512.c; so are the loops around it.  The back ends     *)
(* instantiate this module with their own rotations.                       *)
(***************************************************************************)
EXTENDS KernelPortable

CONSTANTS rot16(_), rot12(_), rot8(_), rot7(_)

\* Half a round on all four columns (s = 0) or diagonals (s = 1): quarter j
\* works on the vectors j, 4 + (j + s) % 4, 8 + (j + 2s) % 4, 12 + (j + 3s) % 4.
half_mix(v, s, msg, rotd(_), rotb(_)) ==
  LET a == Array(4, LAMBDA j : add(add(v[j], msg[j]), v[4 + ((j + s) % 4)]))
      d == Array(4, LAMBDA j : rotd(xor(v[12 + ((j + 3 * s) % 4)], a[j])))
      c == Array(4, LAMBDA j : add(v[8 + ((j + 2 * s) % 4)], d[j]))
      b == Array(4, LAMBDA j : rotb(xor(v[4 + ((j + s) % 4)], c[j])))
      turned(x, n) == [k \in 1 .. 4 |-> x[(k + 3 - n) % 4]]
  IN  Vec(turned(a, 0) \o turned(b, s) \o turned(c, 2 * s) \o turned(d, 3 * s))

lane_round_fn(v, m, r) ==
  LET msg(first) == Array(4, LAMBDA j : m[MSG_SCHEDULE[r][first + 2 * j]])
      columns == half_mix(half_mix(v, 0, msg(0), rot16, rot12), 0, msg(1), rot8, rot7)
  IN  half_mix(half_mix(columns, 1, msg(8), rot16, rot12), 1, msg(9), rot8, rot7)

\* lane_round_fn seven times: lane by lane, the seven rounds of the portable code.
rounds(v, m) ==
  LET in_lane(vecs, l) == Array(16, LAMBDA i : vecs[i][l])
      after == Lanes(v[0], LAMBDA l : Permuted(in_lane(v, l), in_lane(m, l)))
  IN  Array(16, LAMBDA i : Lanes(v[0], LAMBDA l : after[l][i]))

\* The state of n lanes: the chaining values, IV, counters, length and flags.
state_vecs(n, cvs, counters, block_len, flags) ==
  Vec(Words(cvs) \o [i \in 1 .. 4 |-> set1(n, IV[i - 1])]
      \o <<Array(n, LAMBDA l : Number(counter_low(counters[l]))),
           Array(n, LAMBDA l : Number(counter_high(counters[l]))),
           set1(n, Number(block_len)), set1(n, <<"flags", flags>>)>>)

-----------------------------------------------------------------------------
\* Four vectors transposed four words at a time.
interleave(a, b, c, d) ==
  LET ab_01 == unpacklo_epi32(a, b)
      ab_23 == unpackhi_epi32(a, b)
      cd_01 == unpacklo_epi32(c, d)
      cd_23 == unpackhi_epi32(c, d)
  IN  Vec(<<unpacklo_epi64(ab_01, cd_01), unpackhi_epi64(ab_01, cd_01),
            unpacklo_epi64(ab_23, cd_23), unpackhi_epi64(ab_23, cd_23)>>)

transpose_vecs_128(v) == interleave(v[0], v[1], v[2], v[3])

transpose_vecs_256(v) ==
  LET abcd == interleave(v[0], v[1], v[2], v[3])
      efgh == interleave(v[4], v[5], v[6], v[7])
  IN  Array(8, LAMBDA i : permute2x128(abcd[i % 4], efgh[i % 4], IF i < 4 THEN \h20 ELSE \h31))

\* Words of a matrix of vectors, by the transposition of a group of rows.
transposed(v, first, n, transpose(_)) == transpose(Array(n, LAMBDA i : v[first + i]))

\* One block of n inputs, n words of each input at a time.
transpose_msg_vecs(blocks, transpose(_)) ==
  LET n == Len(blocks)
      loaded == Array(16, LAMBDA k : Array(n, LAMBDA j : blocks[(k % n) + 1][n * (k \div n) + j]))
      group == Array(16 \div n, LAMBDA q : transposed(loaded, n * q, n, transpose))
  IN  Array(16, LAMBDA k : group[k \div n][k % n])

\* The chaining values of n inputs after all their blocks.
h_vecs(inputs, blocks, counters, flags, transpose(_)) ==
  LET n == Len(inputs)
      h[b \in 0 .. blocks] ==
        IF b = 0 THEN Array(8, LAMBDA i : set1(n, Key[i]))
        ELSE LET msg == transpose_msg_vecs([l \in 1 .. n |-> BlockOf(inputs[l], b - 1)], transpose)
                 v == rounds(state_vecs(n, h[b - 1], counters, BLOCK_LEN,
                                        block_flags(flags, b - 1, blocks)), msg)
             IN  Array(8, LAMBDA i : xor(v[i], v[i + 8]))
  IN  h[blocks]

\* hash4: the two halves of the chaining values, transposed and interleaved.
hash4(inputs, blocks, counters, flags, transpose(_)) ==
  LET h == h_vecs(inputs, blocks, counters, flags, transpose)
      lo == transposed(h, 0, 4, transpose)
      hi == transposed(h, 4, 4, transpose)
  IN  Stored(<<lo[0], hi[0], lo[1], hi[1], lo[2], hi[2], lo[3], hi[3]>>)

hash8(inputs, blocks, counters, flags, transpose(_)) ==
  Stored(Words(transpose(h_vecs(inputs, blocks, counters, flags, transpose))))

\* The sixteen state words of n consecutive output blocks, before transposition.
xof_vecs(n, cv, block, block_len, counters, flags) ==
  LET h == Array(8, LAMBDA i : set1(n, cv[i]))
      msg == Array(16, LAMBDA i : set1(n, block[i]))
      v == rounds(state_vecs(n, h, counters, block_len, flags), msg)
  IN  Array(16, LAMBDA i : IF i < 8 THEN xor(v[i], v[i + 8]) ELSE xor(v[i], h[i - 8]))
=============================================================================
