------------------------------ MODULE RowKernel ------------------------------
(***************************************************************************)
(* The kernel that compresses one block: its state is four rows of four    *)
(* words, its message four vectors that are shuffled into the order of the *)
(* next round while the rounds run.  The text is the same in               *)
(* c/blake3_sse2.c, blake3_sse41.c and blake3_avx512.c, up to the names of *)
(* the vector operations; the back ends instantiate this module with their *)
(* own rotations and blend.  Rounds 3 to 7 of the code repeat round 2.     *)
(***************************************************************************)
EXTENDS KernelPortable

CONSTANTS rot16(_), rot12(_), rot8(_), rot7(_), blend_epi16(_, _, _)

\* rows is <<row0, row1, row2, row3>>.
quarters(rows, m, rotd(_), rotb(_)) ==
  LET row0 == add(add(rows[1], m), rows[2])
      row3 == rotd(xor(rows[4], row0))
      row2 == add(rows[3], row3)
      row1 == rotb(xor(rows[2], row2))
  IN  <<row0, row1, row2, row3>>

g1(rows, m) == quarters(rows, m, rot16, rot12)
g2(rows, m) == quarters(rows, m, rot8, rot7)

\* row1 is the row that is left alone.
diagonalize(rows) ==
  <<shuffle_epi32(rows[1], MM_SHUFFLE(2, 1, 0, 3)), rows[2],
    shuffle_epi32(rows[3], MM_SHUFFLE(0, 3, 2, 1)),
    shuffle_epi32(rows[4], MM_SHUFFLE(1, 0, 3, 2))>>

undiagonalize(rows) ==
  <<shuffle_epi32(rows[1], MM_SHUFFLE(0, 3, 2, 1)), rows[2],
    shuffle_epi32(rows[3], MM_SHUFFLE(2, 1, 0, 3)),
    shuffle_epi32(rows[4], MM_SHUFFLE(1, 0, 3, 2))>>

\* The message in the order round 1 uses it, from the order of the block.
first_groups(m) ==
  <<shuffle_ps(m[1], m[2], MM_SHUFFLE(2, 0, 2, 0)),
    shuffle_ps(m[1], m[2], MM_SHUFFLE(3, 1, 3, 1)),
    shuffle_epi32(shuffle_ps(m[3], m[4], MM_SHUFFLE(2, 0, 2, 0)), MM_SHUFFLE(2, 1, 0, 3)),
    shuffle_epi32(shuffle_ps(m[3], m[4], MM_SHUFFLE(3, 1, 3, 1)), MM_SHUFFLE(2, 1, 0, 3))>>

\* Mutant of next_groups: the blend takes three words instead of two.
groups_blend_CC(m) ==
  <<shuffle_epi32(shuffle_ps(m[1], m[2], MM_SHUFFLE(3, 1, 1, 2)), MM_SHUFFLE(0, 3, 2, 1)),
    blend_epi16(shuffle_epi32(m[1], MM_SHUFFLE(0, 0, 3, 3)),
                shuffle_ps(m[3], m[4], MM_SHUFFLE(3, 3, 2, 2)), \hCC),
    shuffle_epi32(blend_epi16(unpacklo_epi64(m[4], m[2]), m[3], \hCC), MM_SHUFFLE(1, 3, 2, 0)),
    shuffle_epi32(unpacklo_epi32(m[3], unpackhi_epi32(m[2], m[4])), MM_SHUFFLE(0, 1, 3, 2))>>

\* The order of every later round, from the order of the round before.
next_groups(m) ==
  <<shuffle_epi32(shuffle_ps(m[1], m[2], MM_SHUFFLE(3, 1, 1, 2)), MM_SHUFFLE(0, 3, 2, 1)),
    blend_epi16(shuffle_epi32(m[1], MM_SHUFFLE(0, 0, 3, 3)),
                shuffle_ps(m[3], m[4], MM_SHUFFLE(3, 3, 2, 2)), \hCC),
    shuffle_epi32(blend_epi16(unpacklo_epi64(m[4], m[2]), m[3], \hC0), MM_SHUFFLE(1, 3, 2, 0)),
    shuffle_epi32(unpacklo_epi32(m[3], unpackhi_epi32(m[2], m[4])), MM_SHUFFLE(0, 1, 3, 2))>>

round(rows, t) ==
  undiagonalize(g2(g1(diagonalize(g2(g1(rows, t[1]), t[2])), t[3]), t[4]))

\* Four vectors from sixteen words in memory, and back.
loaded(words) == [v \in 1 .. 4 |-> [i \in 0 .. 3 |-> words[4 * (v - 1) + i]]]
words_of(vecs) == [w \in 0 .. 15 |-> vecs[w \div 4 + 1][w % 4]]

\* The rows after seven rounds: those of the portable code, as round agrees.
compress_pre_rows(cv, block, block_len, counter, flags) ==
  loaded(Permuted(Vec(Words(cv) \o <<IV[0], IV[1], IV[2], IV[3],
                                     Number(counter_low(counter)), Number(counter_high(counter)),
                                     Number(block_len), <<"flags", flags>>>>),
                  block))

compress_in_place(cv, block, block_len, counter, flags) ==
  LET rows == compress_pre_rows(cv, block, block_len, counter, flags)
  IN  Vec(Stored(<<xor(rows[1], rows[3]), xor(rows[2], rows[4])>>))

compress_xof(cv, block, block_len, counter, flags) ==
  LET rows == compress_pre_rows(cv, block, block_len, counter, flags)
      lo == [i \in 0 .. 3 |-> cv[i]]
      hi == [i \in 0 .. 3 |-> cv[i + 4]]
  IN  Vec(Stored(<<xor(rows[1], rows[3]), xor(rows[2], rows[4]),
                   xor(rows[3], lo), xor(rows[4], hi)>>))
=============================================================================
