------------------------------- MODULE Vectors -------------------------------
(***************************************************************************)
(* Words and SIMD vectors.  A word is the expression that computed it,     *)
(* never a number, so that two words are equal exactly when they were      *)
(* computed alike.  A vector is a function from its lanes, numbered from 0 *)
(* as in C, to words.  The operators named after intrinsics say what the   *)
(* intrinsics of x86 and of NEON do to the lanes; they are external to the *)
(* repository.                                                             *)
(***************************************************************************)
EXTENDS Naturals, Sequences, FiniteSets, Bags

Zero == <<"number", 0>>
Number(n) == <<"number", n>>

\* Addition is associative and commutative: a sum is the bag of its terms.
Add(a, b) ==
  LET terms(w) == IF w[1] = "sum" THEN w[2] ELSE SetToBag({w})
  IN  <<"sum", terms(a) (+) terms(b)>>

\* After the seven rounds word i of the state is <<"p", i, state, message>>,
\* and the chaining value's word i is word i of it xored with word i + 8.
Xor(a, b) ==
  IF a[1] = "p" /\ b[1] = "p" /\ a[2] + 8 = b[2] /\ a[3] = b[3] /\ a[4] = b[4]
  THEN <<"cv", a[2], a[3], a[4]>>
  ELSE <<"xor", {a, b}>>

Rotated(w, n) == IF n = 0 THEN w ELSE <<"rotated", n, w>>

\* A word shifted right by n, or'd or xored with the same word shifted left by m.
ShiftedTogether(w, n, m) == IF n + m = 32 THEN Rotated(w, n) ELSE <<"shifted", n, m, w>>

Vec(words) == [i \in 0 .. Len(words) - 1 |-> words[i + 1]]

\* n elements numbered from 0, each of them computed once (SubSeq has TLC do so).
Array(n, elem(_)) == Vec(SubSeq([i \in 1 .. n |-> elem(i - 1)], 1, n))
Lanes(a, word(_)) == Array(Cardinality(DOMAIN a), word)

Words(vec) == [i \in 1 .. Cardinality(DOMAIN vec) |-> vec[i - 1]]
set1(width, word) == Array(width, LAMBDA i : word)
add(a, b) == Lanes(a, LAMBDA i : Add(a[i], b[i]))
xor(a, b) == Lanes(a, LAMBDA i : Xor(a[i], b[i]))
ror(a, n) == Lanes(a, LAMBDA i : Rotated(a[i], n))
shifts(a, n, m) == Lanes(a, LAMBDA i : ShiftedTogether(a[i], n, m))

\* The words of consecutive vectors, as they are stored.
Stored(vecs) == [i \in 1 .. Len(vecs) * Len(Words(vecs[1])) |->
                   LET width == Len(Words(vecs[1]))
                   IN  vecs[((i - 1) \div width) + 1][(i - 1) % width]]

-----------------------------------------------------------------------------
MM_SHUFFLE(z, y, x, w) == <<w, x, y, z>>
bit(imm, i) == (imm \div 2 ^ i) % 2
two_bits(imm, i) == (imm \div 4 ^ i) % 4

\* Byte j of word i takes the value of byte mask[4i + j], counted within the
\* word's group of four words: a rotation of the word, or no word the hash
\* function knows.
shuffle_epi8(a, mask) ==
  Lanes(a, LAMBDA i :
     LET m == [j \in 0 .. 3 |-> mask[(4 * (i % 4)) + j + 1]]
     IN  IF \A j \in 0 .. 3 : m[j] = 4 * (i % 4) + ((m[0] + j) % 4)
         THEN Rotated(a[i], 8 * (m[0] % 4))
         ELSE <<"bytes", m, a[i]>>)

\* shufflelo (pair 0) and shufflehi (pair 1): four 16-bit halves are moved.
shuffle_epi16(a, pair, imm) ==
  LET from(h) == IF h \div 4 = pair THEN 4 * pair + two_bits(imm, h % 4) ELSE h
  IN  shuffle_epi8(a, [k \in 1 .. 16 |-> 2 * from((k - 1) \div 2) + ((k - 1) % 2)])

shuffle_epi32(a, order) == Lanes(a, LAMBDA i : a[order[i + 1]])
shuffle_ps(a, b, order) ==
  Vec(<<a[order[1]], a[order[2]], b[order[3]], b[order[4]]>>)

\* mask says of each 16-bit half whether it is b's.  A word is taken whole only
\* if both its halves are.
blend_halves(a, b, mask) ==
  Lanes(a, LAMBDA i :
     LET halves == <<mask[2 * i], mask[2 * i + 1]>>
     IN  CASE halves = <<1, 1>> -> b[i]
           [] halves = <<0, 0>> -> a[i]
           [] OTHER -> <<"halves", halves, a[i], b[i]>>)
mm_blend_epi16(a, b, imm8) == blend_halves(a, b, [h \in 0 .. 7 |-> bit(imm8, h)])

\* The wider vectors are unpacked four words at a time.
Quads(a, b, order) ==
  Lanes(a, LAMBDA i :
     LET from == order[(i % 4) + 1]
         base == 4 * (i \div 4)
     IN  IF from < 4 THEN a[base + from] ELSE b[base + from - 4])
unpacklo_epi32(a, b) == Quads(a, b, <<0, 4, 1, 5>>)
unpackhi_epi32(a, b) == Quads(a, b, <<2, 6, 3, 7>>)
unpacklo_epi64(a, b) == Quads(a, b, <<0, 1, 4, 5>>)
unpackhi_epi64(a, b) == Quads(a, b, <<2, 3, 6, 7>>)

\* Quads of two vectors, chosen by number.
quad(a, n) == [i \in 1 .. 4 |-> a[4 * n + i - 1]]
permute2x128(a, b, imm8) ==
  LET half(n) == IF n < 2 THEN quad(a, n) ELSE quad(b, n - 2)
  IN  Vec(half(two_bits(imm8, 0)) \o half(two_bits(imm8, 2)))
shuffle_i32x4(a, b, imm8) ==
  Vec(quad(a, two_bits(imm8, 0)) \o quad(a, two_bits(imm8, 1))
      \o quad(b, two_bits(imm8, 2)) \o quad(b, two_bits(imm8, 3)))

\* NEON: the pairs of vtrnq_u32, and halves put together.
trn_val(a, b, k) == Vec(<<a[k], b[k], a[k + 2], b[k + 2]>>)
combine(a, i, b, j) == Vec(<<a[i], a[i + 1], b[j], b[j + 1]>>)
=============================================================================
