---------------------------- MODULE KernelPortable ----------------------------
(***************************************************************************)
(* c/blake3_portable.c: the compression function one word at a time, which *)
(* is what every back end must compute.  Words are those of Vectors.  The  *)
(* round function is modelled down to its additions; seven rounds are the  *)
(* words <<"p", i, state, message>> (Permuted), which stand for the seven  *)
(* calls in every back end whose round function agrees with this one.      *)
(***************************************************************************)
EXTENDS Vectors, LaneCounters

IV == [i \in 0 .. 7 |-> <<"iv", i>>]

MSG_SCHEDULE ==
  [r \in 0 .. 6 |-> Vec(
    <<<<0, 1, 2, 3, 4, 5, 6, 7, 8, 9, 10, 11, 12, 13, 14, 15>>,
      <<2, 6, 3, 10, 7, 0, 4, 13, 1, 11, 12, 5, 9, 14, 15, 8>>,
      <<3, 4, 10, 12, 13, 2, 7, 14, 6, 5, 9, 0, 11, 15, 8, 1>>,
      <<10, 7, 12, 9, 14, 3, 13, 15, 4, 0, 11, 2, 5, 8, 1, 6>>,
      <<12, 13, 9, 11, 15, 10, 14, 8, 7, 2, 5, 3, 0, 1, 6, 4>>,
      <<9, 14, 11, 5, 8, 12, 15, 1, 13, 3, 0, 10, 2, 6, 4, 7>>,
      <<11, 15, 5, 0, 1, 9, 8, 6, 14, 10, 2, 12, 3, 4, 7, 13>>>>[r + 1])]

\* Quarter round on the words a, b, c, d of the state.
g(state, a, b, c, d, x, y) ==
  LET a1 == Add(Add(state[a], state[b]), x)
      d1 == Rotated(Xor(state[d], a1), 16)
      c1 == Add(state[c], d1)
      b1 == Rotated(Xor(state[b], c1), 12)
      a2 == Add(Add(a1, b1), y)
      d2 == Rotated(Xor(d1, a2), 8)
      c2 == Add(c1, d2)
      b2 == Rotated(Xor(b1, c2), 7)
  IN  [state EXCEPT ![a] = a2, ![b] = b2, ![c] = c2, ![d] = d2]

\* The columns, then the diagonals.
round_fn(state, msg, round) ==
  LET m(i) == msg[MSG_SCHEDULE[round][i]]
      s1 == g(state, 0, 4, 8, 12, m(0), m(1))
      s2 == g(s1, 1, 5, 9, 13, m(2), m(3))
      s3 == g(s2, 2, 6, 10, 14, m(4), m(5))
      s4 == g(s3, 3, 7, 11, 15, m(6), m(7))
      s5 == g(s4, 0, 5, 10, 15, m(8), m(9))
      s6 == g(s5, 1, 6, 11, 12, m(10), m(11))
      s7 == g(s6, 2, 7, 8, 13, m(12), m(13))
  IN  g(s7, 3, 4, 9, 14, m(14), m(15))

\* The words of the state after seven rounds.  A chaining value that came out
\* of one compression is written as that compression.
Permuted(state, msg) ==
  LET chained == /\ state[0][1] = "cv"
                 /\ \A j \in 1 .. 7 : state[j] = [state[0] EXCEPT ![2] = j]
      head == IF chained THEN <<"cv", state[0][3], state[0][4]>>
                         ELSE <<"words", [j \in 0 .. 7 |-> state[j]]>>
      before == <<head, [j \in 8 .. 15 |-> state[j]]>>
  IN  Array(16, LAMBDA i : <<"p", i, before, msg>>)

compress_pre(cv, block, block_len, counter, flags) ==
  Permuted(Vec(Words(cv) \o <<IV[0], IV[1], IV[2], IV[3], Number(counter_low(counter)),
                            Number(counter_high(counter)),
                              Number(block_len), <<"flags", flags>>>>),
           block)

compress_in_place_portable(cv, block, block_len, counter, flags) ==
  LET state == compress_pre(cv, block, block_len, counter, flags)
  IN  Array(8, LAMBDA i : Xor(state[i], state[i + 8]))

compress_xof_portable(cv, block, block_len, counter, flags) ==
  LET state == compress_pre(cv, block, block_len, counter, flags)
  IN  Array(16, LAMBDA i : IF i < 8 THEN Xor(state[i], state[i + 8])
                                    ELSE Xor(state[i], cv[i - 8]))

-----------------------------------------------------------------------------
\* Word w of a block of an input; the key; flags are sets of names.
BlockOf(input, block) == [w \in 0 .. 15 |-> <<"input", input, block, w>>]
Key == [i \in 0 .. 7 |-> <<"key", i>>]
BLOCK_LEN == 64

\* block_flags in the loop over the blocks of an input.
block_flags(flags, block, blocks) ==
  flags \cup (IF block = 0 THEN {"start"} ELSE {})
        \cup (IF block + 1 = blocks THEN {"end"} ELSE {})

\* hash_one with the back end's own compress_in_place; the words it stores.
hash_one(compress(_, _, _, _, _), input, blocks, counter, flags) ==
  LET cv[b \in 0 .. blocks] ==
        IF b = 0 THEN Key
        ELSE compress(cv[b - 1], BlockOf(input, b - 1), BLOCK_LEN, counter,
                      block_flags(flags, b - 1, blocks))
  IN  Words(cv[blocks])

hash_one_portable(input, blocks, counter, flags) ==
  hash_one(compress_in_place_portable, input, blocks, counter, flags)
=============================================================================
