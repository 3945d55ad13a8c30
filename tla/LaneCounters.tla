---------------------------- MODULE LaneCounters ----------------------------
(***************************************************************************)
(* The block counters of the SIMD lanes.  A 64-bit counter reaches the     *)
(* compression function as two 32-bit words, so a group of lanes that      *)
(* counts up from a counter must carry from the low word into the high     *)
(* one, lane by lane.  The back ends compute the carry in three ways.      *)
(***************************************************************************)
EXTENDS Naturals, Sequences

CONSTANT Word   \* values of a word, 2^32 in the code

\* Sixteen lanes count up to 15, which must be less than half a word.
ASSUME LaneAssumption == Word \in Nat /\ Word % 2 = 0 /\ Word >= 32

Counters == 0 .. Word * Word - 1

counter_low(c) == c % Word
counter_high(c) == (c \div Word) % Word
advance(c, n) == (c + n) % (Word * Word)
high_bit(w) == w \div (Word \div 2)

\* The counter a lane sees, from its two words.
lane(low, high) == low + Word * (high % Word)

\* SSE2, SSE4.1, AVX2: the carry is 1 if the low word is below the delta that
\* was added to it, as unsigned numbers.
lane_by_compare(c, delta) ==
  LET low == (counter_low(c) + delta) % Word
  IN  lane(low, counter_high(c) + IF delta > low THEN 1 ELSE 0)

\* Mutant of lane_by_sign: the carry is lost.
lane_without_carry(c, delta) ==
  lane((counter_low(c) + delta) % Word, counter_high(c))

\* AVX-512, sixteen lanes: the carry is 1 if the high bit of the low word was
\* 1 before the addition and is 0 after.
lane_by_sign(c, delta) ==
  LET low == (counter_low(c) + delta) % Word
  IN  lane(low, counter_high(c) + high_bit(counter_low(c)) * (1 - high_bit(low)))

\* NEON, AVX-512 with four and eight lanes, and one input at a time: the whole
\* counter is added to and then split.
lane_by_split(c, delta) ==
  LET sum == advance(c, delta) IN lane(counter_low(sum), counter_high(sum))

\* The widths of the groups of each back end, widest first; each ends with
\* single inputs.  AVX2 leaves its rest to SSE4.1, or to the portable code in
\* a build without SSE4.1.
groups(backend) ==
  CASE backend = "avx512"   -> <<16, 8, 4, 1>>
    [] backend = "avx2"     -> <<8, 4, 1>>
    [] backend = "avx2_portable" -> <<8, 1>>
    [] backend \in {"sse41", "sse2", "neon"} -> <<4, 1>>
    [] backend = "portable" -> <<1>>

lane_counter(backend, width, c, delta) ==
  CASE width = 1 -> c
    [] backend = "avx512" /\ width = 16 -> lane_by_sign(c, delta)
    [] backend \in {"avx512", "neon"} /\ width \in {4, 8} -> lane_by_split(c, delta)
    [] OTHER -> lane_by_compare(c, delta)

\* The widest group that fits into what is left.
widest(backend, left) ==
  LET widths == groups(backend)
      fit == {i \in DOMAIN widths : widths[i] <= left}
  IN  widths[CHOOSE i \in fit : \A j \in fit : i <= j]

\* The counters of n inputs, group by group: while at least a group's width is
\* left it takes the widest one, and the counter moves on by that width.
\* Without increment_counter every lane, and every group, has the same one.
many_counters(backend, counter, n, increment) ==
  LET step(i) == IF increment THEN i ELSE 0
      from[done \in 0 .. n] ==    \* the counters once that many inputs are done
        LET w == widest(backend, n - done)
        IN  IF done = n THEN <<>>
            ELSE [i \in 1 .. w |-> lane_counter(backend, w, advance(counter, step(done)),
                                                step(i - 1))]
                 \o from[done + w]
  IN  from[0]
=============================================================================
