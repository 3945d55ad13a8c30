---------------------------- MODULE OutputReader ----------------------------
(***************************************************************************)
(* Extendable output: the OutputReader of the Rust crate (src/lib.rs),     *)
(* which keeps a block counter and a position within the block, and        *)
(* output_root_bytes of c/blake3.c, which is given a position by its       *)
(* caller.  Both read whole blocks with xof_many, in groups of lanes on    *)
(* AVX-512, and the first and the last piece from single blocks.           *)
(***************************************************************************)
EXTENDS LaneCounters, Integers

CONSTANTS BlockLen,      \* BLOCK_LEN, 64 in the code
          MaxPosition,   \* u64::MAX in the code
          MaxRead,       \* bound on the length of a read
          SeekPositions, \* targets of the seeks from the start
          SeekOffsets    \* offsets of the seeks from the position

ASSUME OutputAssumption ==
  /\ BlockLen \in Nat \ {0}
  /\ MaxPosition \in Nat /\ MaxPosition + 1 <= BlockLen * Word * Word
  /\ MaxRead \in Nat
  /\ SeekPositions \subseteq Int /\ SeekOffsets \subseteq Int

VARIABLES counter,    \* inner.counter
          within,     \* position_within_block
          library,    \* "rust" or "c": which implementation is used
          backend,    \* the back end of xof_many on this machine
          returned    \* what the last call returned and the caller has not used

reader == <<counter, within, library, backend, returned>>

position == counter * BlockLen + within

ReaderInit ==
  /\ counter = 0
  /\ within = 0
  /\ library \in {"rust", "c"}
  /\ backend \in {"avx512", "portable"}
  /\ returned = <<>>

-----------------------------------------------------------------------------
\* Bytes from offset from on of the output block that the counter c selects.
block_bytes(c, from, n) == [i \in 1 .. n |-> <<c, from + i - 1>>]

\* The blocks from counter c on, in groups of lanes on AVX-512.
xof_many(c, blocks) ==
  LET counters == many_counters(backend, c, blocks, TRUE)
  IN  [i \in 1 .. blocks * BlockLen |->
         <<counters[((i - 1) \div BlockLen) + 1], (i - 1) % BlockLen>>]

AtMost(a, b) == IF a < b THEN a ELSE b

\* fill_one_block on a reader [counter, within, out] with n bytes to go.
fill_one_block(r, n) ==
  LET take == AtMost(n, BlockLen - r.within)
      full == r.within + take = BlockLen
  IN  [counter |-> IF full THEN r.counter + 1 ELSE r.counter,
       within  |-> IF full THEN 0 ELSE r.within + take,
       out     |-> r.out \o block_bytes(r.counter, r.within, take)]

\* fill: to a block boundary, then whole blocks, then the rest.
Fill(n) ==
  /\ library = "rust"
  /\ returned = <<>>
  /\ position + n <= MaxPosition
  /\ LET start  == [counter |-> counter, within |-> within, out |-> <<>>]
         edge   == IF n > 0 /\ within # 0 THEN fill_one_block(start, n) ELSE start
         blocks == (n - Len(edge.out)) \div BlockLen
         many   == [edge EXCEPT !.counter = @ + blocks,
                                !.out = @ \o xof_many(edge.counter, blocks)]
         left   == n - Len(many.out)
         done   == IF left > 0 THEN fill_one_block(many, left) ELSE many
     IN  /\ counter' = done.counter
         /\ within' = done.within
         /\ returned' = done.out
  /\ UNCHANGED <<library, backend>>

\* set_position and Seek::seek, whose target is clamped to the last position
\* and refused when it is negative.
SeekTo(target) ==
  /\ library = "rust"
  /\ returned = <<>>
  /\ IF target < 0 THEN UNCHANGED <<counter, within>>
     ELSE LET p == AtMost(target, MaxPosition)
          IN  counter' = p \div BlockLen /\ within' = p % BlockLen
  /\ UNCHANGED <<library, backend, returned>>

\* output_root_bytes of the C implementation: the reader is not involved.
output_root_bytes(seek, n) ==
  /\ library = "c"
  /\ returned = <<>>
  /\ seek + n <= MaxPosition
  /\ LET c      == seek \div BlockLen
         offset == seek % BlockLen
         edge   == IF offset > 0 THEN AtMost(n, BlockLen - offset) ELSE 0
         c1     == IF n > 0 /\ offset > 0 THEN c + 1 ELSE c
         blocks == (n - edge) \div BlockLen
         left   == (n - edge) % BlockLen
     IN  returned' = block_bytes(c, offset, edge) \o xof_many(c1, blocks)
                     \o block_bytes(c1 + blocks, 0, left)
  /\ UNCHANGED <<counter, within, library, backend>>

\* The caller uses the bytes of the last call before it makes the next one.
Use ==
  /\ returned # <<>>
  /\ returned' = <<>>
  /\ UNCHANGED <<counter, within, library, backend>>

ReaderNext ==
  \/ Use
  \/ \E n \in 0 .. MaxRead : Fill(n)
  \/ \E p \in SeekPositions : SeekTo(p)
  \/ \E d \in SeekOffsets : SeekTo(position + d)
  \/ \E p \in 0 .. MaxPosition, n \in 0 .. MaxRead : output_root_bytes(p, n)

ReaderSpec == ReaderInit /\ [][ReaderNext]_reader

-----------------------------------------------------------------------------
\* However a caller cuts its reads, and wherever it seeks, it sees the one
\* stream: the reader, and the C function, implement OutputStream.
Stream == INSTANCE OutputStream
StreamSpec == Stream!Spec
=============================================================================
