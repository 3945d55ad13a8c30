----------------------------- MODULE ChunkState -----------------------------
(***************************************************************************)
(* The blake3_chunk_state of c/blake3.c: the chunk being absorbed, with    *)
(* the chaining value of the blocks compressed so far and a buffer that    *)
(* holds back the last block until more input is known to follow.          *)
(***************************************************************************)
EXTENDS HashTree

EmptyBuf == DataBlock(0, 0)

chunk_state_init(key, counter, flags) ==
  [cv |-> key, counter |-> counter, blocks |-> 0, buf |-> EmptyBuf, flags |-> flags]

\* Mutants of chunk_state_reset: the next chunk keeps the number, the buffer or
\* the chaining value of the last one.
reset_keeping_counter(ch, key, counter) == chunk_state_init(key, ch.counter, ch.flags)
reset_keeping_buffer(ch, key, counter) ==
  [chunk_state_init(key, counter, ch.flags) EXCEPT !.buf = ch.buf]
reset_keeping_cv(ch, key, counter) == chunk_state_init(ch.cv, counter, ch.flags)

\* The flags survive a reset.
chunk_state_reset(ch, key, counter) == chunk_state_init(key, counter, ch.flags)

chunk_state_len(ch) == BlockLen * ch.blocks + ch.buf.len

start_flag(blocks) == IF blocks = 0 THEN {"CHUNK_START"} ELSE {}

\* Copy up to n input bytes, the first at position from, behind the buffer.
chunk_state_fill_buf(ch, from, n) ==
  [ch EXCEPT !.buf = DataBlock(IF @.len = 0 THEN from ELSE @.from,
                               @.len + AtMost(BlockLen - @.len, n))]

\* The chaining value after compressing k whole blocks read from position from.
compress_blocks(ch, from, k) ==
  LET cv[i \in 0 .. k] ==
        IF i = 0 THEN ch.cv
        ELSE output_chaining_value(
               make_output(cv[i - 1], DataBlock(from + (i - 1) * BlockLen, BlockLen),
                           BlockLen, ch.counter,
                           ch.flags \cup start_flag(ch.blocks + i - 1)))
  IN  cv[k]

\* The chunk after compressing k whole blocks and emptying the buffer.
after_blocks(ch, from, k) ==
  [ch EXCEPT !.cv = compress_blocks(ch, from, k), !.blocks = @ + k, !.buf = EmptyBuf]

\* Absorb n bytes, the first at position from.  A full buffer is compressed
\* only when input follows it, and of the rest the last block, even a whole
\* one, stays in the buffer.
chunk_state_update(ch, from, n) ==
  LET take   == IF ch.buf.len > 0 THEN AtMost(BlockLen - ch.buf.len, n) ELSE 0
      filled == IF ch.buf.len > 0 THEN chunk_state_fill_buf(ch, from, n) ELSE ch
      left   == n - take
      flushed == IF ch.buf.len > 0 /\ left > 0
                 THEN after_blocks(filled, filled.buf.from, 1) ELSE filled
      whole  == IF left > BlockLen THEN (left - 1) \div BlockLen ELSE 0
      run    == IF whole > 0 THEN after_blocks(flushed, from + take, whole) ELSE flushed
  IN  chunk_state_fill_buf(run, from + take + whole * BlockLen, left - whole * BlockLen)

chunk_state_output(ch) ==
  make_output(ch.cv, ch.buf, ch.buf.len, ch.counter,
              ch.flags \cup start_flag(ch.blocks) \cup {"CHUNK_END"})
=============================================================================
