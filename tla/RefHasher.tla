----------------------------- MODULE RefHasher ------------------------------
(***************************************************************************)
(* The hasher of reference_impl/reference_impl.rs: one chunk at a time,    *)
(* merging eagerly, as soon as the number of chunks shows that a subtree   *)
(* is complete.  It can, because a full chunk waits in the chunk state     *)
(* until more input is known to follow.  It implements the same StreamHash *)
(* as the lazily merging hasher of Blake3Hasher.                           *)
(***************************************************************************)
EXTENDS ChunkState

CONSTANTS Modes,      \* initialisers used: subset of {"hash", "keyed", "derive"}
          MaxDepth,   \* slots of cv_stack, 54 in the code
          MaxTotal    \* bound on the bytes absorbed

\* The stack has a slot for each bit of the number of a chunk: 54 slots for 2^64
\* bytes in chunks of 2^10.
ASSUME RefHasherAssumption ==
  /\ Modes \subseteq {"hash", "keyed", "derive"}
  /\ MaxDepth \in Nat
  /\ MaxTotal \in Nat
  /\ MaxTotal <= ChunkLen * 2 ^ MaxDepth

VARIABLES mode,     \* which constructor built the hasher
          chunk,    \* chunk_state
          stack,    \* cv_stack and cv_stack_len
          pos,      \* bytes taken from the inputs so far
          rem,      \* input.len() in update
          pc,       \* "idle" between calls, "update" inside one
          digest    \* what the last call returned

vars == <<mode, chunk, stack, pos, rem, pc, digest>>

NoDigest == <<"none">>
ContextLen == 2 * ChunkLen - 1

key == ModeKey(mode, ContextLen)
flags == ModeFlags(mode)

\* new, new_keyed and new_derive_key.
Init ==
  /\ mode \in Modes
  /\ chunk = chunk_state_init(ModeKey(mode, ContextLen), 0, ModeFlags(mode))
  /\ stack = <<>>
  /\ pos = 0
  /\ rem = 0
  /\ pc = "idle"
  /\ digest = NoDigest

\* ChunkState::update: compress a full buffer, then copy, in a loop that takes
\* at least one of the n bytes from position from each time around.
update_chunk(ch, from, n) ==
  LET copy(st) ==
        LET c == IF st.ch.buf.len = BlockLen
                 THEN after_blocks(st.ch, st.ch.buf.from, 1) ELSE st.ch
            take == AtMost(BlockLen - c.buf.len, n - st.taken)
        IN  [ch |-> chunk_state_fill_buf(c, from + st.taken, take), taken |-> st.taken + take]
      after[i \in 0 .. n] ==
        IF i = 0 THEN [ch |-> ch, taken |-> 0]
        ELSE LET st == after[i - 1] IN IF st.taken = n THEN st ELSE copy(st)
  IN  after[n].ch

\* Mutant of parent_cv: the sides exchanged.
parent_cv_swapped(left, right) ==
  output_chaining_value(parent_output(right, left, key, flags))

parent_cv(left, right) == output_chaining_value(parent_output(left, right, key, flags))

trailing_zeros[n \in Nat \ {0}] == IF n % 2 = 0 THEN 1 + trailing_zeros[n \div 2] ELSE 0

\* Mutant of add_chunk_chaining_value: one merge at most.
add_merging_once(cv, total_chunks) ==
  IF total_chunks % 2 = 0
  THEN Append(SubSeq(stack, 1, Len(stack) - 1), parent_cv(stack[Len(stack)], cv))
  ELSE Append(stack, cv)

\* add_chunk_chaining_value: the new chaining value is merged with the top of
\* the stack once for each trailing 0 bit of the total number of chunks.
add_chunk_chaining_value(cv, total_chunks) ==
  LET merges == trailing_zeros[total_chunks]
      merged[i \in 0 .. merges] ==
        IF i = 0 THEN cv ELSE parent_cv(stack[Len(stack) - i + 1], merged[i - 1])
  IN  Append(SubSeq(stack, 1, Len(stack) - merges), merged[merges])

-----------------------------------------------------------------------------
UpdateCall(n) ==
  /\ pc = "idle"
  /\ pos + n <= MaxTotal
  /\ rem' = n
  /\ pc' = "update"
  /\ digest' = NoDigest
  /\ UNCHANGED <<mode, chunk, stack, pos>>

\* Bytes that the chunk still takes.
want(ch) == ChunkLen - chunk_state_len(ch)

\* One iteration of update's loop.  More input is coming, so a full chunk is
\* not the root.
UpdateIteration ==
  /\ pc = "update"
  /\ rem > 0
  /\ LET full == chunk_state_len(chunk) = ChunkLen
         cur  == IF full THEN chunk_state_init(key, chunk.counter + 1, flags) ELSE chunk
         take == AtMost(want(cur), rem)
     IN  /\ stack' = IF full
                     THEN add_chunk_chaining_value(
                            output_chaining_value(chunk_state_output(chunk)),
                            chunk.counter + 1)
                     ELSE stack
         /\ chunk' = update_chunk(cur, pos, take)
         /\ pos' = pos + take
         /\ rem' = rem - take
  /\ UNCHANGED <<mode, pc, digest>>

UpdateReturn ==
  /\ pc = "update"
  /\ rem = 0
  /\ pc' = "idle"
  /\ UNCHANGED <<mode, chunk, stack, pos, rem, digest>>

\* finalize: the parents along the right edge of the tree, from the current
\* chunk up.
final_output ==
  LET output[remaining \in 0 .. Len(stack)] ==
        IF remaining = Len(stack) THEN chunk_state_output(chunk)
        ELSE parent_output(stack[remaining + 1],
                           output_chaining_value(output[remaining + 1]), key, flags)
  IN  output[0]

Finalize ==
  /\ pc = "idle"
  /\ digest' = output_root(final_output)
  /\ UNCHANGED <<mode, chunk, stack, pos, rem, pc>>

Next ==
  \/ \E n \in 1 .. MaxTotal : UpdateCall(n)
  \/ UpdateIteration
  \/ UpdateReturn
  \/ Finalize

Spec == Init /\ [][Next]_vars

-----------------------------------------------------------------------------
\* The stack holds one chaining value for each 1 bit of the number of chunks
\* completed, so it never needs more than MaxDepth slots: unlike the lazily
\* merging hasher, which needs one more.
StackIsBinaryCounter ==
  /\ Len(stack) = popcnt[chunk.counter]
  /\ Len(stack) <= MaxDepth

\* The reference hasher is a StreamHash.
Stream == INSTANCE StreamHash WITH absorbed <- pos + rem
StreamSpec == Stream!Spec
=============================================================================
