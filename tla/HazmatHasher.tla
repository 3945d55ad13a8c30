---------------------------- MODULE HazmatHasher ----------------------------
(***************************************************************************)
(* The Hasher of the Rust crate (src/lib.rs) with the subtree interface of *)
(* src/hazmat.rs: a caller hashes a part of a message that begins at a     *)
(* chunk boundary with a hasher whose input offset it sets, keeps the      *)
(* chaining value, and merges it with the one of the next part.            *)
(*                                                                         *)
(* An assert that fails unwinds out of the call: the step is not taken.    *)
(* The debug_asserts are not guards, they are checked.                     *)
(***************************************************************************)
EXTENDS ChunkState

CONSTANTS MaxTotal,            \* bound on the length of the whole message
          ReuseOffsetHashers   \* whether callers reset() a hasher that has an input offset

ASSUME HazmatAssumption == MaxTotal \in Nat /\ ReuseOffsetHashers \in BOOLEAN

VARIABLES initial,   \* initial_chunk_counter
          chunk,     \* chunk_state
          stack,     \* cv_stack
          rem,       \* input.len() in update_with_join
          pc,        \* "idle" between calls, "loop" inside update_with_join
          held       \* what the caller keeps: the part hashed so far and its value,
                     \* which may be the hash of a whole message

vars == <<initial, chunk, stack, rem, pc, held>>

key == UserKey
flags == {"KEYED_HASH"}
Nothing == [chunk |-> 0, len |-> 0, value |-> <<"none">>, root |-> FALSE]

\* Hasher::new_internal.
new == [initial |-> 0, chunk |-> chunk_state_init(key, 0, flags), stack |-> <<>>]

Init ==
  /\ initial = new.initial /\ chunk = new.chunk /\ stack = new.stack
  /\ rem = 0
  /\ pc = "idle"
  /\ held = Nothing

\* Bytes given to update so far.
count == (chunk.counter - initial) * ChunkLen + chunk_state_len(chunk)

\* Where the next byte lies in the whole message.
at == chunk.counter * ChunkLen + chunk_state_len(chunk)

\* The largest power of two that divides a positive number.
trailing_power[c \in Nat \ {0}] == IF c % 2 = 0 THEN 2 * trailing_power[c \div 2] ELSE 1

\* Whether n more bytes fit in the subtree that begins at the input offset.
within_max_subtree_len(n) ==
  initial > 0 => n <= trailing_power[initial] * ChunkLen - count

-----------------------------------------------------------------------------
(* The stack. *)

\* Mutant of merge_goal: one merge too few.
merge_goal_late(counter) == popcnt[counter - initial] + 1

\* The number of 1 bits of the chunks since the input offset.
merge_goal(counter) == popcnt[counter - initial]

\* merge_cv_stack.
merge_cv_stack(s, counter) ==
  LET parent(l, r) == output_chaining_value(parent_output(l, r, key, flags))
      goal == merge_goal(counter)
      merged[n \in 0 .. Len(s)] ==   \* s merged down to n entries
        IF n = Len(s) THEN s
        ELSE LET t == merged[n + 1]
             IN  Append(SubSeq(t, 1, n - 1), parent(t[n], t[n + 1]))
  IN  IF Len(s) > goal THEN merged[goal] ELSE s

push_cv(s, cv, counter) == Append(merge_cv_stack(s, counter), cv)

-----------------------------------------------------------------------------
(* update. *)

\* The call, up to and including the end of a partial chunk.
UpdateCall(n) ==
  /\ pc = "idle"
  /\ at + n <= MaxTotal
  /\ within_max_subtree_len(n)
  /\ LET partial == chunk_state_len(chunk)
         take == IF partial > 0 THEN AtMost(ChunkLen - partial, n) ELSE 0
         full == chunk_state_update(chunk, at, take)
     IN  /\ rem' = n - take
         /\ IF partial = 0
            THEN pc' = "loop" /\ UNCHANGED <<chunk, stack>>
            ELSE IF n > take
            THEN /\ stack' = push_cv(stack, output_chaining_value(chunk_state_output(full)),
                                     chunk.counter)
                 /\ chunk' = chunk_state_init(key, chunk.counter + 1, flags)
                 /\ pc' = "loop"
            ELSE /\ chunk' = full
                 /\ UNCHANGED <<stack, pc>>
  /\ UNCHANGED <<initial, held>>

subtree_len(input_len) ==
  halved_until_aligned(chunk.counter * ChunkLen)[round_down_to_power_of_2[input_len]]

\* One iteration of the loop over subtrees.
UpdateSubtree ==
  /\ pc = "loop"
  /\ rem > ChunkLen
  /\ LET len  == subtree_len(rem)
         k    == len \div ChunkLen
         c    == chunk.counter
         one  == chunk_state_update(chunk_state_init(key, c, flags), at, len)
         half(i) == SubtreeCV(key, flags, c + i * (k \div 2), (k \div 2) * ChunkLen)
     IN  /\ stack' = IF len <= ChunkLen
                     THEN push_cv(stack, output_chaining_value(chunk_state_output(one)), c)
                     ELSE push_cv(push_cv(stack, half(0), c), half(1), c + k \div 2)
         /\ chunk' = [chunk EXCEPT !.counter = @ + k]
         /\ rem' = rem - len
  /\ UNCHANGED <<initial, pc, held>>

\* What remains is one chunk or less.
UpdateTail ==
  /\ pc = "loop"
  /\ rem <= ChunkLen
  /\ IF rem > 0
     THEN /\ chunk' = chunk_state_update(chunk, at, rem)
          /\ stack' = merge_cv_stack(stack, chunk.counter)
     ELSE UNCHANGED <<chunk, stack>>
  /\ rem' = 0
  /\ pc' = "idle"
  /\ UNCHANGED <<initial, held>>

-----------------------------------------------------------------------------
(* set_input_offset, reset, finalize_non_root and the merges. *)

\* The new offset is a chunk boundary, counted here in chunks.
SetInputOffset(counter) ==
  /\ pc = "idle"
  /\ count = 0
  /\ counter * ChunkLen <= MaxTotal
  /\ chunk' = [chunk EXCEPT !.counter = counter]
  /\ initial' = counter
  /\ UNCHANGED <<stack, rem, pc, held>>

\* The chunk state and the stack are made anew.
Reset ==
  /\ pc = "idle"
  /\ initial = 0 \/ ReuseOffsetHashers
  /\ chunk' = chunk_state_init(key, 0, chunk.flags)
  /\ stack' = <<>>
  /\ UNCHANGED <<initial, rem, pc, held>>

\* The caller drops the hasher and makes another.
NewHasher ==
  /\ pc = "idle"
  /\ initial' = new.initial /\ chunk' = new.chunk /\ stack' = new.stack
  /\ UNCHANGED <<rem, pc, held>>

from_chunk == stack = <<>> \/ chunk_state_len(chunk) > 0

final_output ==
  LET base == IF from_chunk THEN Len(stack) ELSE Len(stack) - 2
      output[i \in 0 .. base] ==
        IF i = base
        THEN IF from_chunk THEN chunk_state_output(chunk)
             ELSE parent_output(stack[base + 1], stack[base + 2], key, flags)
        ELSE parent_output(stack[i + 1], output_chaining_value(output[i + 1]), key, flags)
  IN  output[0]

\* Mutant of hazmat_left_subtree_len: rounded down.
left_half_rounded_down(n) == round_down_to_power_of_2[(n + 1) \div 2]

\* left_subtree_len of hazmat.rs, which is not the formula of the hasher:
\* half the bytes, rounded up to a power of two.
hazmat_left_subtree_len(n) ==
  LET half == (n + 1) \div 2
      r    == round_down_to_power_of_2[half]
  IN  IF r = half THEN half ELSE 2 * r

\* finalize_non_root: the caller keeps the first value.
KeepSubtree ==
  /\ pc = "idle"
  /\ count # 0
  /\ held' = [chunk |-> initial, len |-> count,
              value |-> output_chaining_value(final_output), root |-> FALSE]
  /\ UNCHANGED <<initial, chunk, stack, rem, pc>>

\* What a caller merges: the part just hashed follows the part held, and the
\* two are the sides of a node of the tree.
sides_of_a_node ==
  /\ count # 0
  /\ held.len > 0
  /\ ~held.root
  /\ held.chunk * ChunkLen + held.len = initial * ChunkLen
  /\ held.len = hazmat_left_subtree_len(held.len + count)

\* merge_subtrees_inner, on the part held and the part just hashed.
merge_subtrees_inner ==
  parent_output(held.value, output_chaining_value(final_output), key, flags)

\* finalize_non_root and merge_subtrees_non_root.
MergeSubtree ==
  /\ pc = "idle"
  /\ sides_of_a_node
  /\ held' = [held EXCEPT !.len = @ + count,
                          !.value = output_chaining_value(merge_subtrees_inner)]
  /\ UNCHANGED <<initial, chunk, stack, rem, pc>>

\* finalize_non_root and merge_subtrees_root: the two parts are a whole message.
MergeRoot ==
  /\ pc = "idle"
  /\ sides_of_a_node
  /\ held.chunk = 0
  /\ held' = [held EXCEPT !.len = @ + count,
                          !.value = output_root(merge_subtrees_inner),
                          !.root = TRUE]
  /\ UNCHANGED <<initial, chunk, stack, rem, pc>>

Next ==
  \/ \E n \in 1 .. MaxTotal : UpdateCall(n)
  \/ UpdateSubtree
  \/ UpdateTail
  \/ \E c \in 0 .. (MaxTotal \div ChunkLen) : SetInputOffset(c)
  \/ Reset
  \/ NewHasher
  \/ KeepSubtree
  \/ MergeSubtree
  \/ MergeRoot

Spec == Init /\ [][Next]_vars

-----------------------------------------------------------------------------
\* The debug_asserts of update_with_join and final_output, which a release
\* build does not make: the chunk state is clear in the loop over subtrees,
\* halving never leaves less than a chunk, and when the hasher is idle the
\* length of the stack is what final_output takes it to be.  The others repeat
\* the condition they stand behind, or that ChunkLen is a power of two.
DebugAssertsHold ==
  /\ pc = "loop" => chunk_state_len(chunk) = 0
  /\ pc = "loop" /\ rem > ChunkLen => subtree_len(rem) >= ChunkLen
  /\ pc = "idle" =>
       IF stack = <<>> THEN chunk.counter = initial
       ELSE IF chunk_state_len(chunk) > 0
            THEN Len(stack) = popcnt[chunk.counter - initial]
            ELSE Len(stack) >= 2

\* Parts hashed by different hashers and merged by the rule of
\* left_subtree_len are the same node of the tree as if hashed at once, and a
\* message hashed in parts has the hash of the message.
MergedIsWholeTree ==
  held.len > 0 =>
    held.value = IF held.root THEN Hash(key, flags, held.len)
                 ELSE SubtreeCV(key, flags, held.chunk, held.len)

\* "This is functionally the same as overwriting the Hasher with a new one,
\* using the same key or context string if any." (src/lib.rs, reset)
ResetIsNew ==
  [][ Reset => [initial |-> initial', chunk |-> chunk', stack |-> stack'] = new ]_vars
=============================================================================
