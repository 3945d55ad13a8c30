---------------------------- MODULE Blake3Hasher ----------------------------
(***************************************************************************)
(* The incremental hasher of c/blake3.c.                                   *)
(*                                                                         *)
(* A call of blake3_hasher_update runs to its end before the next call;    *)
(* inside it, each iteration of its loops and each merge and push of the   *)
(* stack is a step, so that what must hold in the middle of an update (the *)
(* room left in the stack, what has been compressed for good) is visible.  *)
(*                                                                         *)
(* A stack entry is the chaining value of a subtree together with two      *)
(* auxiliary fields the code does not keep, the first chunk and the number *)
(* of chunks it stands for.  The code never reads them: it finds out what  *)
(* to merge from the number of 1 bits of a chunk counter.                  *)
(***************************************************************************)
EXTENDS ChunkState

CONSTANTS Modes,      \* initialisers used: subset of {"hash", "keyed", "derive"}
          MaxDepth,   \* BLAKE3_MAX_DEPTH, 54 in the code
          MaxTotal    \* bound on the bytes absorbed between two resets

\* A message fits in 2^MaxDepth chunks, as 2^64 bytes fit in 2^54 chunks.
ASSUME HasherAssumption ==
  /\ Modes \subseteq {"hash", "keyed", "derive"}
  /\ MaxDepth \in Nat
  /\ MaxTotal \in Nat
  /\ MaxTotal <= ChunkLen * 2 ^ MaxDepth

VARIABLES mode,     \* which initialiser built the hasher (not kept by the code)
          key,      \* self->key
          chunk,    \* self->chunk
          stack,    \* self->cv_stack and self->cv_stack_len
          pc,       \* where in blake3_hasher_update the hasher is
          pos,      \* bytes taken from the inputs so far, the position of input_bytes
          rem,      \* input_len: bytes of the current input not yet taken
          pushes,   \* calls of hasher_push_cv still to make: entries and counters
          digest    \* what the last call returned: a digest, or NoDigest

vars == <<mode, key, chunk, stack, pc, pos, rem, pushes, digest>>

NoDigest == <<"none">>
ContextLen == 2 * ChunkLen - 1

PCs == {"idle", "partial", "loop", "push", "merge"}

Entry(cv, first, chunks) == [cv |-> cv, first |-> first, chunks |-> chunks]

\* hasher_init_base, reached from the three initialisers.  The key of
\* derive_key is the digest of a hasher of its own over the context string.
hasher_init_base(m) ==
  /\ key = ModeKey(m, ContextLen)
  /\ chunk = chunk_state_init(ModeKey(m, ContextLen), 0, ModeFlags(m))
  /\ stack = <<>>

Init ==
  /\ mode \in Modes
  /\ hasher_init_base(mode)
  /\ pc = "idle"
  /\ pos = 0
  /\ rem = 0
  /\ pushes = <<>>
  /\ digest = NoDigest

-----------------------------------------------------------------------------
(* The stack. *)

\* parent_output over the two top entries, left below right.
merge_top(s) ==
  LET l == s[Len(s) - 1]
      r == s[Len(s)]
      cv == output_chaining_value(parent_output(l.cv, r.cv, key, chunk.flags))
  IN  Append(SubSeq(s, 1, Len(s) - 2), Entry(cv, l.first, l.chunks + r.chunks))

\* Mutants of must_merge: one merge too few, and the count of the next chunk.
must_merge_late(counter) == Len(stack) > popcnt[counter] + 1
must_merge_next(counter) == Len(stack) > popcnt[counter + 1]

\* hasher_merge_cv_stack merges while the stack is longer than this.
must_merge(counter) == Len(stack) > popcnt[counter]

-----------------------------------------------------------------------------
(* blake3_hasher_update. *)

\* The call with n > 0 bytes; with none it returns at once.
UpdateCall(n) ==
  /\ pc = "idle"
  /\ pos + n <= MaxTotal
  /\ rem' = n
  /\ pc' = IF chunk_state_len(chunk) > 0 THEN "partial" ELSE "loop"
  /\ digest' = NoDigest
  /\ UNCHANGED <<mode, key, chunk, stack, pos, pushes>>

\* Finish the partial chunk first.  If input is left the chunk is not the
\* root: its chaining value is pushed and the next chunk begins.
FinishPartialChunk ==
  /\ pc = "partial"
  /\ LET take == AtMost(ChunkLen - chunk_state_len(chunk), rem)
         full == chunk_state_update(chunk, pos, take)
     IN  /\ pos' = pos + take
         /\ rem' = rem - take
         /\ IF rem > take
            THEN /\ pushes' = <<[counter |-> chunk.counter,
                                 entry |-> Entry(output_chaining_value(chunk_state_output(full)),
                                                 chunk.counter, 1)]>>
                 /\ chunk' = chunk_state_reset(chunk, key, chunk.counter + 1)
                 /\ pc' = "push"
            ELSE /\ chunk' = full
                 /\ pc' = "idle"
                 /\ UNCHANGED pushes
  /\ UNCHANGED <<mode, key, stack, digest>>

\* Mutants of subtree_len: no attention to alignment, and rounding up.
subtree_len_unaligned(input_len) == round_down_to_power_of_2[input_len]
subtree_len_rounded_up(input_len) == 2 * round_down_to_power_of_2[input_len]

\* The largest power of two of bytes in the input that evenly divides the
\* bytes so far.
subtree_len(input_len) ==
  halved_until_aligned(chunk.counter * ChunkLen)[round_down_to_power_of_2[input_len]]

\* Mutant of cv_pair: the one chaining value of the subtree.
cv_single(k) ==
  <<[counter |-> chunk.counter,
     entry |-> Entry(SubtreeCV(key, chunk.flags, chunk.counter, k * ChunkLen),
                     chunk.counter, k)]>>

\* The two top chaining values of a subtree of k >= 2 chunks, which is what
\* compress_subtree_to_parent_node returns (see SubtreeWide).
cv_pair(k) ==
  LET h == k \div 2
      half(c) == Entry(SubtreeCV(key, chunk.flags, c, h * ChunkLen), c, h)
  IN  <<[counter |-> chunk.counter, entry |-> half(chunk.counter)],
        [counter |-> chunk.counter + h, entry |-> half(chunk.counter + h)]>>

\* A chunk hashed by a chunk_state of its own.
single_chunk ==
  LET whole == chunk_state_update(chunk_state_init(key, chunk.counter, chunk.flags),
                                  pos, ChunkLen)
  IN  <<[counter |-> chunk.counter,
         entry |-> Entry(output_chaining_value(chunk_state_output(whole)),
                         chunk.counter, 1)]>>

\* Mutant of subtree_left: the last chunk is hashed too.
chunk_left == rem >= ChunkLen

\* The condition of the loop over subtrees: more than a chunk is left.
subtree_left == rem > ChunkLen

\* One iteration of the loop.
HashSubtree ==
  /\ pc = "loop"
  /\ subtree_left
  /\ LET len == subtree_len(rem)
         k   == len \div ChunkLen
     IN  /\ pushes' = IF len <= ChunkLen THEN single_chunk ELSE cv_pair(k)
         /\ chunk' = [chunk EXCEPT !.counter = @ + k]
         /\ pos' = pos + len
         /\ rem' = rem - len
  /\ pc' = "push"
  /\ UNCHANGED <<mode, key, stack, digest>>

\* hasher_push_cv: merge what the counter says is complete ...
PushMerge ==
  /\ pc = "push"
  /\ must_merge(Head(pushes).counter)
  /\ stack' = merge_top(stack)
  /\ UNCHANGED <<mode, key, chunk, pc, pos, rem, pushes, digest>>

\* ... and only then put the new entry, unmerged, on top.
PushEntry ==
  /\ pc = "push"
  /\ ~ must_merge(Head(pushes).counter)
  /\ stack' = Append(stack, Head(pushes).entry)
  /\ pushes' = Tail(pushes)
  /\ pc' = IF Len(pushes) = 1 THEN "loop" ELSE "push"
  /\ UNCHANGED <<mode, key, chunk, pos, rem, digest>>

\* What is left waits in the chunk state, and the stack is merged for finalize.
take_tail ==
  /\ IF rem > 0
     THEN /\ chunk' = chunk_state_update(chunk, pos, rem)
          /\ pc' = "merge"
     ELSE /\ pc' = "idle"
          /\ UNCHANGED chunk
  /\ pos' = pos + rem
  /\ rem' = 0
  /\ UNCHANGED <<mode, key, stack, pushes, digest>>

\* Mutant of AbsorbTail: a whole last chunk is not taken.
AbsorbLessThanChunk == pc = "loop" /\ rem < ChunkLen /\ take_tail

\* At most a chunk is left.
AbsorbTail == pc = "loop" /\ ~ subtree_left /\ take_tail

FinalMerge ==
  /\ pc = "merge"
  /\ IF must_merge(chunk.counter)
     THEN /\ stack' = merge_top(stack)
          /\ UNCHANGED pc
     ELSE /\ pc' = "idle"
          /\ UNCHANGED stack
  /\ UNCHANGED <<mode, key, chunk, pos, rem, pushes, digest>>

-----------------------------------------------------------------------------
(* blake3_hasher_finalize and blake3_hasher_reset. *)

\* Whether finalize starts from the chunk state or from the two top entries.
from_chunk == stack = <<>> \/ chunk_state_len(chunk) > 0

\* The roll-up along the right edge of the tree.
final_output ==
  LET base == IF from_chunk THEN Len(stack) ELSE Len(stack) - 2
      output[cvs_remaining \in 0 .. base] ==
        IF cvs_remaining = base
        THEN IF from_chunk THEN chunk_state_output(chunk)
             ELSE parent_output(stack[base + 1].cv, stack[base + 2].cv, key, chunk.flags)
        ELSE parent_output(stack[cvs_remaining + 1].cv,
                           output_chaining_value(output[cvs_remaining + 1]),
                           key, chunk.flags)
  IN  output[0]

Finalize ==
  /\ pc = "idle"
  /\ digest' = output_root(final_output)
  /\ UNCHANGED <<mode, key, chunk, stack, pc, pos, rem, pushes>>

Reset ==
  /\ pc = "idle"
  /\ chunk' = chunk_state_reset(chunk, key, 0)
  /\ stack' = <<>>
  /\ pos' = 0
  /\ digest' = NoDigest
  /\ UNCHANGED <<mode, key, pc, rem, pushes>>

Next ==
  \/ \E n \in 1 .. MaxTotal : UpdateCall(n)
  \/ FinishPartialChunk
  \/ HashSubtree
  \/ PushMerge
  \/ PushEntry
  \/ AbsorbTail
  \/ FinalMerge
  \/ Finalize
  \/ Reset

\* An update loops until its input is taken: the caller's thread keeps running.
Internal == FinishPartialChunk \/ HashSubtree \/ PushMerge \/ PushEntry
            \/ AbsorbTail \/ FinalMerge

Spec == Init /\ [][Next]_vars
FairSpec == Spec /\ WF_vars(Internal)

-----------------------------------------------------------------------------
(* Properties. *)

\* The state has the shape of the C structure.
TypeOK ==
  /\ mode \in Modes
  /\ pc \in PCs
  /\ pos \in Nat
  /\ rem \in Nat
  /\ chunk.counter \in Nat
  /\ chunk.blocks \in Nat
  /\ chunk.buf.len \in 0 .. BlockLen
  /\ \A i \in DOMAIN stack : stack[i].first \in Nat /\ stack[i].chunks \in Nat \ {0}
  /\ Len(pushes) \in 0 .. 2
  /\ (pc = "push") <=> (pushes # <<>>)

\* The entries of the stack, then the ones about to be pushed.
Subtrees == stack \o [i \in 1 .. Len(pushes) |-> pushes[i].entry]

\* Every whole chunk is hashed once and in order: the subtrees on the stack
\* and about to be pushed cover the chunks from 0 to the chunk counter with
\* neither gap nor overlap, through every merge and every cut of the input.
Tiled ==
  LET s == Subtrees
  IN  /\ s = <<>> => chunk.counter = 0
      /\ s # <<>> => s[1].first = 0
      /\ \A i \in 1 .. Len(s) :
           s[i].first + s[i].chunks = IF i = Len(s) THEN chunk.counter ELSE s[i + 1].first

\* No byte is lost or taken twice: the chunk counter and the chunk state
\* account for every byte taken from the inputs.
BytesAccounted == pos = chunk.counter * ChunkLen + chunk_state_len(chunk)

\* The stack entries are complete subtrees, aligned at a multiple of their
\* size, which is a power of two.  ("Each CV might represent any power-of-two
\* number of chunks, as long as the smaller-above-larger stack order is
\* maintained.")
AlignedSubtrees ==
  \A i \in DOMAIN stack :
    /\ stack[i].chunks = round_down_to_power_of_2[stack[i].chunks]
    /\ stack[i].first % stack[i].chunks = 0
    /\ i > 1 => stack[i].chunks <= stack[i - 1].chunks

\* The array cv_stack has MaxDepth + 1 slots, and no push writes past it,
\* in the middle of an update either.
StackFits == Len(stack) <= MaxDepth + 1

\* The root is never compressed before finalize: whatever chaining value has
\* been made stands for less than the whole input known so far, so that the
\* node over all of it can still be finalized with the ROOT flag.
RootNeverCompressed ==
  \A i \in DOMAIN Subtrees : Subtrees[i].chunks * ChunkLen < pos + rem

\* finalize with an empty chunk state and a stack reads the two top entries:
\* there are always two, so cv_stack_len - 2 does not wrap around.
TwoEntriesToFinalize ==
  pc = "idle" /\ chunk_state_len(chunk) = 0 /\ stack # <<>> => Len(stack) >= 2

\* With bytes in the chunk state the stack holds no unmerged pair: it is as
\* long as the number of 1 bits of the chunk counter, on which finalize's
\* roll-up relies.
NoUnmergedPair ==
  pc = "idle" /\ chunk_state_len(chunk) > 0 => Len(stack) = popcnt[chunk.counter]

\* An update returns, whatever the input length and the state it began in.
UpdateReturns == pc # "idle" ~> pc = "idle"

\* The hasher is a StreamHash: one that absorbs the whole input of a call when
\* the call begins.
Stream == INSTANCE StreamHash WITH absorbed <- pos + rem
StreamSpec == Stream!Spec
=============================================================================
