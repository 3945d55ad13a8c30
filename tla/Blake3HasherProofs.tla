------------------------- MODULE Blake3HasherProofs -------------------------
(***************************************************************************)
(* The incremental hasher of c/blake3.c, for every chunk and block length, *)
(* every message length and every cut of the message into calls of update. *)
(*                                                                         *)
(* HasherInv: it accounts for every byte and every chunk, keeps the root   *)
(* uncompressed and always has two entries for finalize to merge.          *)
(* BinaryInv: its stack is the binary representation of the counter.       *)
(* ContentInv: chaining values and chunk state are those of the subtrees   *)
(* and bytes they stand for.  Then, between calls, the roll-up of finalize *)
(* along the right edge meets, at each entry of the stack, exactly the cut *)
(* at which the tree over the bytes that follow is divided; so the hasher  *)
(* implements StreamHash.                                                  *)
(***************************************************************************)

EXTENDS Blake3Hasher, HashTreeProofs

-----------------------------------------------------------------------------
(* The cut of the input into subtrees. *)

\* A subtree is a power of two of chunks, no longer than the input left, and
\* begins at a multiple of its size.
THEOREM SubtreeIsWhole ==
  ASSUME chunk.counter \in Nat, NEW input_len \in Nat, input_len > ChunkLen
  PROVE  \E k \in Nat \ {0} :
           /\ subtree_len(input_len) = ChunkLen * k
           /\ subtree_len(input_len) \div ChunkLen = k
           /\ ChunkLen * k <= input_len
           /\ k # 1 => k \div 2 \in Nat \ {0} /\ k = 2 * (k \div 2)
           /\ PowerOfTwo(k) /\ chunk.counter % k = 0
BY WholeSubtree DEF subtree_len, aligned_len

-----------------------------------------------------------------------------
(* The stack. *)

\* hasher_merge_cv_stack joins the two top entries.
LEMMA MergeIsJoin ==
  ASSUME NEW s
  PROVE  merge_top(s) = Joined(key, chunk.flags, s)
BY DEF merge_top, Joined, Entry, Subtree

\* Merging the two top entries covers what they covered.
LEMMA MergeCovers ==
  ASSUME NEW s, NEW limit \in Nat, Covers(s, limit), Len(s) >= 2
  PROVE  Covers(merge_top(s), limit) /\ Len(merge_top(s)) = Len(s) - 1
BY MergeIsJoin, JoinCovers

-----------------------------------------------------------------------------
(* The inductive invariant.  Tiled alone is not inductive: a merge or a push *)
(* keeps it only because the counter given to hasher_push_cv is the number  *)
(* of the first chunk of the entry that is pushed, and an update returns    *)
(* with nothing left of its input.                                          *)

\* A call of hasher_push_cv: the counter is the number of the first chunk.
PushOK(p) ==
  p.counter = p.entry.first /\ p.entry.first \in Nat /\ p.entry.chunks \in Nat \ {0}

\* The calls still to be made cover the chunks from one number to another.
Pending(calls, from, to) ==
  \/ calls = <<>> /\ from = to
  \/ \E a : /\ calls = <<a>> /\ PushOK(a)
            /\ from = a.entry.first /\ to = a.entry.first + a.entry.chunks
  \/ \E a, b : /\ calls = <<a, b>> /\ PushOK(a) /\ PushOK(b)
               /\ from = a.entry.first /\ b.entry.first = a.entry.first + a.entry.chunks
               /\ to = b.entry.first + b.entry.chunks

\* The first chunk that no stack entry stands for.
Pushed == IF pushes = <<>> THEN chunk.counter ELSE Head(pushes).counter

Typed == mode \in Modes /\ pc \in PCs /\ pos \in Nat /\ rem \in Nat

ChunkInv ==
  /\ ChunkOK(chunk)
  /\ chunk_state_len(chunk) <= ChunkLen
  /\ BytesAccounted
  /\ pc \in {"loop", "push"} => chunk_state_len(chunk) = 0
  /\ pc \in {"partial", "merge"} => chunk_state_len(chunk) > 0

StackInv ==
  /\ Covers(stack, Pushed)
  /\ Pending(pushes, Pushed, chunk.counter)
  /\ (pc = "push") <=> (pushes # <<>>)

\* When all the input is taken and the chunk state is empty, several entries
\* stand for it, none of them for all.
RootInv ==
  /\ pc \in {"idle", "merge"} => rem = 0
  /\ rem = 0 /\ chunk_state_len(chunk) = 0 /\ (stack # <<>> \/ pushes # <<>>)
       => Len(stack) + Len(pushes) >= 2

HasherInv == Typed /\ ChunkInv /\ StackInv /\ RootInv

\* The three initialisers establish the invariant.
LEMMA HasherInitInv == Init => HasherInv
<1> SUFFICES ASSUME Init
             PROVE  HasherInv
  OBVIOUS
<1>1. /\ ChunkOK(chunk) /\ chunk.counter = 0 /\ chunk_state_len(chunk) = 0
  BY FreshChunk DEF Init, hasher_init_base
<1>2. stack = <<>> /\ pushes = <<>> /\ pc = "idle" /\ pos = 0 /\ rem = 0 /\ mode \in Modes
  BY DEF Init, hasher_init_base
<1>3. Typed
  BY <1>2 DEF Typed, PCs
<1>4. ChunkInv
  BY <1>1, <1>2, HashTreeAssumption, SMT DEF ChunkInv, BytesAccounted
<1>5. StackInv
  <2>1. Pushed = 0
    BY <1>1, <1>2 DEF Pushed
  <2>2. Len(stack) = 0 /\ stack \in Seq({}) /\ \A i : i \notin 1 .. 0
    BY <1>2, EmptySeq, SMT
  <2>3. Covers(stack, 0)
    BY <1>2, <2>2 DEF Covers
  <2>4. QED
    BY <1>1, <1>2, <2>1, <2>3 DEF StackInv, Pending
<1>6. RootInv
  BY <1>2 DEF RootInv
<1>7. QED
  BY <1>3, <1>4, <1>5, <1>6 DEF HasherInv

\* A merge that the counter of the top of the pending calls, or of the chunk
\* state, asks for has two entries to merge.
LEMMA TwoToMerge ==
  ASSUME NEW counter \in Nat, Covers(stack, counter), must_merge(counter)
  PROVE  Len(stack) >= 2
<1>1. PICK S : stack \in Seq(S)
  BY DEF Covers
<1>2. Len(stack) \in Nat /\ Len(stack) > popcnt[counter] /\ popcnt[counter] \in Nat
  BY <1>1, PopcntDef, LenProperties DEF must_merge
<1>3. counter # 0
  <2> SUFFICES ASSUME counter = 0
               PROVE  FALSE
    OBVIOUS
  <2>1. Len(stack) \in 1 .. Len(stack)
    BY <1>2, SMT
  <2>2. /\ stack[Len(stack)].first \in Nat /\ stack[Len(stack)].chunks \in Nat \ {0}
        /\ stack[Len(stack)].first + stack[Len(stack)].chunks = 0
    BY <2>1 DEF Covers
  <2>3. QED
    BY <2>2, SMT
<1>4. popcnt[counter] \in Nat \ {0}
  BY <1>3, PopcntPositive
<1>5. QED
  BY <1>2, <1>4, SMT

\* The next call of hasher_push_cv and the ones after it.
LEMMA NextPending ==
  ASSUME NEW calls, NEW from, NEW to, Pending(calls, from, to), calls # <<>>
  PROVE  /\ PushOK(Head(calls)) /\ from = Head(calls).entry.first
         /\ Len(calls) \in {1, 2} /\ Len(Tail(calls)) = Len(calls) - 1
         /\ Len(calls) = 1 <=> Tail(calls) = <<>>
         /\ Pending(Tail(calls), from + Head(calls).entry.chunks, to)
         /\ IF Tail(calls) = <<>> THEN to = from + Head(calls).entry.chunks
            ELSE Head(Tail(calls)).counter = from + Head(calls).entry.chunks
<1> DEFINE Split == /\ PushOK(Head(calls)) /\ from = Head(calls).entry.first
                    /\ Len(calls) \in {1, 2} /\ Len(Tail(calls)) = Len(calls) - 1
                    /\ Len(calls) = 1 <=> Tail(calls) = <<>>
                    /\ Pending(Tail(calls), from + Head(calls).entry.chunks, to)
                    /\ IF Tail(calls) = <<>> THEN to = from + Head(calls).entry.chunks
                       ELSE Head(Tail(calls)).counter = from + Head(calls).entry.chunks
<1>1. ASSUME NEW a, calls = <<a>>, PushOK(a),
             from = a.entry.first, to = a.entry.first + a.entry.chunks
      PROVE  Split
  <2>1. Head(calls) = a /\ Tail(calls) = <<>> /\ Len(calls) = 1 /\ Len(<<>>) = 0
    BY <1>1, SMT
  <2>2. Pending(<<>>, to, to)
    BY DEF Pending
  <2>3. QED
    BY <1>1, <2>1, <2>2, SMT
<1>2. ASSUME NEW a, NEW b, calls = <<a, b>>, PushOK(a), PushOK(b), from = a.entry.first,
             b.entry.first = a.entry.first + a.entry.chunks,
             to = b.entry.first + b.entry.chunks
      PROVE  Split
  <2>1. /\ Head(calls) = a /\ Tail(calls) = <<b>> /\ Len(calls) = 2
        /\ Len(<<b>>) = 1 /\ Head(<<b>>) = b /\ <<b>> # <<>>
    BY <1>2, SMT
  <2>2. Pending(<<b>>, from + a.entry.chunks, to)
    BY <1>2 DEF Pending
  <2>3. b.counter = from + a.entry.chunks
    BY <1>2 DEF PushOK
  <2>4. QED
    BY <1>2, <2>1, <2>2, <2>3, SMT
<1>3. QED
  BY <1>1, <1>2 DEF Pending

\* Every step of the hasher keeps the invariant.
LEMMA HasherStepInv == HasherInv /\ [Next]_vars => HasherInv'
<1> SUFFICES ASSUME HasherInv, [Next]_vars
             PROVE  HasherInv'
  OBVIOUS
<1>0. /\ Typed /\ ChunkInv /\ StackInv /\ RootInv
      /\ ChunkOK(chunk) /\ chunk.counter \in Nat /\ chunk_state_len(chunk) \in Nat
      /\ ChunkLen \in Nat \ {0} /\ pos \in Nat /\ rem \in Nat
  BY ChunkTypes, HashTreeAssumption DEF HasherInv, ChunkInv, Typed
<1>a. chunk' = chunk => chunk_state_len(chunk)' = chunk_state_len(chunk)
  BY DEF chunk_state_len
<1>1. ASSUME NEW n \in 1 .. MaxTotal, UpdateCall(n)
      PROVE  HasherInv'
  <2>1. /\ pc = "idle" /\ pos' = pos /\ chunk' = chunk /\ stack' = stack /\ pushes' = pushes
        /\ mode' = mode /\ rem' \in Nat /\ rem' # 0
    BY <1>1, HasherAssumption, SMT DEF UpdateCall
  <2>2. pc' = IF chunk_state_len(chunk) > 0 THEN "partial" ELSE "loop"
    BY <1>1 DEF UpdateCall
  <2>3. Typed'
    BY <1>0, <2>1, <2>2 DEF Typed, PCs
  <2>4. ChunkInv'
    BY <1>0, <1>a, <2>1, <2>2, SMT DEF ChunkInv, BytesAccounted
  <2>5. StackInv'
    BY <1>0, <2>1, <2>2 DEF StackInv, Pushed
  <2>6. RootInv'
    BY <2>1, <2>2 DEF RootInv
  <2>7. QED
    BY <2>3, <2>4, <2>5, <2>6 DEF HasherInv
<1>2. CASE FinishPartialChunk
  <2> DEFINE take == AtMost(ChunkLen - chunk_state_len(chunk), rem)
             full == chunk_state_update(chunk, pos, take)
             cv == output_chaining_value(chunk_state_output(full))
             call == [counter |-> chunk.counter, entry |-> Entry(cv, chunk.counter, 1)]
  <2>1. /\ pc = "partial" /\ pos' = pos + take /\ rem' = rem - take
        /\ stack' = stack /\ mode' = mode
        /\ IF rem > take
           THEN /\ pushes' = <<call>>
                /\ chunk' = chunk_state_reset(chunk, key, chunk.counter + 1)
                /\ pc' = "push"
           ELSE chunk' = full /\ pc' = "idle" /\ pushes' = pushes
    BY <1>2 DEF FinishPartialChunk
  <2>2. chunk_state_len(chunk) <= ChunkLen /\ chunk_state_len(chunk) > 0 /\ BytesAccounted
    BY <1>0, <2>1 DEF ChunkInv
  <2>3. /\ take \in Nat /\ take <= rem /\ chunk_state_len(chunk) + take <= ChunkLen
        /\ rem > take => chunk_state_len(chunk) + take = ChunkLen
    BY <1>0, <2>2, SMT DEF AtMost
  <2> HIDE DEF take
  <2>4. ChunkOK(full) /\ full.counter = chunk.counter
        /\ chunk_state_len(full) = chunk_state_len(chunk) + take
    BY <1>0, <2>3, UpdatedChunk
  <2>5. pushes = <<>> /\ Pushed = chunk.counter
    BY <1>0, <2>1 DEF StackInv, Pushed
  <2> HIDE DEF full, cv
  <2>6. CASE rem > take
    <3>1. /\ ChunkOK(chunk') /\ chunk'.counter = chunk.counter + 1
          /\ chunk_state_len(chunk)' = 0
      <4>1. chunk' = chunk_state_init(key, chunk.counter + 1, chunk.flags)
        BY <2>1, <2>6 DEF chunk_state_reset
      <4>2. chunk.counter + 1 \in Nat
        BY <1>0, SMT
      <4>3. chunk_state_len(chunk)' = chunk_state_len(chunk')
        BY DEF chunk_state_len
      <4>4. QED
        BY <4>1, <4>2, <4>3, FreshChunk
    <3>2. Typed'
      BY <1>0, <2>1, <2>3, <2>6, SMT DEF Typed, PCs
    <3>3. pos' = chunk'.counter * ChunkLen
      <4>1. (chunk.counter + 1) * ChunkLen = chunk.counter * ChunkLen + ChunkLen
            /\ chunk.counter * ChunkLen \in Nat
        BY <1>0, SMT
      <4>2. pos = chunk.counter * ChunkLen + chunk_state_len(chunk)
        BY <2>2 DEF BytesAccounted
      <4>3. QED
        BY <1>0, <2>1, <2>3, <2>6, <3>1, <4>1, <4>2, SMT
    <3>4. ChunkInv'
      <4>1. chunk'.counter * ChunkLen \in Nat
        BY <1>0, <3>1, SMT
      <4>2. QED
        BY <1>0, <2>1, <2>6, <3>1, <3>3, <4>1, SMT DEF ChunkInv, BytesAccounted
    <3>5. /\ PushOK(call) /\ call.entry.first = chunk.counter
          /\ call.entry.first + call.entry.chunks = chunk.counter + 1
          /\ call.counter = chunk.counter
      BY <1>0 DEF PushOK, Entry
    <3> HIDE DEF call
    <3>6. pushes' = <<call>> /\ Head(<<call>>) = call /\ <<call>> # <<>> /\ pc' = "push"
      BY <2>1, <2>6, SMT
    <3>7. Pushed' = chunk.counter
      BY <3>5, <3>6 DEF Pushed
    <3>8. Pending(pushes', chunk.counter, chunk'.counter)
      BY <3>1, <3>5, <3>6 DEF Pending
    <3>9. StackInv'
      BY <1>0, <2>1, <2>5, <3>6, <3>7, <3>8 DEF StackInv
    <3>10. RootInv'
      <4>1. rem' # 0
        BY <1>0, <2>1, <2>3, <2>6, SMT
      <4>2. QED
        BY <3>6, <4>1 DEF RootInv
    <3>11. QED
      BY <3>2, <3>4, <3>9, <3>10 DEF HasherInv
  <2>7. CASE ~ (rem > take)
    <3>1. rem' = 0 /\ chunk' = full /\ pc' = "idle" /\ pushes' = pushes
      BY <1>0, <2>1, <2>3, <2>7, SMT
    <3>2. chunk_state_len(chunk)' = chunk_state_len(chunk) + take
      BY <2>4, <3>1 DEF chunk_state_len
    <3>3. Typed'
      BY <1>0, <2>1, <2>3, <3>1, SMT DEF Typed, PCs
    <3>4. ChunkInv'
      <4>1. chunk.counter * ChunkLen \in Nat
        BY <1>0, SMT
      <4>2. chunk_state_len(chunk)' <= ChunkLen
            /\ pos' = chunk'.counter * ChunkLen + chunk_state_len(chunk)'
        BY <1>0, <2>1, <2>2, <2>3, <2>4, <3>1, <3>2, <4>1, SMT DEF BytesAccounted
      <4>3. QED
        BY <2>4, <3>1, <4>2 DEF ChunkInv, BytesAccounted
    <3>5. StackInv'
      BY <1>0, <2>1, <2>4, <2>5, <3>1 DEF StackInv, Pushed
    <3>6. RootInv'
      <4>1. chunk_state_len(chunk)' # 0
        BY <1>0, <2>2, <2>3, <3>2, SMT
      <4>2. QED
        BY <3>1, <4>1 DEF RootInv
    <3>7. QED
      BY <3>3, <3>4, <3>5, <3>6 DEF HasherInv
  <2>8. QED
    BY <2>6, <2>7
<1>3. CASE HashSubtree
  <2>1. /\ pc = "loop" /\ rem > ChunkLen /\ pc' = "push"
        /\ stack' = stack /\ mode' = mode
        /\ pushes' = IF subtree_len(rem) <= ChunkLen THEN single_chunk
                     ELSE cv_pair(subtree_len(rem) \div ChunkLen)
        /\ chunk' = [chunk EXCEPT !.counter = chunk.counter + (subtree_len(rem) \div ChunkLen)]
        /\ pos' = pos + subtree_len(rem) /\ rem' = rem - subtree_len(rem)
    BY <1>3 DEF HashSubtree, subtree_left
  <2>2. PICK k \in Nat \ {0} :
           /\ subtree_len(rem) = ChunkLen * k
           /\ subtree_len(rem) \div ChunkLen = k
           /\ ChunkLen * k <= rem
           /\ k # 1 => k \div 2 \in Nat \ {0} /\ k = 2 * (k \div 2)
    BY <1>0, <2>1, SubtreeIsWhole
  <2>3. /\ chunk_state_len(chunk) = 0 /\ pushes = <<>> /\ Pushed = chunk.counter
        /\ pos = chunk.counter * ChunkLen + chunk_state_len(chunk)
    BY <1>0, <2>1 DEF ChunkInv, StackInv, Pushed, BytesAccounted
  <2>4. /\ ChunkOK(chunk') /\ chunk'.counter = chunk.counter + k
        /\ chunk_state_len(chunk)' = 0
    <3> DEFINE count == chunk.counter + k
    <3>1. chunk' = [chunk EXCEPT !.counter = count] /\ count \in Nat
      <4>1. chunk' = [chunk EXCEPT !.counter = count]
        BY <2>1, <2>2
      <4>2. count \in Nat
        BY <1>0, <2>2, SMT
      <4>3. QED
        BY <4>1, <4>2
    <3> HIDE DEF count
    <3>2. /\ ChunkOK(chunk') /\ chunk'.counter = count
          /\ chunk'.blocks = chunk.blocks /\ chunk'.buf = chunk.buf
      <4>1. chunk.blocks \in Nat /\ chunk.buf.len \in 0 .. BlockLen
        BY <1>0, ChunkTypes
      <4>2. chunk' = [cv |-> chunk.cv, counter |-> count, blocks |-> chunk.blocks,
                      buf |-> DataBlock(chunk.buf.from, chunk.buf.len), flags |-> chunk.flags]
            /\ chunk.buf = DataBlock(chunk.buf.from, chunk.buf.len)
        BY <1>0, <3>1 DEF ChunkOK, DataBlock
      <4>3. ChunkOK(chunk')
        BY <3>1, <4>1, <4>2 DEF ChunkOK
      <4>4. QED
        BY <4>2, <4>3
    <3>3. QED
      BY <2>3, <3>2 DEF chunk_state_len, count
  <2>5. /\ ChunkLen * k \in Nat /\ rem' \in Nat /\ pos' \in Nat
        /\ (k = 1 => rem' # 0) /\ (k = 1 <=> ChunkLen * k <= ChunkLen)
    BY <1>0, <2>1, <2>2, SMT
  <2>6. Typed'
    BY <1>0, <2>1, <2>5 DEF Typed, PCs
  <2>7. ChunkInv'
    <3>1. chunk'.counter * ChunkLen = chunk.counter * ChunkLen + ChunkLen * k
          /\ chunk.counter * ChunkLen \in Nat
      <4>1. \A a, b, c \in Nat : (a + b) * c = a * c + c * b /\ a * c \in Nat
        BY SMT
      <4>2. QED
        BY <1>0, <2>2, <2>4, <4>1
    <3>2. pos' = chunk'.counter * ChunkLen + chunk_state_len(chunk)'
      BY <1>0, <2>1, <2>2, <2>3, <2>4, <2>5, <3>1, SMT
    <3>3. 0 <= ChunkLen
      BY <1>0, SMT
    <3>4. QED
      BY <2>1, <2>4, <3>2, <3>3 DEF ChunkInv, BytesAccounted
  <2>8. CASE k = 1
    <3>1. pushes' = single_chunk
      BY <2>1, <2>2, <2>5, <2>8
    <3>2. PICK cv : single_chunk = <<[counter |-> chunk.counter,
                                      entry |-> Entry(cv, chunk.counter, 1)]>>
      BY DEF single_chunk
    <3> DEFINE a == [counter |-> chunk.counter, entry |-> Entry(cv, chunk.counter, 1)]
    <3>3. /\ PushOK(a) /\ a.entry.first = chunk.counter /\ a.counter = chunk.counter
          /\ a.entry.first + a.entry.chunks = chunk.counter + 1
      BY <1>0 DEF PushOK, Entry
    <3> HIDE DEF a
    <3>4. pushes' = <<a>> /\ Head(<<a>>) = a /\ <<a>> # <<>>
      BY <3>1, <3>2, SMT DEF a
    <3>5. Pushed' = chunk.counter /\ Pending(pushes', chunk.counter, chunk'.counter)
      BY <2>4, <2>8, <3>3, <3>4 DEF Pushed, Pending
    <3>6. StackInv'
      BY <1>0, <2>1, <2>3, <3>4, <3>5 DEF StackInv
    <3>7. RootInv'
      BY <2>1, <2>5, <2>8 DEF RootInv
    <3>8. QED
      BY <2>6, <2>7, <3>6, <3>7 DEF HasherInv
  <2>9. CASE k # 1
    <3> DEFINE h == k \div 2
    <3>1. pushes' = cv_pair(k)
      BY <2>1, <2>2, <2>5, <2>9
    <3>2. h \in Nat \ {0} /\ k = 2 * h
      BY <2>2, <2>9
    <3> DEFINE cv(c) == SubtreeCV(key, chunk.flags, c, h * ChunkLen)
               a == [counter |-> chunk.counter, entry |-> Entry(cv(chunk.counter), chunk.counter, h)]
               b == [counter |-> chunk.counter + h,
                     entry |-> Entry(cv(chunk.counter + h), chunk.counter + h, h)]
    <3>3. cv_pair(k) = <<a, b>>
      BY DEF cv_pair
    <3> HIDE DEF h, cv
    <3>4. /\ chunk.counter + h \in Nat
          /\ chunk.counter + h + h = chunk.counter + k
      BY <1>0, <2>2, <3>2, SMT
    <3>5. /\ PushOK(a) /\ a.entry.first = chunk.counter /\ a.counter = chunk.counter
          /\ a.entry.chunks = h
          /\ PushOK(b) /\ b.entry.first = chunk.counter + h /\ b.entry.chunks = h
      BY <1>0, <3>2, <3>4 DEF PushOK, Entry
    <3> HIDE DEF a, b
    <3>6. /\ pushes' = <<a, b>> /\ Head(<<a, b>>) = a /\ <<a, b>> # <<>> /\ Len(<<a, b>>) = 2
      BY <3>1, <3>3, SMT
    <3>7. Pushed' = chunk.counter /\ Pending(pushes', chunk.counter, chunk'.counter)
      BY <2>4, <3>4, <3>5, <3>6 DEF Pushed, Pending
    <3>8. StackInv'
      BY <1>0, <2>1, <2>3, <3>6, <3>7 DEF StackInv
    <3>9. RootInv'
      <4>1. PICK S : stack \in Seq(S)
        BY <1>0 DEF StackInv, Covers
      <4>2. Len(stack) + 2 >= 2
        BY <4>1, LenProperties, SMT
      <4>3. QED
        BY <2>1, <3>6, <4>2 DEF RootInv
    <3>10. QED
      BY <2>6, <2>7, <3>8, <3>9 DEF HasherInv
  <2>10. QED
    BY <2>8, <2>9
<1>4. CASE PushMerge
  <2>1. /\ pc = "push" /\ must_merge(Head(pushes).counter) /\ stack' = merge_top(stack)
        /\ mode' = mode /\ chunk' = chunk /\ pc' = pc /\ pos' = pos /\ rem' = rem
        /\ pushes' = pushes
    BY <1>4 DEF PushMerge
  <2>2. pushes # <<>> /\ Pushed = Head(pushes).counter /\ Covers(stack, Pushed)
        /\ Pending(pushes, Pushed, chunk.counter)
    BY <1>0, <2>1 DEF StackInv, Pushed
  <2>3. Pushed \in Nat /\ Len(pushes) \in {1, 2}
    BY <2>2, NextPending DEF PushOK
  <2>4. Len(stack) >= 2
    BY <2>1, <2>2, <2>3, TwoToMerge
  <2>5. Covers(stack', Pushed) /\ Len(stack') = Len(stack) - 1
    BY <2>1, <2>2, <2>3, <2>4, MergeCovers
  <2>6. Typed' /\ ChunkInv'
    BY <1>0, <1>a, <2>1 DEF Typed, ChunkInv, BytesAccounted
  <2>7. StackInv'
    BY <1>0, <2>1, <2>2, <2>5 DEF StackInv, Pushed
  <2>8. RootInv'
    <3>1. PICK S : stack \in Seq(S)
      BY <2>2 DEF Covers
    <3>2. Len(stack') + Len(pushes') >= 2
      BY <2>1, <2>3, <2>4, <2>5, <3>1, LenProperties, SMT
    <3>3. QED
      BY <2>1, <3>2 DEF RootInv
  <2>9. QED
    BY <2>6, <2>7, <2>8 DEF HasherInv
<1>5. CASE PushEntry
  <2> DEFINE e == Head(pushes).entry
  <2>1. /\ pc = "push" /\ stack' = Append(stack, e) /\ pushes' = Tail(pushes)
        /\ pc' = IF Len(pushes) = 1 THEN "loop" ELSE "push"
        /\ mode' = mode /\ chunk' = chunk /\ pos' = pos /\ rem' = rem
    BY <1>5 DEF PushEntry
  <2>2. pushes # <<>> /\ Pushed = Head(pushes).counter /\ Covers(stack, Pushed)
        /\ Pending(pushes, Pushed, chunk.counter)
    BY <1>0, <2>1 DEF StackInv, Pushed
  <2>3. /\ Pushed = e.first /\ e.first \in Nat /\ e.chunks \in Nat \ {0}
        /\ Len(pushes) \in {1, 2} /\ Len(pushes') = Len(pushes) - 1
        /\ Len(pushes) = 1 <=> pushes' = <<>>
        /\ Pending(pushes', Pushed + e.chunks, chunk.counter)
        /\ IF pushes' = <<>> THEN chunk.counter = Pushed + e.chunks
           ELSE Head(pushes').counter = Pushed + e.chunks
    BY <2>1, <2>2, NextPending DEF PushOK
  <2> HIDE DEF e
  <2>4. Covers(stack', e.first + e.chunks) /\ Len(stack') = Len(stack) + 1
    BY <2>1, <2>2, <2>3, AppendCovers
  <2>5. Pushed' = e.first + e.chunks
    BY <2>1, <2>3 DEF Pushed
  <2>6. Typed'
    BY <1>0, <2>1 DEF Typed, PCs
  <2>7. ChunkInv'
    <3>1. pc' \in {"loop", "push"} /\ chunk_state_len(chunk) = 0
      BY <1>0, <2>1 DEF ChunkInv
    <3>2. pc' # "partial" /\ pc' # "merge"
      BY <2>1
    <3>3. QED
      BY <1>0, <1>a, <2>1, <3>1, <3>2 DEF ChunkInv, BytesAccounted
  <2>8. StackInv'
    <3>1. (pc' = "push") <=> (pushes' # <<>>)
      BY <2>1, <2>3
    <3>2. QED
      BY <2>1, <2>3, <2>4, <2>5, <3>1 DEF StackInv
  <2>9. RootInv'
    <3>1. PICK S : stack \in Seq(S)
      BY <2>2 DEF Covers
    <3>2. Len(stack') + Len(pushes') = Len(stack) + Len(pushes)
      BY <2>3, <2>4, <3>1, LenProperties, SMT
    <3>3. pc' # "idle"
      BY <2>1
    <3>4. QED
      BY <1>0, <1>a, <2>1, <2>2, <3>2, <3>3 DEF RootInv
  <2>10. QED
    BY <2>6, <2>7, <2>8, <2>9 DEF HasherInv
<1>6. CASE AbsorbTail
  <2>1. /\ pc = "loop" /\ ~ (rem > ChunkLen) /\ pos' = pos + rem /\ rem' = 0
        /\ mode' = mode /\ stack' = stack /\ pushes' = pushes
        /\ IF rem > 0 THEN chunk' = chunk_state_update(chunk, pos, rem) /\ pc' = "merge"
           ELSE pc' = "idle" /\ chunk' = chunk
    BY <1>6 DEF AbsorbTail, take_tail, subtree_left
  <2>2. chunk_state_len(chunk) = 0 /\ pushes = <<>> /\ BytesAccounted
    BY <1>0, <2>1 DEF ChunkInv, StackInv
  <2>3. /\ ChunkOK(chunk') /\ chunk'.counter = chunk.counter
        /\ chunk_state_len(chunk)' = rem
    <3>1. CASE rem > 0
      <4>1. /\ ChunkOK(chunk_state_update(chunk, pos, rem))
            /\ chunk_state_update(chunk, pos, rem).counter = chunk.counter
            /\ chunk_state_len(chunk_state_update(chunk, pos, rem)) = chunk_state_len(chunk) + rem
        BY <1>0, UpdatedChunk
      <4>2. chunk_state_len(chunk)' = chunk_state_len(chunk')
        BY DEF chunk_state_len
      <4>3. chunk' = chunk_state_update(chunk, pos, rem) /\ chunk_state_len(chunk) + rem = rem
        BY <1>0, <2>1, <2>2, <3>1, SMT
      <4>4. QED
        BY <4>1, <4>2, <4>3
    <3>2. CASE ~ (rem > 0)
      BY <1>0, <1>a, <2>1, <2>2, <3>2, SMT
    <3>3. QED
      BY <3>1, <3>2
  <2>4. Typed'
    BY <1>0, <2>1, SMT DEF Typed, PCs
  <2>5. ChunkInv'
    <3>1. chunk.counter * ChunkLen \in Nat
      BY <1>0, SMT
    <3>2. chunk_state_len(chunk)' <= ChunkLen
          /\ pos' = chunk'.counter * ChunkLen + chunk_state_len(chunk)'
      BY <1>0, <2>1, <2>2, <2>3, <3>1, SMT DEF BytesAccounted
    <3>3. pc' \in {"idle", "merge"} /\ (pc' = "merge" => chunk_state_len(chunk)' > 0)
      BY <2>1, <2>3
    <3>4. QED
      BY <2>3, <3>2, <3>3 DEF ChunkInv, BytesAccounted
  <2>6. StackInv'
    <3>1. pc' # "push"
      BY <2>1
    <3>2. QED
      BY <1>0, <2>1, <2>2, <2>3, <3>1 DEF StackInv, Pushed
  <2>7. RootInv'
    BY <1>0, <2>1, <2>2, <2>3 DEF RootInv
  <2>8. QED
    BY <2>4, <2>5, <2>6, <2>7 DEF HasherInv
<1>7. CASE FinalMerge
  <2>1. /\ pc = "merge" /\ mode' = mode /\ chunk' = chunk /\ pos' = pos /\ rem' = rem
        /\ pushes' = pushes
        /\ IF must_merge(chunk.counter) THEN stack' = merge_top(stack) /\ pc' = pc
           ELSE pc' = "idle" /\ stack' = stack
    BY <1>7 DEF FinalMerge
  <2>2. /\ pushes = <<>> /\ Pushed = chunk.counter /\ Pushed' = chunk.counter
        /\ Covers(stack, chunk.counter) /\ chunk_state_len(chunk) > 0
    BY <1>0, <2>1 DEF StackInv, Pushed, ChunkInv
  <2>3. Covers(stack', chunk.counter)
    <3>1. CASE must_merge(chunk.counter)
      BY <1>0, <2>1, <2>2, <3>1, TwoToMerge, MergeCovers
    <3>2. CASE ~ must_merge(chunk.counter)
      BY <2>1, <2>2, <3>2
    <3>3. QED
      BY <3>1, <3>2
  <2>4. Typed'
    BY <1>0, <2>1 DEF Typed, PCs
  <2>5. pc' \in {"merge", "idle"}
    BY <2>1
  <2>6. ChunkInv'
    BY <1>0, <1>a, <2>1, <2>2, <2>5 DEF ChunkInv, BytesAccounted
  <2>7. StackInv'
    BY <1>0, <2>1, <2>2, <2>3, <2>5 DEF StackInv
  <2>8. RootInv'
    <3>1. chunk_state_len(chunk)' # 0 /\ rem' = 0
      BY <1>0, <1>a, <2>1, <2>2, SMT DEF RootInv
    <3>2. QED
      BY <3>1 DEF RootInv
  <2>9. QED
    BY <2>4, <2>6, <2>7, <2>8 DEF HasherInv
<1>8. CASE Finalize
  <2>1. /\ mode' = mode /\ chunk' = chunk /\ stack' = stack /\ pc' = pc /\ pos' = pos
        /\ rem' = rem /\ pushes' = pushes
    BY <1>8 DEF Finalize
  <2>2. QED
    BY <1>0, <1>a, <2>1 DEF HasherInv, Typed, ChunkInv, BytesAccounted, StackInv, Pushed, RootInv
<1>9. CASE Reset
  <2>1. /\ pc = "idle" /\ chunk' = chunk_state_init(key, 0, chunk.flags) /\ stack' = <<>>
        /\ pos' = 0 /\ mode' = mode /\ pc' = pc /\ rem' = rem /\ pushes' = pushes
    BY <1>9 DEF Reset, chunk_state_reset
  <2>2. chunk_state_len(chunk)' = chunk_state_len(chunk')
    BY DEF chunk_state_len
  <2>3. ChunkOK(chunk') /\ chunk'.counter = 0 /\ chunk_state_len(chunk)' = 0
    BY <2>1, <2>2, FreshChunk
  <2>4. pushes = <<>>
    BY <1>0, <2>1 DEF StackInv
  <2>5. Typed'
    BY <1>0, <2>1 DEF Typed
  <2>6. ChunkInv'
    <3>1. 0 <= ChunkLen /\ 0 = 0 * ChunkLen + 0
      BY <1>0, SMT
    <3>2. QED
      BY <2>1, <2>3, <3>1 DEF ChunkInv, BytesAccounted
  <2>7. StackInv'
    <3>1. Pushed' = 0
      BY <2>1, <2>3, <2>4 DEF Pushed
    <3>2. Len(<<>>) = 0 /\ <<>> \in Seq({}) /\ \A i : i \notin 1 .. 0
      BY EmptySeq, SMT
    <3>3. Covers(<<>>, 0)
      BY <3>2 DEF Covers
    <3>4. QED
      BY <2>1, <2>3, <2>4, <3>1, <3>3 DEF StackInv, Pending
  <2>8. RootInv'
    BY <1>0, <2>1, <2>4 DEF RootInv
  <2>9. QED
    BY <2>5, <2>6, <2>7, <2>8 DEF HasherInv
<1>10. CASE UNCHANGED vars
  <2>1. /\ mode' = mode /\ chunk' = chunk /\ stack' = stack /\ pc' = pc /\ pos' = pos
        /\ rem' = rem /\ pushes' = pushes
    BY <1>10 DEF vars
  <2>2. QED
    BY <1>0, <1>a, <2>1 DEF HasherInv, Typed, ChunkInv, BytesAccounted, StackInv, Pushed, RootInv
<1>11. QED
  BY <1>1, <1>2, <1>3, <1>4, <1>5, <1>6, <1>7, <1>8, <1>9, <1>10 DEF Next

\* Every reachable state of the hasher satisfies the inductive invariant: the stack
\* and the calls of hasher_push_cv still to be made cover the chunks so far.
THEOREM HasherInvariant == Spec => []HasherInv
BY HasherInitInv, HasherStepInv, PTL DEF Spec

-----------------------------------------------------------------------------
(* What follows from the invariant. *)

\* The stack and the pending entries together.
LEMMA SubtreesCover ==
  ASSUME StackInv, chunk.counter \in Nat
  PROVE  /\ Covers(Subtrees, chunk.counter)
         /\ Len(Subtrees) = Len(stack) + Len(pushes)
         /\ Len(Subtrees) \in Nat
         /\ Subtrees # <<>> => stack # <<>> \/ pushes # <<>>
<1> DEFINE tail == [i \in 1 .. Len(pushes) |-> pushes[i].entry]
<1>1. PICK S : stack \in Seq(S)
  BY DEF StackInv, Covers
<1>2. Subtrees = stack \o tail
  BY DEF Subtrees
<1>3. Covers(stack, Pushed)
  BY DEF StackInv
<1>4. CASE pushes = <<>>
  <2>1. Len(pushes) = 0 /\ tail = <<>>
    BY <1>4, SMT
  <2>2. Subtrees = stack
    BY <1>1, <1>2, <2>1, ConcatEmptySeq
  <2>3. Pushed = chunk.counter
    BY <1>4 DEF Pushed
  <2>4. QED
    BY <1>1, <1>3, <2>1, <2>2, <2>3, LenProperties, SMT
<1>5. ASSUME NEW a, pushes = <<a>>, PushOK(a), Pushed = a.entry.first,
             chunk.counter = a.entry.first + a.entry.chunks
      PROVE  Covers(Subtrees, chunk.counter) /\ Len(Subtrees) = Len(stack) + Len(pushes)
  <2>1. Len(pushes) = 1 /\ pushes[1] = a
    BY <1>5, SMT
  <2>2. tail = <<a.entry>>
    BY <2>1, SMT
  <2>3. stack \o <<a.entry>> = Append(stack, a.entry)
    BY <1>1, SMT
  <2>4. Covers(Append(stack, a.entry), chunk.counter) /\ Len(Append(stack, a.entry)) = Len(stack) + 1
    BY <1>3, <1>5, AppendCovers DEF PushOK
  <2>5. QED
    BY <1>2, <2>1, <2>2, <2>3, <2>4
<1>6. ASSUME NEW a, NEW b, pushes = <<a, b>>, PushOK(a), PushOK(b), Pushed = a.entry.first,
             b.entry.first = a.entry.first + a.entry.chunks,
             chunk.counter = b.entry.first + b.entry.chunks
      PROVE  Covers(Subtrees, chunk.counter) /\ Len(Subtrees) = Len(stack) + Len(pushes)
  <2>1. Len(pushes) = 2 /\ pushes[1] = a /\ pushes[2] = b
    BY <1>6, SMT
  <2>2. tail = <<a.entry, b.entry>>
    BY <2>1, SMT
  <2>3. stack \o <<a.entry, b.entry>> = Append(Append(stack, a.entry), b.entry)
    BY <1>1, SMT
  <2>4. /\ Covers(Append(stack, a.entry), b.entry.first)
        /\ Len(Append(stack, a.entry)) = Len(stack) + 1
    BY <1>3, <1>6, AppendCovers DEF PushOK
  <2>5. /\ Covers(Append(Append(stack, a.entry), b.entry), chunk.counter)
        /\ Len(Append(Append(stack, a.entry), b.entry)) = (Len(stack) + 1) + 1
    BY <1>6, <2>4, AppendCovers DEF PushOK
  <2>6. (Len(stack) + 1) + 1 = Len(stack) + 2
    BY <1>1, LenProperties, SMT
  <2>7. QED
    BY <1>2, <2>1, <2>2, <2>3, <2>5, <2>6
<1>7. Covers(Subtrees, chunk.counter) /\ Len(Subtrees) = Len(stack) + Len(pushes)
  <2>1. Pending(pushes, Pushed, chunk.counter)
    BY DEF StackInv
  <2>2. CASE \E a : /\ pushes = <<a>> /\ PushOK(a)
                    /\ Pushed = a.entry.first
                    /\ chunk.counter = a.entry.first + a.entry.chunks
    BY <1>5, <2>2
  <2>3. CASE \E a, b : /\ pushes = <<a, b>> /\ PushOK(a) /\ PushOK(b)
                       /\ Pushed = a.entry.first
                       /\ b.entry.first = a.entry.first + a.entry.chunks
                       /\ chunk.counter = b.entry.first + b.entry.chunks
    BY <1>6, <2>3
  <2>4. QED
    BY <1>4, <2>1, <2>2, <2>3 DEF Pending
<1>8. Len(Subtrees) \in Nat
  <2>1. PICK T : Subtrees \in Seq(T)
    BY <1>7 DEF Covers
  <2>2. QED
    BY <2>1, LenProperties
<1>9. Subtrees # <<>> => stack # <<>> \/ pushes # <<>>
  <2> SUFFICES ASSUME stack = <<>>, pushes = <<>>
               PROVE  Subtrees = <<>>
    OBVIOUS
  <2>1. tail = <<>>
    BY SMT
  <2>2. <<>> \o <<>> = <<>>
    BY EmptySeq, ConcatEmptySeq
  <2>3. QED
    BY <1>2, <2>1, <2>2
<1>10. QED
  BY <1>7, <1>8, <1>9

\* The state of the hasher keeps the shape of the C structure.
THEOREM HasherTypeCorrect == Spec => []TypeOK
<1>1. HasherInv => TypeOK
  <2> SUFFICES ASSUME HasherInv
               PROVE  TypeOK
    OBVIOUS
  <2>1. chunk.counter \in Nat /\ chunk.blocks \in Nat /\ chunk.buf.len \in 0 .. BlockLen
    BY ChunkTypes DEF HasherInv, ChunkInv
  <2>2. \A i \in DOMAIN stack : stack[i].first \in Nat /\ stack[i].chunks \in Nat \ {0}
    BY LenProperties DEF HasherInv, StackInv, Covers
  <2>3. Len(pushes) \in 0 .. 2
    <3>1. CASE pushes = <<>>
      BY <3>1, EmptySeq, SMT
    <3>2. CASE pushes # <<>>
      <4>1. Len(pushes) \in {1, 2}
        BY <3>2, NextPending DEF HasherInv, StackInv
      <4>2. QED
        BY <4>1, SMT
    <3>3. QED
      BY <3>1, <3>2
  <2>4. QED
    BY <2>1, <2>2, <2>3 DEF TypeOK, HasherInv, Typed, StackInv
<1>2. QED
  BY <1>1, HasherInvariant, PTL

\* However the message is cut into calls, the chunk counter and the chunk state
\* of blake3_hasher_update account for every byte taken from the inputs.
THEOREM BytesCorrect == Spec => []BytesAccounted
<1>1. HasherInv => BytesAccounted
  BY DEF HasherInv, ChunkInv
<1>2. QED
  BY <1>1, HasherInvariant, PTL

\* The chaining values that update keeps and pushes stand for consecutive
\* subtrees, from chunk 0 to the chunk counter, through every lazy merge.
THEOREM TiledCorrect == Spec => []Tiled
<1>1. HasherInv => Tiled
  <2> SUFFICES ASSUME HasherInv
               PROVE  Tiled
    OBVIOUS
  <2>1. Covers(Subtrees, chunk.counter)
    BY SubtreesCover, ChunkTypes DEF HasherInv, ChunkInv
  <2>2. QED
    BY <2>1 DEF Tiled, Covers
<1>2. QED
  BY <1>1, HasherInvariant, PTL

\* update never compresses the node over all of the input without the ROOT flag.
THEOREM RootCorrect == Spec => []RootNeverCompressed
<1>1. HasherInv => RootNeverCompressed
  <2> SUFFICES ASSUME HasherInv, NEW i \in DOMAIN Subtrees
               PROVE  Subtrees[i].chunks * ChunkLen < pos + rem
    BY DEF RootNeverCompressed
  <2>1. /\ chunk.counter \in Nat /\ chunk_state_len(chunk) \in Nat /\ pos \in Nat /\ rem \in Nat
        /\ ChunkLen \in Nat \ {0} /\ pos = chunk.counter * ChunkLen + chunk_state_len(chunk)
    BY ChunkTypes, HashTreeAssumption DEF HasherInv, Typed, ChunkInv, BytesAccounted
  <2>2. /\ Covers(Subtrees, chunk.counter) /\ Len(Subtrees) = Len(stack) + Len(pushes)
        /\ (Subtrees # <<>> => stack # <<>> \/ pushes # <<>>) /\ Len(Subtrees) \in Nat
    BY <2>1, SubtreesCover DEF HasherInv
  <2>3. i \in 1 .. Len(Subtrees) /\ Subtrees # <<>>
    <3>1. PICK S : Subtrees \in Seq(S)
      BY <2>2 DEF Covers
    <3>2. DOMAIN Subtrees = 1 .. Len(Subtrees)
      BY <3>1, LenProperties
    <3>3. Subtrees # <<>>
      <4> SUFFICES ASSUME Subtrees = <<>>
                   PROVE  FALSE
        OBVIOUS
      <4>1. Len(Subtrees) = 0
        BY EmptySeq
      <4>2. QED
        BY <3>2, <4>1, SMT
    <3>4. QED
      BY <3>2, <3>3
  <2>4. /\ Subtrees[i].chunks \in Nat /\ Subtrees[i].chunks <= chunk.counter
        /\ (Len(Subtrees) >= 2 => Subtrees[i].chunks < chunk.counter)
    BY <2>1, <2>2, <2>3, CoversBelow DEF Covers
  <2> DEFINE chunks == Subtrees[i].chunks
             count == chunk.counter
             held == chunk_state_len(chunk)
  <2>5. CASE rem = 0 /\ held = 0
    <3>1. chunks \in Nat /\ count \in Nat /\ chunks < count
      BY <2>1, <2>2, <2>3, <2>4, <2>5 DEF HasherInv, RootInv
    <3> HIDE DEF chunks, count
    <3>2. chunks * ChunkLen < count * ChunkLen
      BY <2>1, <3>1, SMT
    <3>3. count * ChunkLen \in Nat /\ chunks * ChunkLen \in Nat
      BY <2>1, <3>1, SMT
    <3>4. QED
      BY <2>1, <2>5, <3>2, <3>3, SMT DEF chunks, count
  <2>6. CASE ~ (rem = 0 /\ held = 0)
    <3>1. chunks \in Nat /\ count \in Nat /\ chunks <= count
      BY <2>1, <2>4
    <3> HIDE DEF chunks, count
    <3>2. chunks * ChunkLen <= count * ChunkLen
      BY <2>1, <3>1, SMT
    <3>3. count * ChunkLen \in Nat /\ chunks * ChunkLen \in Nat
      BY <2>1, <3>1, SMT
    <3>4. QED
      BY <2>1, <2>6, <3>2, <3>3, SMT DEF chunks, count
  <2>7. QED
    BY <2>5, <2>6
<1>2. QED
  BY <1>1, HasherInvariant, PTL

\* blake3_hasher_finalize_seek may subtract two from the length of the stack:
\* with an empty chunk state a stack that is not empty has two entries.
THEOREM TwoEntriesCorrect == Spec => []TwoEntriesToFinalize
<1>1. HasherInv => TwoEntriesToFinalize
  <2> SUFFICES ASSUME HasherInv, pc = "idle", chunk_state_len(chunk) = 0, stack # <<>>
               PROVE  Len(stack) >= 2
    BY DEF TwoEntriesToFinalize
  <2>1. pushes = <<>> /\ Len(stack) + Len(pushes) >= 2
    BY DEF HasherInv, StackInv, RootInv
  <2>2. PICK S : stack \in Seq(S)
    BY DEF HasherInv, StackInv, Covers
  <2>3. Len(stack) \in Nat /\ Len(pushes) = 0
    BY <2>1, <2>2, LenProperties, EmptySeq
  <2>4. QED
    BY <2>1, <2>3, SMT
<1>2. QED
  BY <1>1, HasherInvariant, PTL

-----------------------------------------------------------------------------
(* The stack as a binary counter, through every lazy merge. *)

\* A merge that the counter asks for joins the halves of a complete subtree.
LEMMA MergeBinary ==
  ASSUME NEW s, NEW limit \in Nat, Covers(s, limit), Binary(s), Len(s) >= 2,
         Len(s) > popcnt[limit]
  PROVE  Binary(merge_top(s))
BY MergeIsJoin, JoinBinary

\* The calls of hasher_push_cv still to be made are for complete subtrees, and
\* outside of the merges a stack with a chunk begun above it is fully merged.
BinaryInv ==
  /\ Binary(stack)
  /\ \A i \in 1 .. Len(pushes) : Complete(pushes[i].entry)
  /\ pc \in {"idle", "partial"} /\ chunk_state_len(chunk) > 0
       => Len(stack) = popcnt[chunk.counter]
  /\ pos + rem <= MaxTotal

\* A call of hasher_push_cv leaves the next one, for a complete subtree too.
LEMMA NextComplete ==
  ASSUME NEW calls, NEW from, NEW to, Pending(calls, from, to), calls # <<>>,
         \A i \in 1 .. Len(calls) : Complete(calls[i].entry)
  PROVE  /\ Complete(Head(calls).entry)
         /\ \A i \in 1 .. Len(Tail(calls)) : Complete(Tail(calls)[i].entry)
<1>1. ASSUME NEW a, calls = <<a>>
      PROVE  /\ Complete(Head(calls).entry)
             /\ \A i \in 1 .. Len(Tail(calls)) : Complete(Tail(calls)[i].entry)
  <2>1. /\ Head(calls) = a /\ calls[1] = a /\ 1 \in 1 .. Len(calls)
        /\ Len(Tail(calls)) = 0 /\ \A i : i \notin 1 .. 0
    BY <1>1, SMT
  <2>2. QED
    BY <2>1
<1>2. ASSUME NEW a, NEW b, calls = <<a, b>>
      PROVE  /\ Complete(Head(calls).entry)
             /\ \A i \in 1 .. Len(Tail(calls)) : Complete(Tail(calls)[i].entry)
  <2>1. /\ Head(calls) = a /\ calls[1] = a /\ calls[2] = b /\ 1 \in 1 .. Len(calls)
        /\ 2 \in 1 .. Len(calls) /\ Tail(calls)[1] = b /\ \A i \in 1 .. Len(Tail(calls)) : i = 1
    BY <1>2, SMT
  <2>2. QED
    BY <2>1
<1>3. QED
  BY <1>1, <1>2 DEF Pending

\* Both halves of a complete subtree of several chunks are complete.
LEMMA HalvesComplete ==
  ASSUME NEW k, NEW f \in Nat, PowerOfTwo(k), k # 1, f % k = 0, NEW cv, NEW cw
  PROVE  Complete(Entry(cv, f, k \div 2)) /\ Complete(Entry(cw, f + k \div 2, k \div 2))
<1> DEFINE h == k \div 2
<1>1. PowerOfTwo(h) /\ k = 2 * h /\ h < k
  BY HalvedPower
<1> HIDE DEF h
<1>2. h \in Nat \ {0} /\ h <= k
  BY <1>1, SMT DEF PowerOfTwo
<1>3. f % h = 0
  BY <1>1, <1>2, SmallerPowers
<1> DEFINE q == f \div h + 1
<1>4. f + h = h * q /\ f \div h \in Nat
  BY <1>2, <1>3, EvenMultiples
<1>5. q \in Nat /\ f + h = h * q
  BY <1>4, SMT
<1> HIDE DEF q
<1>6. (f + h) % h = 0
  <2>1. (h * q) % h = 0
    BY <1>2, <1>5, MultipleDivided
  <2>2. QED
    BY <1>5, <2>1
<1>7. QED
  BY <1>1, <1>3, <1>6 DEF Complete, Entry, h

\* A single chunk is a complete subtree.
LEMMA ChunkComplete ==
  ASSUME NEW f \in Nat, NEW cv
  PROVE  Complete(Entry(cv, f, 1))
<1>1. f % 1 = 0
  BY SMT
<1>2. QED
  BY <1>1, DoubledPower DEF Complete, Entry

\* The initialisers establish the second invariant.
LEMMA BinaryInitInv == Init => BinaryInv
<1> SUFFICES ASSUME Init
             PROVE  BinaryInv
  OBVIOUS
<1>1. stack = <<>> /\ pushes = <<>> /\ pos = 0 /\ rem = 0 /\ chunk_state_len(chunk) = 0
  BY FreshChunk DEF Init, hasher_init_base
<1>2. Len(stack) = 0 /\ Len(pushes) = 0 /\ (\A i : i \notin 1 .. 0) /\ ~ (0 > 0)
  BY <1>1, EmptySeq, SMT
<1>3. pos + rem <= MaxTotal
  BY <1>1, HasherAssumption, SMT
<1>4. QED
  BY <1>1, <1>2, <1>3 DEF BinaryInv, Binary

\* Every step keeps it, in states of the first.
LEMMA BinaryStepInv == HasherInv /\ BinaryInv /\ [Next]_vars => BinaryInv'
<1> SUFFICES ASSUME HasherInv, BinaryInv, [Next]_vars
             PROVE  BinaryInv'
  OBVIOUS
<1>0. /\ ChunkInv /\ StackInv /\ RootInv
      /\ ChunkOK(chunk) /\ chunk.counter \in Nat /\ chunk_state_len(chunk) \in Nat
      /\ ChunkLen \in Nat \ {0} /\ pos \in Nat /\ rem \in Nat /\ MaxTotal \in Nat
      /\ Binary(stack) /\ \A i \in 1 .. Len(pushes) : Complete(pushes[i].entry)
      /\ pos + rem <= MaxTotal
  BY ChunkTypes, HashTreeAssumption, HasherAssumption
  DEF HasherInv, ChunkInv, Typed, BinaryInv
<1>a. chunk' = chunk => chunk_state_len(chunk)' = chunk_state_len(chunk)
  BY DEF chunk_state_len
<1>b. (\A i : i \notin 1 .. 0) /\ Len(<<>>) = 0
  BY EmptySeq, SMT
<1>1. ASSUME NEW n \in 1 .. MaxTotal, UpdateCall(n)
      PROVE  BinaryInv'
  <2>1. /\ pc = "idle" /\ pos' = pos /\ chunk' = chunk /\ stack' = stack /\ pushes' = pushes
        /\ rem' = n /\ pos + n <= MaxTotal
    BY <1>1 DEF UpdateCall
  <2>2. QED
    BY <1>0, <1>a, <2>1 DEF BinaryInv
<1>2. CASE FinishPartialChunk
  <2> DEFINE take == AtMost(ChunkLen - chunk_state_len(chunk), rem)
             full == chunk_state_update(chunk, pos, take)
             cv == output_chaining_value(chunk_state_output(full))
             call == [counter |-> chunk.counter, entry |-> Entry(cv, chunk.counter, 1)]
  <2>1. /\ pc = "partial" /\ pos' = pos + take /\ rem' = rem - take /\ stack' = stack
        /\ IF rem > take THEN pushes' = <<call>> /\ pc' = "push"
           ELSE chunk' = full /\ pc' = "idle" /\ pushes' = pushes
    BY <1>2 DEF FinishPartialChunk
  <2>2. chunk_state_len(chunk) <= ChunkLen /\ chunk_state_len(chunk) > 0
    BY <1>0, <2>1 DEF ChunkInv
  <2>3. take \in Nat /\ take <= rem /\ chunk_state_len(chunk) + take <= ChunkLen
    BY <1>0, <2>2, SMT DEF AtMost
  <2> HIDE DEF take
  <2>4. full.counter = chunk.counter
    BY <1>0, <2>3, UpdatedChunk
  <2> HIDE DEF full, cv
  <2>5. pos' + rem' <= MaxTotal
    BY <1>0, <2>1, <2>3, SMT
  <2>6. CASE rem > take
    <3>1. Complete(call.entry)
      BY <1>0, ChunkComplete
    <3> HIDE DEF call
    <3>2. \A i \in 1 .. Len(<<call>>) : <<call>>[i] = call
      BY SMT
    <3>3. \A i \in 1 .. Len(pushes') : Complete(pushes'[i].entry)
      BY <2>1, <2>6, <3>1, <3>2
    <3>4. QED
      BY <1>0, <2>1, <2>5, <2>6, <3>3 DEF BinaryInv
  <2>7. CASE ~ (rem > take)
    <3>1. Len(stack) = popcnt[chunk.counter]
      BY <2>1, <2>2 DEF BinaryInv
    <3>2. QED
      BY <1>0, <2>1, <2>4, <2>5, <2>7, <3>1 DEF BinaryInv
  <2>8. QED
    BY <2>6, <2>7
<1>3. CASE HashSubtree
  <2>1. /\ rem > ChunkLen /\ pc' = "push" /\ stack' = stack
        /\ pushes' = IF subtree_len(rem) <= ChunkLen THEN single_chunk
                     ELSE cv_pair(subtree_len(rem) \div ChunkLen)
        /\ pos' = pos + subtree_len(rem) /\ rem' = rem - subtree_len(rem)
    BY <1>3 DEF HashSubtree, subtree_left
  <2>2. PICK k \in Nat \ {0} :
           /\ subtree_len(rem) = ChunkLen * k
           /\ subtree_len(rem) \div ChunkLen = k
           /\ ChunkLen * k <= rem
           /\ PowerOfTwo(k) /\ chunk.counter % k = 0
    BY <1>0, <2>1, SubtreeIsWhole
  <2>3. /\ ChunkLen * k \in Nat /\ (k = 1 <=> ChunkLen * k <= ChunkLen)
        /\ pos' + rem' <= MaxTotal
    BY <1>0, <2>1, <2>2, SMT
  <2>4. CASE k = 1
    <3>1. PICK cv : single_chunk = <<[counter |-> chunk.counter,
                                      entry |-> Entry(cv, chunk.counter, 1)]>>
      BY DEF single_chunk
    <3> DEFINE a == [counter |-> chunk.counter, entry |-> Entry(cv, chunk.counter, 1)]
    <3>2. Complete(a.entry)
      BY <1>0, ChunkComplete
    <3>3. pushes' = <<a>>
      BY <2>1, <2>2, <2>3, <2>4, <3>1
    <3> HIDE DEF a
    <3>4. \A i \in 1 .. Len(<<a>>) : <<a>>[i] = a
      BY SMT
    <3>5. \A i \in 1 .. Len(pushes') : Complete(pushes'[i].entry)
      BY <3>2, <3>3, <3>4
    <3>6. QED
      BY <1>0, <2>1, <2>3, <3>5 DEF BinaryInv
  <2>5. CASE k # 1
    <3> DEFINE h == k \div 2
               cv(c) == SubtreeCV(key, chunk.flags, c, h * ChunkLen)
               a == [counter |-> chunk.counter, entry |-> Entry(cv(chunk.counter), chunk.counter, h)]
               b == [counter |-> chunk.counter + h,
                     entry |-> Entry(cv(chunk.counter + h), chunk.counter + h, h)]
    <3>1. pushes' = cv_pair(k)
      BY <2>1, <2>2, <2>3, <2>5
    <3>2. cv_pair(k) = <<a, b>>
      BY DEF cv_pair
    <3> HIDE DEF cv
    <3>3. Complete(a.entry) /\ Complete(b.entry)
      BY <1>0, <2>2, <2>5, HalvesComplete
    <3> HIDE DEF a, b
    <3>4. \A i \in 1 .. Len(<<a, b>>) : <<a, b>>[i] = a \/ <<a, b>>[i] = b
      BY SMT
    <3>5. \A i \in 1 .. Len(pushes') : Complete(pushes'[i].entry)
      BY <3>1, <3>2, <3>3, <3>4
    <3>6. QED
      BY <1>0, <2>1, <2>3, <3>5 DEF BinaryInv
  <2>6. QED
    BY <2>4, <2>5
<1>4. CASE PushMerge
  <2>1. /\ pc = "push" /\ must_merge(Head(pushes).counter) /\ stack' = merge_top(stack)
        /\ pc' = pc /\ pos' = pos /\ rem' = rem /\ pushes' = pushes
    BY <1>4 DEF PushMerge
  <2>2. pushes # <<>> /\ Pushed = Head(pushes).counter /\ Covers(stack, Pushed)
        /\ Pending(pushes, Pushed, chunk.counter)
    BY <1>0, <2>1 DEF StackInv, Pushed
  <2>3. Pushed \in Nat
    BY <2>2, NextPending DEF PushOK
  <2>4. Len(stack) >= 2
    BY <2>1, <2>2, <2>3, TwoToMerge
  <2>5. Binary(stack')
    BY <1>0, <2>1, <2>2, <2>3, <2>4, MergeBinary DEF must_merge
  <2>6. QED
    BY <1>0, <2>1, <2>5 DEF BinaryInv
<1>5. CASE PushEntry
  <2> DEFINE e == Head(pushes).entry
  <2>1. /\ pc = "push" /\ stack' = Append(stack, e) /\ pushes' = Tail(pushes)
        /\ pc' = IF Len(pushes) = 1 THEN "loop" ELSE "push"
        /\ pos' = pos /\ rem' = rem /\ ~ must_merge(Head(pushes).counter)
    BY <1>5 DEF PushEntry
  <2>2. pushes # <<>> /\ Pushed = Head(pushes).counter /\ Covers(stack, Pushed)
        /\ Pending(pushes, Pushed, chunk.counter)
    BY <1>0, <2>1 DEF StackInv, Pushed
  <2>3. Pushed = e.first /\ e.first \in Nat
    BY <2>2, NextPending DEF PushOK
  <2>4. Complete(e) /\ \A i \in 1 .. Len(pushes') : Complete(pushes'[i].entry)
    BY <1>0, <2>1, <2>2, NextComplete
  <2> HIDE DEF e
  <2>5. Binary(stack')
    BY <1>0, <2>1, <2>2, <2>3, <2>4, AppendBinary DEF must_merge
  <2>6. pc' \notin {"idle", "partial"}
    BY <2>1
  <2>7. QED
    BY <1>0, <2>1, <2>4, <2>5, <2>6 DEF BinaryInv
<1>6. CASE AbsorbTail
  <2>1. /\ pc = "loop" /\ pos' = pos + rem /\ rem' = 0 /\ stack' = stack /\ pushes' = pushes
        /\ IF rem > 0 THEN pc' = "merge" ELSE pc' = "idle" /\ chunk' = chunk
    BY <1>6 DEF AbsorbTail, take_tail
  <2>2. chunk_state_len(chunk) = 0 /\ ~ (0 > 0)
    BY <1>0, <2>1, SMT DEF ChunkInv
  <2>3. pos' + rem' <= MaxTotal
    BY <1>0, <2>1, SMT
  <2>4. QED
    BY <1>0, <1>a, <2>1, <2>2, <2>3 DEF BinaryInv
<1>7. CASE FinalMerge
  <2>1. /\ pc = "merge" /\ chunk' = chunk /\ pos' = pos /\ rem' = rem /\ pushes' = pushes
        /\ IF must_merge(chunk.counter) THEN stack' = merge_top(stack) /\ pc' = pc
           ELSE pc' = "idle" /\ stack' = stack
    BY <1>7 DEF FinalMerge
  <2>2. Covers(stack, chunk.counter)
    BY <1>0, <2>1 DEF StackInv, Pushed
  <2>3. CASE must_merge(chunk.counter)
    <3>1. Binary(stack')
      BY <1>0, <2>1, <2>2, <2>3, TwoToMerge, MergeBinary DEF must_merge
    <3>2. QED
      BY <1>0, <2>1, <2>3, <3>1 DEF BinaryInv
  <2>4. CASE ~ must_merge(chunk.counter)
    <3>1. Len(stack) = popcnt[chunk.counter]
      BY <1>0, <2>2, <2>4, BinaryLength, SMT DEF must_merge
    <3>2. QED
      BY <1>0, <2>1, <2>4, <3>1 DEF BinaryInv
  <2>5. QED
    BY <2>3, <2>4
<1>8. CASE Finalize
  <2>1. /\ chunk' = chunk /\ stack' = stack /\ pc' = pc /\ pos' = pos
        /\ rem' = rem /\ pushes' = pushes
    BY <1>8 DEF Finalize
  <2>2. QED
    BY <1>a, <2>1 DEF BinaryInv
<1>9. CASE Reset
  <2>1. /\ chunk' = chunk_state_init(key, 0, chunk.flags) /\ stack' = <<>>
        /\ pos' = 0 /\ rem' = rem /\ pushes' = pushes
    BY <1>9 DEF Reset, chunk_state_reset
  <2>2. chunk_state_len(chunk)' = chunk_state_len(chunk')
    BY DEF chunk_state_len
  <2>3. chunk_state_len(chunk)' = 0 /\ ~ (0 > 0)
    BY <2>1, <2>2, FreshChunk, SMT
  <2>4. pos' + rem' <= MaxTotal
    BY <1>0, <2>1, SMT
  <2>5. Binary(<<>>)
    BY <1>b DEF Binary
  <2>6. QED
    BY <1>0, <2>1, <2>3, <2>4, <2>5 DEF BinaryInv
<1>10. CASE UNCHANGED vars
  <2>1. /\ chunk' = chunk /\ stack' = stack /\ pc' = pc /\ pos' = pos
        /\ rem' = rem /\ pushes' = pushes
    BY <1>10 DEF vars
  <2>2. QED
    BY <1>a, <2>1 DEF BinaryInv
<1>11. QED
  BY <1>1, <1>2, <1>3, <1>4, <1>5, <1>6, <1>7, <1>8, <1>9, <1>10 DEF Next

\* Every reachable state of the hasher satisfies both invariants.
THEOREM BinaryInvariant == Spec => [](HasherInv /\ BinaryInv)
BY HasherInitInv, HasherStepInv, BinaryInitInv, BinaryStepInv, PTL DEF Spec

\* The stack entries are subtrees of a power of two of chunks at a multiple of
\* their size, the smaller above the larger: hasher_merge_cv_stack, which knows
\* only the chunk counter, never joins subtrees that are not siblings.
THEOREM AlignedCorrect == Spec => []AlignedSubtrees
<1>1. HasherInv /\ BinaryInv => AlignedSubtrees
  <2> SUFFICES ASSUME HasherInv, BinaryInv, NEW i \in DOMAIN stack
               PROVE  /\ stack[i].chunks = round_down_to_power_of_2[stack[i].chunks]
                      /\ stack[i].first % stack[i].chunks = 0
                      /\ i > 1 => stack[i].chunks <= stack[i - 1].chunks
    BY DEF AlignedSubtrees
  <2>1. PICK S : stack \in Seq(S)
    BY DEF HasherInv, StackInv, Covers
  <2>2. i \in 1 .. Len(stack)
    BY <2>1, LenProperties
  <2>3. QED
    BY <2>2 DEF BinaryInv, Binary, Complete, PowerOfTwo
<1>2. QED
  BY <1>1, BinaryInvariant, PTL

\* Once an update has returned with bytes in the chunk state, the stack has one
\* entry for each 1 bit of the chunk counter, and finalize may roll it up.
THEOREM NoUnmergedCorrect == Spec => []NoUnmergedPair
<1>1. BinaryInv => NoUnmergedPair
  BY DEF BinaryInv, NoUnmergedPair
<1>2. QED
  BY <1>1, BinaryInvariant, PTL

\* cv_stack has a slot for every push, in the middle of an update too: the top
\* entry begins below 2^MaxDepth chunks, and as many entries lie below it as
\* the number of that chunk has 1 bits.
THEOREM StackFitsCorrect == Spec => []StackFits
<1>1. HasherInv /\ BinaryInv => StackFits
  <2> SUFFICES ASSUME HasherInv, BinaryInv
               PROVE  Len(stack) <= MaxDepth + 1
    BY DEF StackFits
  <2>1. /\ chunk.counter \in Nat /\ chunk_state_len(chunk) \in Nat /\ pos \in Nat /\ rem \in Nat
        /\ ChunkLen \in Nat \ {0} /\ pos = chunk.counter * ChunkLen + chunk_state_len(chunk)
        /\ Pending(pushes, Pushed, chunk.counter) /\ Covers(stack, Pushed)
    BY ChunkTypes, HashTreeAssumption
    DEF HasherInv, Typed, ChunkInv, BytesAccounted, StackInv
  <2>2. PICK S : stack \in Seq(S)
    BY <2>1 DEF Covers
  <2>3. CASE stack = <<>>
    BY <2>3, EmptySeq, HasherAssumption, SMT
  <2>4. CASE stack # <<>>
    <3> DEFINE n == Len(stack)
               f == stack[n].first
               a == stack[n].chunks
    <3>1. n \in 1 .. n /\ n \in Nat
      BY <2>2, <2>4, EmptySeq, LenProperties, SMT
    <3>2. f \in Nat /\ a \in Nat \ {0} /\ f + a = Pushed /\ popcnt[f] = n - 1
      BY <2>1, <2>4, <3>1 DEF BinaryInv, Binary, Complete, PowerOfTwo, Covers
    <3>3. Pushed \in Nat /\ Pushed <= chunk.counter
      <4>1. ASSUME NEW p, PushOK(p), p.entry.first = Pushed,
                   chunk.counter = p.entry.first + p.entry.chunks
            PROVE  Pushed \in Nat /\ Pushed <= chunk.counter
        BY <4>1, SMT DEF PushOK
      <4>2. ASSUME NEW p, NEW q, PushOK(p), PushOK(q), p.entry.first = Pushed,
                   q.entry.first = p.entry.first + p.entry.chunks,
                   chunk.counter = q.entry.first + q.entry.chunks
            PROVE  Pushed \in Nat /\ Pushed <= chunk.counter
        BY <4>2, SMT DEF PushOK
      <4>3. CASE Pushed = chunk.counter
        BY <2>1, <4>3, SMT
      <4>4. QED
        BY <2>1, <4>1, <4>2, <4>3 DEF Pending
    <3> HIDE DEF n, f, a
    <3>4. f < chunk.counter
      BY <2>1, <3>2, <3>3, SMT
    <3>5. 2 ^ MaxDepth \in Nat /\ MaxDepth \in Nat
      BY HasherAssumption, TwoToNext
    <3> DEFINE limit == 2 ^ MaxDepth
               count == chunk.counter
    <3>6. count * ChunkLen <= ChunkLen * limit
      <4>1. count * ChunkLen \in Nat /\ ChunkLen * limit \in Nat
        BY <2>1, <3>5, MultipleDivided
      <4>2. pos + rem <= MaxTotal /\ MaxTotal \in Nat /\ MaxTotal <= ChunkLen * limit
        BY HasherAssumption DEF BinaryInv
      <4> HIDE DEF limit, count
      <4>3. pos = count * ChunkLen + chunk_state_len(chunk)
        BY <2>1 DEF count
      <4>4. QED
        BY <2>1, <4>1, <4>2, <4>3, SMT
    <3>7. count <= limit
      <4>1. limit \in Nat /\ count \in Nat
        BY <2>1, <3>5
      <4> HIDE DEF limit, count
      <4>2. QED
        BY <2>1, <3>6, <4>1, SMT
    <3>8. f < limit
      <4>1. limit \in Nat /\ count \in Nat
        BY <2>1, <3>5
      <4> HIDE DEF limit
      <4>2. QED
        BY <3>2, <3>4, <3>7, <4>1, SMT
    <3>9. popcnt[f] <= MaxDepth
      BY <3>2, <3>5, <3>8, PopcntOfBits
    <3>10. QED
      BY <3>1, <3>2, <3>5, <3>9, SMT DEF n
  <2>5. QED
    BY <2>3, <2>4
<1>2. QED
  BY <1>1, BinaryInvariant, PTL

-----------------------------------------------------------------------------
(* What the chunk state and the chaining values stand for. *)

ContentInv ==
  /\ key = ModeKey(mode, ContextLen)
  /\ chunk.flags = ModeFlags(mode)
  /\ HoldsInput(key, chunk.flags, chunk)
  /\ \A i \in 1 .. Len(stack) : IsSubtree(key, chunk.flags, stack[i])
  /\ \A i \in 1 .. Len(pushes) : IsSubtree(key, chunk.flags, pushes[i].entry)

\* A merge that the counter asks for joins the two halves of a subtree.
LEMMA MergeContent ==
  ASSUME NEW s, NEW limit \in Nat, Covers(s, limit), Binary(s), Len(s) >= 2,
         Len(s) > popcnt[limit],
         \A i \in 1 .. Len(s) : IsSubtree(key, chunk.flags, s[i])
  PROVE  \A i \in 1 .. Len(merge_top(s)) : IsSubtree(key, chunk.flags, merge_top(s)[i])
BY MergeIsJoin, JoinContent

\* The chunk state takes more input.
LEMMA MoreInput ==
  ASSUME HasherInv, ContentInv, NEW n \in Nat, chunk_state_len(chunk) + n > 0
  PROVE  chunk_state_update(chunk, pos, n)
           = Holding(key, chunk.flags, chunk.counter, chunk_state_len(chunk) + n)
<1> DEFINE len == chunk_state_len(chunk)
           c == chunk.counter
<1>1. c \in Nat /\ len \in Nat /\ pos = c * ChunkLen + len
  BY ChunkTypes DEF HasherInv, ChunkInv, BytesAccounted
<1>2. chunk = Holding(key, chunk.flags, c, len)
  BY DEF ContentInv, HoldsInput
<1>3. len + n > 0
  OBVIOUS
<1> HIDE DEF len, c
<1>4. chunk_state_update(Holding(key, chunk.flags, c, len), c * ChunkLen + len, n)
        = Holding(key, chunk.flags, c, len + n)
  BY <1>1, <1>3, UpdatedHolding
<1>5. QED
  BY <1>1, <1>2, <1>4 DEF len, c

\* A call of hasher_push_cv leaves the next one, for a subtree of the tree too.
LEMMA NextContent ==
  ASSUME NEW k, NEW flags, NEW calls, NEW from, NEW to, Pending(calls, from, to), calls # <<>>,
         \A i \in 1 .. Len(calls) : IsSubtree(k, flags, calls[i].entry)
  PROVE  /\ IsSubtree(k, flags, Head(calls).entry)
         /\ \A i \in 1 .. Len(Tail(calls)) : IsSubtree(k, flags, Tail(calls)[i].entry)
<1>1. ASSUME NEW a, calls = <<a>>
      PROVE  /\ IsSubtree(k, flags, Head(calls).entry)
             /\ \A i \in 1 .. Len(Tail(calls)) : IsSubtree(k, flags, Tail(calls)[i].entry)
  <2>1. /\ Head(calls) = a /\ calls[1] = a /\ 1 \in 1 .. Len(calls)
        /\ \A i \in 1 .. Len(Tail(calls)) : FALSE
    BY <1>1, SMT
  <2>2. QED
    BY <2>1
<1>2. ASSUME NEW a, NEW b, calls = <<a, b>>
      PROVE  /\ IsSubtree(k, flags, Head(calls).entry)
             /\ \A i \in 1 .. Len(Tail(calls)) : IsSubtree(k, flags, Tail(calls)[i].entry)
  <2>1. /\ Head(calls) = a /\ calls[1] = a /\ calls[2] = b /\ 1 \in 1 .. Len(calls)
        /\ 2 \in 1 .. Len(calls) /\ Tail(calls)[1] = b /\ \A i \in 1 .. Len(Tail(calls)) : i = 1
    BY <1>2, SMT
  <2>2. QED
    BY <2>1
<1>3. QED
  BY <1>1, <1>2 DEF Pending

\* The three initialisers start from an empty chunk and no chaining value.
LEMMA ContentInitInv == Init => ContentInv
<1> SUFFICES ASSUME Init
             PROVE  ContentInv
  OBVIOUS
<1> DEFINE k == ModeKey(mode, ContextLen)
           flags == ModeFlags(mode)
<1>1. key = k /\ chunk = chunk_state_init(k, 0, flags) /\ stack = <<>> /\ pushes = <<>>
  BY DEF Init, hasher_init_base
<1> HIDE DEF k, flags
<1>2. chunk = Holding(k, flags, 0, 0)
  BY <1>1, HoldingNothing
<1>3. HoldsInput(k, flags, chunk) /\ chunk.flags = flags
  BY <1>2, HeldState
<1>4. (\A i : i \notin 1 .. 0) /\ Len(<<>>) = 0
  BY EmptySeq, SMT
<1>5. QED
  BY <1>1, <1>3, <1>4 DEF ContentInv, k, flags

\* Every step of update compresses what its entry stands for.
LEMMA ContentStepInv == HasherInv /\ BinaryInv /\ ContentInv /\ [Next]_vars => ContentInv'
<1> SUFFICES ASSUME HasherInv, BinaryInv, ContentInv, [Next]_vars
             PROVE  ContentInv'
  OBVIOUS
<1> DEFINE c == chunk.counter
           len == chunk_state_len(chunk)
           flags == chunk.flags
<1>0. /\ ChunkInv /\ StackInv /\ c \in Nat /\ len \in Nat
      /\ ChunkLen \in Nat \ {0} /\ pos \in Nat /\ rem \in Nat /\ pos = c * ChunkLen + len
      /\ Binary(stack) /\ key = ModeKey(mode, ContextLen) /\ flags = ModeFlags(mode)
      /\ HoldsInput(key, flags, chunk)
      /\ \A i \in 1 .. Len(stack) : IsSubtree(key, flags, stack[i])
      /\ \A i \in 1 .. Len(pushes) : IsSubtree(key, flags, pushes[i].entry)
  BY ChunkTypes, HashTreeAssumption
  DEF HasherInv, ChunkInv, Typed, BytesAccounted, BinaryInv, ContentInv
<1>a. (\A i : i \notin 1 .. 0) /\ Len(<<>>) = 0
  BY EmptySeq, SMT
<1>1. ASSUME NEW n \in 1 .. MaxTotal, UpdateCall(n)
      PROVE  ContentInv'
  <2>1. mode' = mode /\ key' = key /\ chunk' = chunk /\ stack' = stack /\ pushes' = pushes
    BY <1>1 DEF UpdateCall
  <2>2. QED
    BY <1>0, <2>1 DEF ContentInv
<1>2. CASE FinishPartialChunk
  <2> DEFINE take == AtMost(ChunkLen - len, rem)
             full == chunk_state_update(chunk, pos, take)
             cv == output_chaining_value(chunk_state_output(full))
             call == [counter |-> c, entry |-> Entry(cv, c, 1)]
  <2>1. /\ pc = "partial" /\ stack' = stack /\ mode' = mode /\ key' = key
        /\ IF rem > take
           THEN pushes' = <<call>> /\ chunk' = chunk_state_reset(chunk, key, c + 1)
           ELSE chunk' = full /\ pushes' = pushes
    BY <1>2 DEF FinishPartialChunk
  <2>2. len <= ChunkLen /\ len > 0
    BY <1>0, <2>1 DEF ChunkInv
  <2> HIDE DEF len
  <2>3. take \in Nat /\ len + take > 0 /\ len + take \in Nat
        /\ (rem > take => len + take = ChunkLen)
    BY <1>0, <2>2, SMT DEF AtMost
  <2> HIDE DEF take
  <2>4. full = Holding(key, flags, c, len + take)
    BY <2>3, MoreInput DEF len
  <2> HIDE DEF full, c, flags
  <2>5. CASE rem > take
    <3>1. cv = SubtreeCV(key, flags, c, 1 * ChunkLen)
      BY <1>0, <2>3, <2>4, <2>5, WholeChunk
    <3> HIDE DEF cv
    <3>2. IsSubtree(key, flags, call.entry)
      BY <3>1 DEF IsSubtree, Entry
    <3> HIDE DEF call
    <3>3. \A i \in 1 .. Len(<<call>>) : <<call>>[i] = call
      BY SMT
    <3>4. chunk' = chunk_state_init(key, c + 1, flags) /\ c + 1 \in Nat
      BY <1>0, <2>1, <2>5, SMT DEF chunk_state_reset, flags
    <3>5. chunk' = Holding(key, flags, c + 1, 0)
      BY <3>4, HoldingNothing
    <3>6. HoldsInput(key, flags, chunk') /\ chunk'.flags = flags
      BY <3>4, <3>5, HeldState
    <3>7. QED
      BY <1>0, <2>1, <2>5, <3>2, <3>3, <3>6 DEF ContentInv, HoldsInput, chunk_state_len
  <2>6. CASE ~ (rem > take)
    <3>1. HoldsInput(key, flags, chunk') /\ chunk'.flags = flags
      BY <1>0, <2>1, <2>3, <2>4, <2>6, HeldState
    <3>2. QED
      BY <1>0, <2>1, <2>6, <3>1 DEF ContentInv, HoldsInput, chunk_state_len
  <2>7. QED
    BY <2>5, <2>6
<1>3. CASE HashSubtree
  <2>1. /\ pc = "loop" /\ rem > ChunkLen /\ stack' = stack /\ mode' = mode /\ key' = key
        /\ pushes' = IF subtree_len(rem) <= ChunkLen THEN single_chunk
                     ELSE cv_pair(subtree_len(rem) \div ChunkLen)
        /\ chunk' = [chunk EXCEPT !.counter = c + (subtree_len(rem) \div ChunkLen)]
    BY <1>3 DEF HashSubtree, subtree_left
  <2>2. PICK k \in Nat \ {0} :
           /\ subtree_len(rem) = ChunkLen * k
           /\ subtree_len(rem) \div ChunkLen = k
           /\ k # 1 => k \div 2 \in Nat \ {0} /\ k = 2 * (k \div 2)
    BY <1>0, <2>1, SubtreeIsWhole
  <2>3. len = 0
    BY <1>0, <2>1 DEF ChunkInv
  <2>4. chunk = chunk_state_init(key, c, flags)
    BY <1>0, <2>3, HoldingNothing DEF HoldsInput
  <2> HIDE DEF c, flags, len
  <2>5. chunk' = Holding(key, flags, c + k, 0)
    <3>1. chunk' = chunk_state_init(key, c + k, flags)
      <4>1. chunk' = [chunk EXCEPT !.counter = c + k]
        BY <2>1, <2>2
      <4>2. [chunk_state_init(key, c, flags) EXCEPT !.counter = c + k]
              = chunk_state_init(key, c + k, flags)
        BY DEF chunk_state_init
      <4>3. QED
        BY <2>4, <4>1, <4>2
    <3>2. c + k \in Nat
      BY <1>0, SMT
    <3>3. QED
      BY <3>1, <3>2, HoldingNothing
  <2>6. HoldsInput(key, flags, chunk') /\ chunk'.flags = flags
    <3>1. c + k \in Nat /\ 0 \in Nat
      BY <1>0, SMT
    <3>2. QED
      BY <2>5, <3>1, HeldState
  <2>7. k = 1 <=> ChunkLen * k <= ChunkLen
    BY <1>0, SMT
  <2>8. \A i \in 1 .. Len(pushes') : IsSubtree(key, flags, pushes'[i].entry)
    <3>1. CASE k = 1
      <4> DEFINE whole == chunk_state_update(chunk_state_init(key, c, flags), pos, ChunkLen)
                 cv == output_chaining_value(chunk_state_output(whole))
                 a == [counter |-> c, entry |-> Entry(cv, c, 1)]
      <4>1. pushes' = <<a>>
        BY <2>1, <2>2, <2>7, <3>1 DEF single_chunk, c, flags
      <4>2. whole = Holding(key, flags, c, ChunkLen)
        <5>1. ChunkLen \in Nat /\ len + ChunkLen > 0 /\ len + ChunkLen = ChunkLen
          BY <1>0, <2>3, SMT
        <5>2. chunk_state_update(chunk, pos, ChunkLen) = Holding(key, flags, c, len + ChunkLen)
          BY <5>1, MoreInput DEF len, flags, c
        <5>3. QED
          BY <2>4, <5>1, <5>2
      <4> HIDE DEF whole
      <4>3. cv = SubtreeCV(key, flags, c, 1 * ChunkLen)
        BY <1>0, <4>2, WholeChunk
      <4> HIDE DEF cv
      <4>4. IsSubtree(key, flags, a.entry)
        BY <4>3 DEF IsSubtree, Entry
      <4> HIDE DEF a
      <4>5. \A i \in 1 .. Len(<<a>>) : <<a>>[i] = a
        BY SMT
      <4>6. QED
        BY <4>1, <4>4, <4>5
    <3>2. CASE k # 1
      <4> DEFINE h == k \div 2
                 a == [counter |-> c,
                       entry |-> Entry(SubtreeCV(key, flags, c, h * ChunkLen), c, h)]
                 b == [counter |-> c + h,
                       entry |-> Entry(SubtreeCV(key, flags, c + h, h * ChunkLen), c + h, h)]
      <4>1. pushes' = <<a, b>>
        <5>1. pushes' = cv_pair(k)
          BY <2>1, <2>2, <2>7, <3>2
        <5>2. cv_pair(k) = <<a, b>>
          BY DEF cv_pair, c, flags
        <5>3. QED
          BY <5>1, <5>2
      <4>2. IsSubtree(key, flags, a.entry) /\ IsSubtree(key, flags, b.entry)
        BY DEF IsSubtree, Entry
      <4> HIDE DEF a, b
      <4>3. \A i \in 1 .. Len(<<a, b>>) : <<a, b>>[i] = a \/ <<a, b>>[i] = b
        BY SMT
      <4>4. QED
        BY <4>1, <4>2, <4>3
    <3>3. QED
      BY <3>1, <3>2
  <2>9. QED
    BY <1>0, <2>1, <2>6, <2>8 DEF ContentInv, HoldsInput, chunk_state_len
<1>4. CASE PushMerge
  <2>1. /\ pc = "push" /\ must_merge(Head(pushes).counter) /\ stack' = merge_top(stack)
        /\ mode' = mode /\ key' = key /\ chunk' = chunk /\ pushes' = pushes
    BY <1>4 DEF PushMerge
  <2>2. pushes # <<>> /\ Pushed = Head(pushes).counter /\ Covers(stack, Pushed)
        /\ Pending(pushes, Pushed, chunk.counter)
    BY <1>0, <2>1 DEF StackInv, Pushed
  <2>3. Pushed \in Nat
    BY <2>2, NextPending DEF PushOK
  <2>4. Len(stack) >= 2
    BY <2>1, <2>2, <2>3, TwoToMerge
  <2>5. \A i \in 1 .. Len(stack') : IsSubtree(key, chunk.flags, stack'[i])
    BY <1>0, <2>1, <2>2, <2>3, <2>4, MergeContent DEF must_merge
  <2>6. QED
    BY <1>0, <2>1, <2>5 DEF ContentInv
<1>5. CASE PushEntry
  <2> DEFINE e == Head(pushes).entry
  <2>1. /\ pc = "push" /\ stack' = Append(stack, e) /\ pushes' = Tail(pushes)
        /\ mode' = mode /\ key' = key /\ chunk' = chunk
    BY <1>5 DEF PushEntry
  <2>2. pushes # <<>> /\ Covers(stack, Pushed) /\ Pending(pushes, Pushed, chunk.counter)
    BY <1>0, <2>1 DEF StackInv
  <2>3. /\ IsSubtree(key, flags, e)
        /\ \A i \in 1 .. Len(Tail(pushes)) : IsSubtree(key, flags, Tail(pushes)[i].entry)
    BY <1>0, <2>2, NextContent
  <2> HIDE DEF e, flags
  <2>4. PICK S : stack \in Seq(S)
    BY <2>2 DEF Covers
  <2>5. /\ Len(stack') = Len(stack) + 1 /\ Len(stack) \in Nat /\ stack'[Len(stack) + 1] = e
        /\ \A i \in 1 .. Len(stack) : stack'[i] = stack[i]
    BY <2>1, <2>4, SMT
  <2>6. \A i \in 1 .. Len(stack') : i = Len(stack) + 1 \/ i \in 1 .. Len(stack)
    BY <2>5, SMT
  <2>7. \A i \in 1 .. Len(stack') : IsSubtree(key, flags, stack'[i])
    BY <1>0, <2>3, <2>5, <2>6
  <2>8. QED
    BY <1>0, <2>1, <2>3, <2>7 DEF ContentInv, flags
<1>6. CASE AbsorbTail
  <2>1. /\ pc = "loop" /\ stack' = stack /\ pushes' = pushes /\ mode' = mode /\ key' = key
        /\ IF rem > 0 THEN chunk' = chunk_state_update(chunk, pos, rem) ELSE chunk' = chunk
    BY <1>6 DEF AbsorbTail, take_tail
  <2>2. CASE rem > 0
    <3>1. len + rem > 0 /\ len + rem \in Nat
      BY <1>0, <2>2, SMT
    <3>2. chunk' = Holding(key, flags, c, len + rem)
      BY <1>0, <2>1, <2>2, <3>1, MoreInput
    <3> HIDE DEF flags, c, len
    <3>3. HoldsInput(key, flags, chunk') /\ chunk'.flags = flags
      BY <1>0, <3>1, <3>2, HeldState
    <3>4. QED
      BY <1>0, <2>1, <3>3 DEF ContentInv, HoldsInput, chunk_state_len
  <2>3. CASE ~ (rem > 0)
    BY <1>0, <2>1, <2>3 DEF ContentInv
  <2>4. QED
    BY <2>2, <2>3
<1>7. CASE FinalMerge
  <2>1. /\ pc = "merge" /\ mode' = mode /\ key' = key /\ chunk' = chunk /\ pushes' = pushes
        /\ IF must_merge(chunk.counter) THEN stack' = merge_top(stack) ELSE stack' = stack
    BY <1>7 DEF FinalMerge
  <2>2. Covers(stack, chunk.counter)
    BY <1>0, <2>1 DEF StackInv, Pushed
  <2>3. CASE must_merge(chunk.counter)
    <3>1. \A i \in 1 .. Len(stack') : IsSubtree(key, chunk.flags, stack'[i])
      BY <1>0, <2>1, <2>2, <2>3, TwoToMerge, MergeContent DEF must_merge
    <3>2. QED
      BY <1>0, <2>1, <3>1 DEF ContentInv
  <2>4. CASE ~ must_merge(chunk.counter)
    BY <1>0, <2>1, <2>4 DEF ContentInv
  <2>5. QED
    BY <2>3, <2>4
<1>8. CASE Finalize
  <2>1. mode' = mode /\ key' = key /\ chunk' = chunk /\ stack' = stack /\ pushes' = pushes
    BY <1>8 DEF Finalize
  <2>2. QED
    BY <1>0, <2>1 DEF ContentInv
<1>9. CASE Reset
  <2>1. /\ chunk' = chunk_state_init(key, 0, flags) /\ stack' = <<>>
        /\ mode' = mode /\ key' = key /\ pushes' = pushes
    BY <1>9 DEF Reset, chunk_state_reset
  <2>2. chunk' = Holding(key, flags, 0, 0)
    BY <2>1, HoldingNothing
  <2>3. HoldsInput(key, flags, chunk') /\ chunk'.flags = flags
    BY <2>2, HeldState
  <2>4. QED
    BY <1>0, <1>a, <2>1, <2>3 DEF ContentInv, HoldsInput, chunk_state_len
<1>10. CASE UNCHANGED vars
  <2>1. mode' = mode /\ key' = key /\ chunk' = chunk /\ stack' = stack /\ pushes' = pushes
    BY <1>10 DEF vars
  <2>2. QED
    BY <1>0, <2>1 DEF ContentInv
<1>11. QED
  BY <1>1, <1>2, <1>3, <1>4, <1>5, <1>6, <1>7, <1>8, <1>9, <1>10 DEF Next

\* Every chaining value that update has made or is about to push is the one of
\* its place in the tree, and the chunk state is that of the bytes after them.
THEOREM ContentInvariant == Spec => [](HasherInv /\ BinaryInv /\ ContentInv)
BY HasherInitInv, HasherStepInv, BinaryInitInv, BinaryStepInv, ContentInitInv, ContentStepInv,
   PTL DEF Spec

-----------------------------------------------------------------------------
(* finalize.  When its loop has taken in the entries from number r + 1 up,  *)
(* it holds the output of the tree from that entry to the end.              *)

Settled == HasherInv /\ BinaryInv /\ ContentInv /\ pc = "idle"

\* The first chunk after r entries, and the tree from there to the end.
FirstAfter(r) == EdgeStart(stack, chunk.counter, r)

Part(r) == EdgeOutput(key, chunk.flags, stack, chunk.counter, pos, r)

\* What the invariants say of the state between two calls.
LEMMA SettledState ==
  ASSUME Settled
  PROVE  /\ chunk.counter \in Nat /\ chunk_state_len(chunk) \in 0 .. ChunkLen /\ pos \in Nat
         /\ pos = chunk.counter * ChunkLen + chunk_state_len(chunk)
         /\ rem = 0 /\ pushes = <<>> /\ Len(stack) \in Nat
         /\ Covers(stack, chunk.counter) /\ Binary(stack)
         /\ chunk_state_len(chunk) > 0 => Len(stack) = popcnt[chunk.counter]
         /\ chunk_state_len(chunk) = 0 /\ stack # <<>> => Len(stack) >= 2
         /\ \A i \in 1 .. Len(stack) : IsSubtree(key, chunk.flags, stack[i])
<1> DEFINE c == chunk.counter
           len == chunk_state_len(chunk)
<1>1. /\ c \in Nat /\ len \in Nat /\ len <= ChunkLen /\ pos \in Nat /\ pos = c * ChunkLen + len
      /\ rem = 0 /\ pushes = <<>> /\ Covers(stack, Pushed) /\ Binary(stack)
      /\ len > 0 => Len(stack) = popcnt[c]
      /\ \A i \in 1 .. Len(stack) : IsSubtree(key, chunk.flags, stack[i])
  BY ChunkTypes
  DEF Settled, HasherInv, Typed, ChunkInv, BytesAccounted, StackInv, RootInv, BinaryInv, ContentInv
<1>2. Pushed = c
  BY <1>1 DEF Pushed
<1>3. PICK S : stack \in Seq(S)
  BY <1>1 DEF Covers
<1>4. Len(stack) \in Nat /\ Len(pushes) = 0
  BY <1>1, <1>3, LenProperties, EmptySeq
<1>5. len = 0 /\ stack # <<>> => Len(stack) >= 2
  <2> SUFFICES ASSUME len = 0, stack # <<>>
               PROVE  Len(stack) >= 2
    OBVIOUS
  <2>1. Len(stack) + Len(pushes) >= 2
    BY <1>1 DEF Settled, HasherInv, RootInv
  <2>2. QED
    BY <1>4, <2>1, SMT
<1>6. len \in 0 .. ChunkLen
  <2> HIDE DEF len
  <2>1. QED
    BY <1>1, HashTreeAssumption, SMT
<1>7. QED
  BY <1>1, <1>2, <1>4, <1>5, <1>6

\* Where an entry ends, what follows it begins.
LEMMA PartAfter ==
  ASSUME Settled, NEW i \in 1 .. Len(stack)
  PROVE  /\ FirstAfter(i - 1) = stack[i].first /\ stack[i].first \in Nat
         /\ FirstAfter(i) = stack[i].first + stack[i].chunks
         /\ pos - FirstAfter(i) * ChunkLen = Rest(stack, pos, i) - Width(stack, i)
         /\ Part(i - 1) = TreeOutput(key, chunk.flags, stack[i].first, Rest(stack, pos, i))
         /\ stack[i].cv = SubtreeCV(key, chunk.flags, stack[i].first, Width(stack, i))
<1>1. /\ chunk.counter \in Nat /\ pos \in Nat
      /\ SubtreeStack(key, chunk.flags, stack, chunk.counter)
  BY SettledState DEF SubtreeStack
<1>2. QED
  BY <1>1, EdgeAfter DEF FirstAfter, Part

\* Going up the right edge: the tree from an entry on is a parent of the entry
\* and of the tree after it.
LEMMA PartIsParent ==
  ASSUME Settled, NEW i \in 1 .. Len(stack), chunk_state_len(chunk) > 0 \/ i # Len(stack)
  PROVE  Part(i - 1) = parent_output(stack[i].cv, output_chaining_value(Part(i)), key, chunk.flags)
BY SettledState, EdgeIsParent DEF SubtreeStack, Part

\* The number of entries that finalize does not begin with, and an iteration
\* of its loop.
Below == IF from_chunk THEN Len(stack) ELSE Len(stack) - 2

Rolled(f, r) ==
  IF r = Below
  THEN IF from_chunk THEN chunk_state_output(chunk)
       ELSE parent_output(stack[Below + 1].cv, stack[Below + 2].cv, key, chunk.flags)
  ELSE parent_output(stack[r + 1].cv, output_chaining_value(f[r + 1]), key, chunk.flags)

\* finalize begins with the chunk state, or with the two top entries.
LEMMA RolledFirst ==
  ASSUME Settled, NEW f
  PROVE  Below \in Nat /\ Rolled(f, Below) = Part(Below)
<1> DEFINE n == Len(stack)
           len == chunk_state_len(chunk)
           c == chunk.counter
           flags == chunk.flags
<1>1. /\ c \in Nat /\ len \in 0 .. ChunkLen /\ pos = c * ChunkLen + len /\ n \in Nat
      /\ Covers(stack, c) /\ (len = 0 /\ stack # <<>> => n >= 2) /\ ChunkLen \in Nat \ {0}
  BY SettledState, HashTreeAssumption
<1>2. CASE from_chunk
  <2>1. Below = n
    BY <1>2 DEF Below
  <2>2. len > 0 \/ c = 0
    BY <1>1, <1>2 DEF from_chunk, Covers
  <2> HIDE DEF n, len, c, flags
  <2>3. FirstAfter(n) = c
    BY DEF FirstAfter, EdgeStart, n, c
  <2>4. len \in Nat /\ len <= ChunkLen /\ pos - c * ChunkLen = len
    BY <1>1, SMT
  <2>5. Part(n) = ChunkOutput(key, flags, c, len)
    <3>1. Part(n) = TreeOutput(key, flags, c, len)
      BY <2>3, <2>4 DEF Part, EdgeOutput, FirstAfter, flags, c
    <3>2. QED
      BY <1>1, <2>4, <3>1, TreeOutputRecursion
  <2>6. chunk = Holding(key, flags, c, len)
    BY DEF Settled, ContentInv, HoldsInput, flags, c, len
  <2>7. chunk_state_output(chunk) = ChunkOutput(key, flags, c, len)
    BY <1>1, <2>2, <2>4, <2>6, HoldingOutput
  <2>8. QED
    BY <1>1, <1>2, <2>1, <2>5, <2>7 DEF Rolled
<1>3. CASE ~ from_chunk
  <2>1. len = 0 /\ n >= 2
    <3> HIDE DEF len, n
    <3>1. stack # <<>> /\ ~ (len > 0)
      BY <1>3 DEF from_chunk, len
    <3>2. len = 0
      BY <1>1, <3>1, SMT
    <3>3. QED
      BY <1>1, <3>1, <3>2
  <2>2. Below = n - 2
    BY <1>3 DEF Below
  <2>3. /\ n - 2 \in Nat /\ (n - 2) + 1 = n - 1 /\ (n - 2) + 2 = n /\ (n - 1) - 1 = n - 2
        /\ n - 1 \in 1 .. n /\ n \in 1 .. n /\ n - 1 # n
    BY <1>1, <2>1, SMT
  <2>4. Part(n - 2) = parent_output(stack[n - 1].cv, output_chaining_value(Part(n - 1)), key, flags)
    BY <2>3, PartIsParent
  <2>5. output_chaining_value(Part(n - 1)) = stack[n].cv
    <3>1. /\ Part(n - 1) = TreeOutput(key, flags, stack[n].first, Rest(stack, pos, n))
          /\ stack[n].cv = SubtreeCV(key, flags, stack[n].first, Width(stack, n))
          /\ pos - FirstAfter(n) * ChunkLen = Rest(stack, pos, n) - Width(stack, n)
      BY <2>3, PartAfter
    <3>2. Rest(stack, pos, n) = Width(stack, n)
      <4> DEFINE w == Width(stack, n)
                 x == stack[n].first * ChunkLen
                 y == c * ChunkLen
      <4>1. FirstAfter(n) = c
        BY DEF FirstAfter, EdgeStart
      <4>2. Rest(stack, pos, n) = pos - x
        BY DEF Rest
      <4>3. w \in Nat /\ x \in Nat
        <5>1. stack[n].first \in Nat /\ stack[n].chunks \in Nat
          BY <1>1, <2>3 DEF Covers
        <5>2. QED
          BY <1>1, <5>1, SMT DEF Width
      <4>4. y \in Nat /\ pos = y + 0
        BY <1>1, <2>1, SMT
      <4>5. pos - y = Rest(stack, pos, n) - w
        BY <3>1, <4>1
      <4> HIDE DEF w, x, y
      <4>6. pos - x = w
        BY <4>2, <4>3, <4>4, <4>5, SMT
      <4>7. QED
        BY <4>2, <4>6 DEF w
    <3>3. QED
      BY <3>1, <3>2 DEF SubtreeCV
  <2>6. Rolled(f, n - 2) = parent_output(stack[n - 1].cv, stack[n].cv, key, flags)
    BY <1>3, <2>2, <2>3 DEF Rolled
  <2>7. QED
    BY <2>2, <2>3, <2>4, <2>5, <2>6
<1>4. QED
  BY <1>2, <1>3

\* One iteration of finalize's loop goes one entry down.
LEMMA RolledNext ==
  ASSUME Settled, NEW f, NEW r \in 0 .. Below - 1, f[r + 1] = Part(r + 1)
  PROVE  Rolled(f, r) = Part(r)
<1> DEFINE n == Len(stack)
           i == r + 1
<1>1. n \in Nat /\ Below \in Nat
  BY SettledState, RolledFirst
<1>2. Below = n \/ Below = n - 2
  BY DEF Below
<1>3. r # Below /\ i - 1 = r /\ i \in 1 .. n /\ (Below = n - 2 => i # n)
  BY <1>1, <1>2, SMT
<1>4. chunk_state_len(chunk) > 0 \/ i # n
  <2>1. CASE chunk_state_len(chunk) > 0
    BY <2>1
  <2>2. CASE stack = <<>>
    <3>1. n = 0
      BY <2>2, EmptySeq
    <3>2. QED
      BY <1>3, <3>1, SMT
  <2>3. CASE ~ from_chunk
    BY <1>3, <2>3 DEF Below
  <2>4. QED
    BY <2>1, <2>2, <2>3 DEF from_chunk
<1>5. Part(r) = parent_output(stack[i].cv, output_chaining_value(Part(i)), key, chunk.flags)
  BY <1>3, <1>4, PartIsParent
<1>6. QED
  BY <1>3, <1>5 DEF Rolled

\* Whatever satisfies the equation of finalize's loop holds the parts.
LEMMA RolledParts ==
  ASSUME Settled, NEW f, \A r \in 0 .. Below : f[r] = Rolled(f, r)
  PROVE  f[0] = Part(0)
<1> DEFINE b == Below
           P == {d \in Nat : d <= b => f[b - d] = Part(b - d)}
<1>1. b \in Nat /\ Rolled(f, b) = Part(b)
  BY RolledFirst
<1>2. ASSUME NEW d \in Nat, \A e \in 0 .. d - 1 : e \in P
      PROVE  d \in P
  <2> SUFFICES ASSUME d <= b
               PROVE  f[b - d] = Part(b - d)
    OBVIOUS
  <2> HIDE DEF b
  <2>1. b - d \in 0 .. b
    BY <1>1, SMT
  <2>2. f[b - d] = Rolled(f, b - d)
    BY <2>1 DEF b
  <2>3. CASE d = 0
    <3>1. b - d = b
      BY <1>1, <2>3, SMT
    <3>2. QED
      BY <1>1, <2>2, <3>1
  <2>4. CASE d # 0
    <3>1. d - 1 \in 0 .. d - 1 /\ d - 1 <= b /\ b - (d - 1) = (b - d) + 1 /\ b - d \in 0 .. b - 1
          /\ d - 1 \in Nat
      BY <1>1, <2>4, SMT
    <3>2. f[b - (d - 1)] = Part(b - (d - 1))
      BY <1>2, <3>1
    <3>3. Rolled(f, b - d) = Part(b - d)
      BY <3>1, <3>2, RolledNext DEF b
    <3>4. QED
      BY <2>2, <3>3
  <2>5. QED
    BY <2>3, <2>4
<1>3. \A d \in Nat : d \in P
  <2> HIDE DEF P
  <2>1. QED
    BY <1>2, StrongInduction
<1>4. b <= b /\ b - b = 0
  BY <1>1, SMT
<1>5. QED
  BY <1>1, <1>3, <1>4

\* The tree from the first chunk to the end is the whole tree.
LEMMA PartOfAll ==
  ASSUME Settled
  PROVE  Part(0) = TreeOutput(key, chunk.flags, 0, pos)
<1>1. /\ pos \in Nat /\ Len(stack) \in Nat /\ Covers(stack, chunk.counter)
      /\ ChunkLen \in Nat /\ 0 + 1 = 1
  BY SettledState, HashTreeAssumption, SMT
<1>2. PICK S : stack \in Seq(S)
  BY <1>1 DEF Covers
<1>3. stack = <<>> <=> Len(stack) = 0
  BY <1>2, EmptySeq, SMT
<1>4. FirstAfter(0) = 0
  BY <1>1, <1>3 DEF FirstAfter, EdgeStart, Covers
<1>5. pos - 0 * ChunkLen = pos
  BY <1>1, SMT
<1>6. QED
  BY <1>4, <1>5 DEF Part, EdgeOutput, FirstAfter

\* blake3_hasher_finalize computes the output of the root of the tree over all
\* the bytes absorbed, with the entries of the stack and the chunk state alone.
THEOREM FinalOutput ==
  ASSUME Settled
  PROVE  final_output = TreeOutput(key, chunk.flags, 0, pos)
<1> DEFINE g == [r \in 0 .. Below |-> Part(r)]
           output == CHOOSE f : f = [r \in 0 .. Below |-> Rolled(f, r)]
<1>1. final_output = output[0]
  BY DEF final_output, Below, Rolled
<1>2. g = [r \in 0 .. Below |-> Rolled(g, r)]
  <2>1. ASSUME NEW r \in 0 .. Below
        PROVE  Rolled(g, r) = Part(r)
    <3>1. Below \in Nat
      BY RolledFirst
    <3>2. CASE r = Below
      BY <3>2, RolledFirst
    <3>3. CASE r # Below
      <4>1. r \in 0 .. Below - 1 /\ r + 1 \in 0 .. Below
        BY <3>1, <3>3, SMT
      <4>2. g[r + 1] = Part(r + 1)
        BY <4>1
      <4> HIDE DEF g
      <4>3. QED
        BY <4>1, <4>2, RolledNext
    <3>4. QED
      BY <3>2, <3>3
  <2>2. QED
    BY <2>1
<1> HIDE DEF g
<1>3. output = [r \in 0 .. Below |-> Rolled(output, r)]
  BY <1>2
<1> HIDE DEF output
<1>4. \A r \in 0 .. Below : output[r] = Rolled(output, r)
  BY <1>3
<1>5. output[0] = Part(0)
  BY <1>4, RolledParts
<1>6. QED
  BY <1>1, <1>5, PartOfAll

-----------------------------------------------------------------------------
(* The refinement: a call of update is one step of StreamHash, taken when   *)
(* the call begins; the steps inside it only move bytes from the input to   *)
(* the hasher.                                                              *)

\* The tree that StreamHash speaks of is the one of HashTree.
LEMMA StreamTerms ==
  /\ Stream!NoDigest = NoDigest
  /\ \A m, n : Stream!Hash(Stream!ModeKey(m, Stream!ContextLen), Stream!ModeFlags(m), n)
                 = Hash(ModeKey(m, ContextLen), ModeFlags(m), n)
<1>1. \A k, f, c, n : Stream!TreeOutput(k, f, c, n) = TreeOutput(k, f, c, n)
  BY DEF Stream!TreeOutput, TreeOutput, Stream!ChunkOutput, ChunkOutput,
         Stream!output_chaining_value, output_chaining_value, Stream!make_output, make_output,
         Stream!DataBlock, DataBlock, Stream!left_subtree_len, left_subtree_len,
         Stream!round_down_to_power_of_2, round_down_to_power_of_2,
         Stream!parent_output, parent_output
<1>2. \A k, f, n : Stream!Hash(k, f, n) = Hash(k, f, n)
  BY <1>1 DEF Stream!Hash, Hash, Stream!output_root, output_root, Stream!make_output, make_output
<1>3. Stream!ContextLen = ContextLen /\ Stream!NoDigest = NoDigest
  BY DEF Stream!ContextLen, ContextLen, Stream!NoDigest, NoDigest
<1>4. \A m, n : Stream!ModeKey(m, n) = ModeKey(m, n) /\ Stream!ModeFlags(m) = ModeFlags(m)
  BY <1>2 DEF Stream!ModeKey, ModeKey, Stream!ModeFlags, ModeFlags, Stream!IV, IV,
              Stream!UserKey, UserKey
<1>5. QED
  BY <1>2, <1>3, <1>4

\* A fresh hasher is a fresh StreamHash.
LEMMA StreamInit == Init => Stream!Init
<1> SUFFICES ASSUME Init
             PROVE  Stream!Init
  OBVIOUS
<1>1. mode \in Modes /\ pos = 0 /\ rem = 0 /\ digest = NoDigest
  BY DEF Init
<1>2. pos + rem = 0
  BY <1>1, SMT
<1>3. QED
  BY <1>1, <1>2, StreamTerms DEF Stream!Init

\* Every step of the hasher is a step of StreamHash or none.
LEMMA StreamStep ==
  HasherInv /\ BinaryInv /\ ContentInv /\ [Next]_vars => [Stream!Next]_(Stream!vars)
<1> SUFFICES ASSUME HasherInv, BinaryInv, ContentInv, [Next]_vars
             PROVE  Stream!Next \/ UNCHANGED Stream!vars
  OBVIOUS
<1>0. pos \in Nat /\ rem \in Nat /\ ChunkLen \in Nat \ {0} /\ (pc = "idle" => rem = 0)
      /\ chunk_state_len(chunk) \in Nat
  BY ChunkTypes, HashTreeAssumption DEF HasherInv, Typed, RootInv, ChunkInv
<1>a. ASSUME mode' = mode, pos' + rem' = pos + rem, digest' = digest
      PROVE  UNCHANGED Stream!vars
  BY <1>a DEF Stream!vars
<1>1. ASSUME NEW n \in 1 .. MaxTotal, UpdateCall(n)
      PROVE  Stream!Next
  <2>1. /\ pc = "idle" /\ pos + n <= MaxTotal /\ rem' = n /\ pos' = pos
        /\ digest' = NoDigest /\ mode' = mode
    BY <1>1 DEF UpdateCall
  <2>2. n \in Nat
    BY HasherAssumption, SMT
  <2>3. (pos + rem) + n <= MaxTotal /\ pos' + rem' = (pos + rem) + n
    BY <1>0, <2>1, <2>2, SMT
  <2>4. Stream!Absorb(n)
    BY <2>1, <2>3, StreamTerms DEF Stream!Absorb
  <2>5. QED
    BY <2>4 DEF Stream!Next
<1>2. CASE FinishPartialChunk
  <2> DEFINE take == AtMost(ChunkLen - chunk_state_len(chunk), rem)
  <2>1. pos' = pos + take /\ rem' = rem - take /\ mode' = mode /\ digest' = digest
    BY <1>2 DEF FinishPartialChunk
  <2>2. take \in Int
    BY <1>0, SMT DEF AtMost
  <2> HIDE DEF take
  <2>3. pos' + rem' = pos + rem
    BY <1>0, <2>1, <2>2, SMT
  <2>4. QED
    BY <1>a, <2>1, <2>3
<1>3. CASE HashSubtree
  <2> DEFINE len == subtree_len(rem)
  <2>1. /\ rem > ChunkLen /\ pos' = pos + len /\ rem' = rem - len
        /\ mode' = mode /\ digest' = digest
    BY <1>3 DEF HashSubtree, subtree_left
  <2>2. len \in Nat
    <3>1. PICK k \in Nat \ {0} : len = ChunkLen * k
      BY <1>0, <2>1, ChunkTypes, SubtreeIsWhole DEF HasherInv, ChunkInv
    <3>2. QED
      BY <1>0, <3>1, MultipleDivided
  <2> HIDE DEF len
  <2>3. pos' + rem' = pos + rem
    BY <1>0, <2>1, <2>2, SMT
  <2>4. QED
    BY <1>a, <2>1, <2>3
<1>4. CASE PushMerge
  BY <1>4, <1>a DEF PushMerge
<1>5. CASE PushEntry
  BY <1>5, <1>a DEF PushEntry
<1>6. CASE AbsorbTail
  <2>1. pos' = pos + rem /\ rem' = 0 /\ mode' = mode /\ digest' = digest
    BY <1>6 DEF AbsorbTail, take_tail
  <2>2. pos' + rem' = pos + rem
    BY <1>0, <2>1, SMT
  <2>3. QED
    BY <1>a, <2>1, <2>2
<1>7. CASE FinalMerge
  BY <1>7, <1>a DEF FinalMerge
<1>8. CASE Finalize
  <2>1. /\ pc = "idle" /\ digest' = output_root(final_output)
        /\ mode' = mode /\ pos' = pos /\ rem' = rem
    BY <1>8 DEF Finalize
  <2>2. pos + rem = pos
    BY <1>0, <2>1, SMT
  <2>3. final_output = TreeOutput(key, chunk.flags, 0, pos)
    BY <2>1, FinalOutput DEF Settled
  <2>4. key = ModeKey(mode, ContextLen) /\ chunk.flags = ModeFlags(mode)
    BY DEF ContentInv
  <2>5. digest' = Hash(ModeKey(mode, ContextLen), ModeFlags(mode), pos + rem)
    BY <2>1, <2>2, <2>3, <2>4 DEF Hash
  <2>6. Stream!Finalize
    BY <2>1, <2>5, StreamTerms DEF Stream!Finalize
  <2>7. QED
    BY <2>6 DEF Stream!Next
<1>9. CASE Reset
  <2>1. pc = "idle" /\ pos' = 0 /\ rem' = rem /\ digest' = NoDigest /\ mode' = mode
    BY <1>9 DEF Reset
  <2>2. pos' + rem' = 0
    BY <1>0, <2>1, SMT
  <2>3. Stream!Reset
    BY <2>1, <2>2, StreamTerms DEF Stream!Reset
  <2>4. QED
    BY <2>3 DEF Stream!Next
<1>10. CASE UNCHANGED vars
  BY <1>10, <1>a DEF vars
<1>11. QED
  BY <1>1, <1>2, <1>3, <1>4, <1>5, <1>6, <1>7, <1>8, <1>9, <1>10 DEF Next

\* blake3_hasher_init, update, finalize and reset implement the abstract
\* hasher: whatever the calls, each digest is the hash of the concatenation of
\* the inputs since the initialisation or the last reset.
THEOREM HasherImplementsStream == Spec => StreamSpec
BY ContentInvariant, StreamInit, StreamStep, PTL DEF Spec, StreamSpec, Stream!Spec

=============================================================================
