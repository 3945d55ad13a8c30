---------------------------- MODULE SubtreeWide -----------------------------
(***************************************************************************)
(* compress_subtree_to_parent_node of c/blake3.c: the two top chaining     *)
(* values of a subtree, computed by fork and join over its halves.         *)
(*                                                                         *)
(* A task is one call of blake3_compress_subtree_wide.  It writes its      *)
(* chaining values into an array of its caller, the left call at slot 1    *)
(* and the right one at the slot where the caller expects the left one to  *)
(* end, before knowing how many values either will write.  With TBB (and   *)
(* with Rayon in the Rust crate) the two calls run in any order, or at the *)
(* same time; without, the left one runs first.                            *)
(***************************************************************************)
EXTENDS ChunkState, FiniteSets

CONSTANTS MaxSimdDegree,  \* MAX_SIMD_DEGREE of the build: 1, 4 or 16 in the code
          Degrees,        \* what blake3_simd_degree() may return on the machine
          Lens,           \* lengths of the input
          MaxLeaves       \* bound on the calls that do not recurse

ASSUME SubtreeAssumption ==
  /\ MaxSimdDegree \in Nat \ {0}
  /\ \A d \in Degrees : d \in 1 .. MaxSimdDegree /\ d = round_down_to_power_of_2[d]
  /\ \A n \in Lens : n \in Nat /\ n > ChunkLen
  /\ MaxLeaves \in Nat

VARIABLES len,      \* input_len of the outermost call
          degree,   \* blake3_simd_degree(), one value for the whole process
          task,     \* the calls made so far
          array,    \* the cv_array of each call that has one, and of the outermost caller
          pair      \* out, the result: two chaining values, or none

vars == <<len, degree, task, array, pair>>

key == IV
flags == {}
Garbage == <<"uninitialised">>
Top == <<0, 0>>      \* compress_subtree_to_parent_node itself
max_simd_degree_or_2 == IF MaxSimdDegree > 2 THEN MaxSimdDegree ELSE 2
uninitialised(n) == [i \in 1 .. n |-> Garbage]

\* A call over n bytes from chunk c, writing to the array of the call up from
\* behind slot off on.
Call(up, off) == [state |-> "called", up |-> up, off |-> off, count |-> 0]

Init ==
  /\ len \in Lens
  /\ degree \in Degrees
  /\ len <= MaxLeaves * degree * ChunkLen
  /\ task = [t \in {<<0, len>>} |-> Call(Top, 0)]
  /\ array = [t \in {Top} |-> uninitialised(max_simd_degree_or_2)]
  /\ pair = <<>>

-----------------------------------------------------------------------------
\* Mutant of compress_chunks_parallel: the counter does not count up.
compress_chunks_same_counter(c, n) ==
  [i \in 1 .. (n + ChunkLen - 1) \div ChunkLen |->
     output_chaining_value(ChunkOutput(key, flags, c, AtMost(n - (i - 1) * ChunkLen, ChunkLen)))]

\* compress_chunks_parallel: whole chunks by hash_many, and the rest by a
\* chunk state of its own.
compress_chunks_parallel(c, n) ==
  LET whole == n \div ChunkLen
      rest  == n % ChunkLen
      last  == chunk_state_update(chunk_state_init(key, c + whole, flags),
                                  (c + whole) * ChunkLen, rest)
      chunk(i) == output_chaining_value(ChunkOutput(key, flags, c + i - 1, ChunkLen))
  IN  [i \in 1 .. whole |-> chunk(i)]
      \o IF rest > 0 THEN <<output_chaining_value(chunk_state_output(last))>> ELSE <<>>

\* compress_parents_parallel over the first n slots: a parent for each pair,
\* and the odd one left over as it is.
compress_parents_parallel(a, n) ==
  [i \in 1 .. (n + 1) \div 2 |->
     IF 2 * i <= n THEN output_chaining_value(parent_output(a[2 * i - 1], a[2 * i], key, flags))
     ELSE a[n]]

\* The arrays after the call t has written its values.
written(t, values) ==
  [array EXCEPT ![task[t].up] =
     [i \in DOMAIN @ |-> IF i - task[t].off \in DOMAIN values
                         THEN values[i - task[t].off] ELSE @[i]]]

returned(t, values) ==
  [task EXCEPT ![t].state = "returned", ![t].count = Len(values)]

left_call(t) == <<t[1], left_subtree_len(t[2])>>
right_call(t) ==
  <<t[1] + left_subtree_len(t[2]) \div ChunkLen, t[2] - left_subtree_len(t[2])>>

\* Mutant of left_slots: no special case for a degree of one.
left_slots_degree(t) == degree

\* The slots left to the left side: degree, but two when the degree is one
\* and there is more than a chunk.
left_slots(t) == IF left_subtree_len(t[2]) > ChunkLen /\ degree = 1 THEN 2 ELSE degree

\* Few enough chunks: hash them side by side.
HashChunks(t) ==
  /\ task[t].state = "called"
  /\ t[2] <= degree * ChunkLen
  /\ LET values == compress_chunks_parallel(t[1], t[2])
     IN  /\ array' = written(t, values)
         /\ task' = returned(t, values)
  /\ UNCHANGED <<len, degree, pair>>

\* Recurse, into both sides.
Fork(t) ==
  /\ task[t].state = "called"
  /\ t[2] > degree * ChunkLen
  /\ array' = [u \in DOMAIN array \cup {t} |->
                 IF u = t THEN uninitialised(2 * max_simd_degree_or_2) ELSE array[u]]
  /\ task' = [u \in DOMAIN task \cup {left_call(t), right_call(t)} |->
                CASE u = t             -> [task[t] EXCEPT !.state = "forked"]
                  [] u = left_call(t)  -> Call(t, 0)
                  [] u = right_call(t) -> Call(t, left_slots(t))
                  [] OTHER             -> task[u]]
  /\ UNCHANGED <<len, degree, pair>>

\* Mutant of joined: the pair of single values is compressed too.
joined_always(a, left_n, right_n) == compress_parents_parallel(a, left_n + right_n)

\* One layer of parents, but a pair of single values is handed up as it is.
joined(a, left_n, right_n) ==
  IF left_n = 1 THEN SubSeq(a, 1, 2) ELSE compress_parents_parallel(a, left_n + right_n)

\* Both sides have returned.
Join(t) ==
  /\ task[t].state = "forked"
  /\ task[left_call(t)].state = "returned"
  /\ task[right_call(t)].state = "returned"
  /\ LET values == joined(array[t], task[left_call(t)].count, task[right_call(t)].count)
     IN  /\ array' = written(t, values)
         /\ task' = returned(t, values)
  /\ UNCHANGED <<len, degree, pair>>

\* compress_subtree_to_parent_node: condense what the outermost call returned
\* to two values.
Condense ==
  /\ pair = <<>>
  /\ task[<<0, len>>].state = "returned"
  /\ LET layer[i \in 0 .. max_simd_degree_or_2] ==
           LET s == layer[i - 1]
           IN  IF i = 0 THEN SubSeq(array[Top], 1, task[<<0, len>>].count)
               ELSE IF Len(s) > 2 THEN compress_parents_parallel(s, Len(s)) ELSE s
     IN  pair' = layer[max_simd_degree_or_2]
  /\ UNCHANGED <<len, degree, task, array>>

Next ==
  \/ \E t \in DOMAIN task : HashChunks(t)
  \/ \E t \in DOMAIN task : Fork(t)
  \/ \E t \in DOMAIN task : Join(t)
  \/ Condense

Spec == Init /\ [][Next]_vars

-----------------------------------------------------------------------------
\* Slots that a call may write without touching what another call writes, or
\* what lies behind the array.
slots(t) ==
  LET up == task[t].up
  IN  IF up # Top /\ t = left_call(up) THEN left_slots(up)
      ELSE Len(array[up]) - task[t].off

\* No call writes more values than it has slots: the two sides of a join,
\* which may run at the same time, never write the same slot, and no call
\* writes past the end of an array.  The outermost call returns at most
\* MAX_SIMD_DEGREE_OR_2 values, as the assert of its caller says.
WritesInSlots == \A t \in DOMAIN task : task[t].count <= slots(t)

\* A join reads the values of its two sides as one run: the left side always
\* fills its slots, whatever the length of the input and the degree.
NoGapAtJoin ==
  \A t \in DOMAIN task :
    task[t].state = "returned" /\ t \in DOMAIN array =>
      task[left_call(t)].count = left_slots(t)

\* The outermost call never compresses the root: it returns two values or
\* more.
RootLeftToCaller ==
  task[<<0, len>>].state = "returned" => task[<<0, len>>].count >= 2

\* Whatever the degree of the machine and the order in which the tasks ran,
\* the result is the pair of chaining values below the top of the tree.
PairIsTopOfTree ==
  pair # <<>> =>
    LET l == left_subtree_len(len)
    IN  pair = <<SubtreeCV(key, flags, 0, l),
                 SubtreeCV(key, flags, l \div ChunkLen, len - l)>>
=============================================================================
