----------------------------- MODULE SimdKernels -----------------------------
(***************************************************************************)
(* The back ends at work: a call of hash_many or xof_many takes one group  *)
(* of inputs or output blocks after another, the widest that fits, and     *)
(* stores its words; a compression runs its seven rounds.  Whatever the    *)
(* back end and its grouping, the words must be those of the portable      *)
(* code.                                                                   *)
(***************************************************************************)
EXTENDS KernelPortable

CONSTANTS Inputs,    \* numbers of inputs of hash_many and of output blocks of xof_many
          Blocks,    \* numbers of blocks of an input
          Starts     \* counters a call starts from

ASSUME KernelAssumption ==
  Inputs \subseteq Nat /\ Blocks \subseteq Nat \ {0} /\ Starts \subseteq Counters

VARIABLES call,      \* the call that runs
          done,      \* its inputs or output blocks that are done, or its rounds
          counter,   \* its counter, which moves on
          msg,       \* the message vectors of a compression in rows
          out        \* the words it stored

vars == <<call, done, counter, msg, out>>

Sse2 == INSTANCE KernelSse2
Sse41 == INSTANCE KernelSse41
Avx2 == INSTANCE KernelAvx2
Avx512 == INSTANCE KernelAvx512
Neon == INSTANCE KernelNeon

Backends == {"portable", "sse2", "sse41", "avx2", "avx2_portable", "avx512", "neon"}
RowBackends == {"sse2", "sse41", "avx512"}
LaneForms == {<<"sse2", 4>>, <<"sse41", 4>>, <<"avx2", 8>>, <<"neon", 4>>,
              <<"avx512", 4>>, <<"avx512", 8>>, <<"avx512", 16>>}

Idle == [kind |-> "idle"]
flags == {"flags"}
XofFlags == {"flags", "root"}
XofCv == [i \in 0 .. 7 |-> <<"chaining", i>>]
XofBlock == [w \in 0 .. 15 |-> <<"block", w>>]
XofLen == 7

Init == call = Idle /\ done = 0 /\ counter = 0 /\ msg = <<>> /\ out = <<>>

Begin(c, start, m) ==
  call = Idle /\ call' = c /\ done' = 0 /\ counter' = start /\ msg' = m /\ out' = <<>>

\* The widest group of the back end that fits into what is left.
width == widest(call.backend, call.n - done)

Running(kind) == call.kind = kind /\ done < call.n

-----------------------------------------------------------------------------
HashMany ==
  \E backend \in Backends, n \in Inputs, blocks \in Blocks, start \in Starts,
     increment \in BOOLEAN :
    Begin([kind |-> "hash_many", backend |-> backend, n |-> n, blocks |-> blocks,
           start |-> start, increment |-> increment], start, <<>>)

hashed(inputs) ==
  LET b == call.backend
      group(op(_, _, _, _, _, _)) == op(width, inputs, call.blocks, counter, call.increment, flags)
  IN  CASE b = "portable" -> hash_one_portable(inputs[1], call.blocks, counter, flags)
        [] b = "sse2"   -> group(Sse2!hash_group)
        [] b = "sse41"  -> group(Sse41!hash_group)
        [] b = "neon"   -> group(Neon!hash_group)
        [] b = "avx512" -> group(Avx512!hash_group)
        [] b \in {"avx2", "avx2_portable"} ->
             Avx2!hash_group(width, inputs, call.blocks, counter, call.increment, flags, b = "avx2")

\* One turn of a loop of hash_many.
HashGroup ==
  /\ Running("hash_many")
  /\ out' = out \o hashed([i \in 1 .. width |-> done + i])
  /\ counter' = IF call.increment THEN advance(counter, width) ELSE counter
  /\ done' = done + width
  /\ UNCHANGED <<call, msg>>

-----------------------------------------------------------------------------
XofMany ==
  \E backend \in {"portable", "sse2", "sse41", "avx512"}, n \in Inputs, start \in Starts :
    Begin([kind |-> "xof_many", backend |-> backend, n |-> n, start |-> start], start, <<>>)

\* One turn of a loop of AVX-512's xof_many; the others compress one output
\* block at a time.
XofGroup ==
  /\ Running("xof_many")
  /\ LET one(op(_, _, _, _, _)) == Words(op(XofCv, XofBlock, XofLen, counter, XofFlags))
         w == IF call.backend = "avx512" THEN width ELSE 1
     IN  /\ out' = out \o
               (CASE call.backend = "portable" -> one(compress_xof_portable)
                  [] call.backend = "sse2" -> one(Sse2!compress_xof)
                  [] call.backend = "sse41" -> one(Sse41!compress_xof)
                  [] call.backend = "avx512" ->
                       Avx512!xof_group(w, XofCv, XofBlock, XofLen, counter, XofFlags))
         /\ counter' = advance(counter, w)
         /\ done' = done + w
  /\ UNCHANGED <<call, msg>>

-----------------------------------------------------------------------------
\* A state no round has touched, in n lanes.
Untouched(l) == [i \in 0 .. 15 |-> <<"state", i, l>>]
RowBlock == Sse41!Row!loaded(BlockOf(1, 0))

CompressRows ==
  \E b \in RowBackends :
    Begin([kind |-> "rows", backend |-> b, n |-> 7], 0,
          CASE b = "sse2" -> Sse2!first_groups(RowBlock)
            [] b = "sse41" -> Sse41!first_groups(RowBlock)
            [] b = "avx512" -> Avx512!first_groups(RowBlock))
CompressLanes ==
  \E f \in LaneForms : Begin([kind |-> "lanes", backend |-> f[1], n |-> 7, lanes |-> f[2]], 0, <<>>)

\* One round; in rows it leaves the message in the order it used.
Round ==
  /\ Running("rows") \/ Running("lanes")
  /\ done' = done + 1
  /\ msg' = IF call.kind = "lanes" THEN msg
            ELSE CASE call.backend = "sse2" -> Sse2!Row!next_groups(msg)
                   [] call.backend = "sse41" -> Sse41!Row!next_groups(msg)
                   [] call.backend = "avx512" -> Avx512!Row!next_groups(msg)
  /\ UNCHANGED <<call, counter, out>>

Return ==
  /\ call # Idle /\ done = call.n
  /\ call' = Idle /\ done' = 0 /\ counter' = 0 /\ msg' = <<>> /\ out' = <<>>

Next == HashMany \/ HashGroup \/ XofMany \/ XofGroup \/ CompressRows \/ CompressLanes \/ Round \/ Return
Spec == Init /\ [][Next]_vars

-----------------------------------------------------------------------------
\* The state one round of the running compression makes of an untouched one.
rows_after ==
  LET rows == Sse41!Row!loaded(Untouched(0))
      round(op(_, _)) == Sse41!Row!words_of(op(rows, msg))
  IN  CASE call.backend = "sse2" -> round(Sse2!row_round)
        [] call.backend = "sse41" -> round(Sse41!row_round)
        [] call.backend = "avx512" -> round(Avx512!row_round)

lanes_after ==
  LET v == [i \in 0 .. 15 |-> [l \in 0 .. call.lanes - 1 |-> Untouched(l)[i]]]
      m == [i \in 0 .. 15 |-> [l \in 0 .. call.lanes - 1 |-> BlockOf(l, 0)[i]]]
      round(op(_, _, _)) == op(v, m, done)
  IN  CASE call.backend = "sse2" -> round(Sse2!round_fn4)
        [] call.backend = "sse41" -> round(Sse41!round_fn4)
        [] call.backend = "neon" -> round(Neon!round_fn4)
        [] call.backend = "avx2" -> round(Avx2!round_fn8)
        [] call.backend = "avx512" /\ call.lanes = 4 -> round(Avx512!round_fn4)
        [] call.backend = "avx512" /\ call.lanes = 8 -> round(Avx512!round_fn8)
        [] call.backend = "avx512" /\ call.lanes = 16 -> round(Avx512!round_fn16)

\* Every round of a compression in rows, with its message shuffled along from
\* round to round and its rows rotated, and of one in lanes, with its rotations
\* and its own order of additions, is the round of blake3_portable.c.
RoundsAgree ==
  /\ Running("rows") => rows_after = round_fn(Untouched(0), BlockOf(1, 0), done)
  /\ Running("lanes") =>
       \A l \in 0 .. call.lanes - 1 :
         [i \in 0 .. 15 |-> lanes_after[i][l]] = round_fn(Untouched(l), BlockOf(l, 0), done)

\* Whatever groups hash_many cuts its inputs into, every chaining value it has
\* stored is the one the portable code computes for that input, its counter
\* and its flags, in the place of that input.
HashManyAgrees ==
  call.kind = "hash_many" =>
    \A i \in 1 .. done :
      SubSeq(out, 8 * i - 7, 8 * i) =
        hash_one_portable(i, call.blocks,
                          IF call.increment THEN advance(call.start, i - 1) ELSE call.start, flags)

\* Whatever groups xof_many cuts its output blocks into, each is the one the
\* portable code computes at the counter of its place.
XofManyAgrees ==
  call.kind = "xof_many" =>
    \A i \in 1 .. done :
      SubSeq(out, 16 * i - 15, 16 * i) =
        Words(compress_xof_portable(XofCv, XofBlock, XofLen, advance(call.start, i - 1), XofFlags))
=============================================================================
