------------------------------ MODULE RmrProofs ------------------------------
(***************************************************************************)
(* What two parts of the RMR tree guarantee: the receiver of PacketCustody *)
(* for every packet and every network, and the functions of CryptoRuntime  *)
(* for every argument and wherever a call of OpenSSL fails.                *)
(***************************************************************************)
EXTENDS PacketCustody, CryptoRuntime,
        FiniteSetTheorems, SequenceTheorems, WellFoundedInduction, TLAPS

-----------------------------------------------------------------------------
(* The receiver. *)

\* The chunks of a packet are as many as it says.
LEMMA ChunksFinite ==
  /\ IsFiniteSet(Chunks)
  /\ Cardinality(Chunks) = TotalChunks
<1>1. TotalChunks \in Nat \ {0}
  BY CustodyAssumption, SMT
<1>2. 0 \in Int /\ TotalChunks - 1 \in Int /\ ~ (0 > TotalChunks - 1)
  BY <1>1, SMT
<1>3. QED
  BY <1>1, <1>2, FS_Interval, SMT DEF Chunks

-----------------------------------------------------------------------------
\* The receiver's state keeps the shape of rpc_stream_state, whatever fragments
\* arrive.
THEOREM TypeCorrect == Spec => []TypeOK
<1>1. Init => TypeOK
  BY CustodyAssumption, SMT DEF Init, TypeOK, Statuses
<1>2. TypeOK /\ [Next]_vars => TypeOK'
  <2> SUFFICES ASSUME TypeOK, [Next]_vars
               PROVE  TypeOK'
    OBVIOUS
  <2>1. ASSUME NEW i \in Chunks, Send(i)
        PROVE  TypeOK'
    <3>1. [index |-> i, payload |-> Content[i]] \in Fragments
      BY CustodyAssumption, SMT DEF Fragments, Chunks
    <3>2. QED
      BY <2>1, <3>1 DEF Send, TypeOK, state
  <2>2. CASE Retransmit
    BY <2>1, <2>2 DEF Retransmit
  <2>3. ASSUME NEW f \in Fragments, NEW g \in Fragments, Deliver(f, g)
        PROVE  TypeOK'
    <3>1. network' \subseteq Fragments
      BY <2>3 DEF Deliver, TypeOK
    <3>2. g.index \in Nat /\ g.payload \in Payloads /\ Length[g.payload] \in Nat
      BY CustodyAssumption, SMT DEF Fragments
    <3>3. CASE OutOfRange(g.index)
      BY <3>1, <3>3 DEF OutOfRange, TypeOK, state, Statuses
    <3>4. CASE Rejected(g.index, g.payload)
      <4>1. rejected_chunks' \in 0 .. Modulus - 1
        BY <3>4, CustodyAssumption, SMT DEF Rejected, TypeOK
      <4>2. QED
        BY <3>1, <3>4, <4>1 DEF Rejected, TypeOK, Statuses
    <3>5. CASE Duplicate(g.index, g.payload)
      BY <3>1, <3>5 DEF Duplicate, TypeOK, state, Statuses
    <3>6. CASE Accepted(g.index, g.payload)
      <4>1. g.index \in Chunks
        BY <3>2, <3>6, CustodyAssumption, SMT DEF Accepted, genuine, Chunks
      <4>2. received_chunks' \in Nat /\ verified_bytes' \in Nat
        BY <3>2, <3>6, SMT DEF Accepted, TypeOK
      <4>3. DOMAIN buffer' = received_bitmap'
        BY <3>6 DEF Accepted, TypeOK, stored
      <4>4. QED
        BY <3>1, <3>6, <4>1, <4>2, <4>3 DEF Accepted, TypeOK, Statuses
    <3>7. QED
      BY <2>3, <3>3, <3>4, <3>5, <3>6 DEF Deliver, rpc_stream_record
  <2>4. ASSUME NEW f \in Fragments, Lose(f)
        PROVE  TypeOK'
    BY <2>4 DEF Lose, TypeOK, state
  <2>5. CASE UNCHANGED vars
    BY <2>5 DEF vars, state, TypeOK
  <2>6. QED
    BY <2>1, <2>2, <2>3, <2>4, <2>5 DEF Next
<1>3. QED
  BY <1>1, <1>2, PTL DEF Spec

-----------------------------------------------------------------------------
\* The part of the receiver's account that a step can change: a step records a
\* fragment, or leaves the account and the buffer as they are.
LEMMA StepRecords ==
  ASSUME [Next]_vars
  PROVE  \/ \E g \in Fragments : rpc_stream_record(g.index, g.payload)
         \/ UNCHANGED <<state, buffer>>
BY DEF Next, Send, Retransmit, Deliver, Lose, vars

\* The counter counts the bits.
Counted == received_chunks = Cardinality(received_bitmap)

LEMMA CountedInvariant == Spec => []Counted
<1>1. Init => Counted
  BY FS_EmptySet DEF Init, Counted
<1>2. TypeOK /\ Counted /\ [Next]_vars => Counted'
  <2> SUFFICES ASSUME TypeOK, Counted, [Next]_vars
               PROVE  Counted'
    OBVIOUS
  <2>1. ASSUME NEW g \in Fragments, rpc_stream_record(g.index, g.payload)
        PROVE  Counted'
    <3>1. CASE Accepted(g.index, g.payload)
      <4>1. IsFiniteSet(received_bitmap)
        BY ChunksFinite, FS_Subset DEF TypeOK
      <4>2. Cardinality(received_bitmap \cup {g.index}) = Cardinality(received_bitmap) + 1
        BY <3>1, <4>1, FS_AddElement DEF Accepted
      <4>3. QED
        BY <3>1, <4>2 DEF Accepted, Counted
    <3>2. CASE ~ Accepted(g.index, g.payload)
      BY <2>1, <3>2 DEF rpc_stream_record, OutOfRange, Rejected, Duplicate, state, Counted
    <3>3. QED
      BY <3>1, <3>2
  <2>2. CASE UNCHANGED <<state, buffer>>
    BY <2>2 DEF state, Counted
  <2>3. QED
    BY <2>1, <2>2, StepRecords
<1>3. QED
  BY <1>1, <1>2, TypeCorrect, PTL DEF Spec

\* A chunk has as many bytes as its length says.
LEMMA ChunkBytes ==
  ASSUME NEW i, NEW size \in Nat
  PROVE  IsFiniteSet({i} \X (1 .. size)) /\ Cardinality({i} \X (1 .. size)) = size
<1> DEFINE f == [k \in 1 .. size |-> <<i, k>>]
<1>1. f \in Bijection(1 .. size, {i} \X (1 .. size))
  <2>1. f \in [1 .. size -> {i} \X (1 .. size)]
    OBVIOUS
  <2>2. ASSUME NEW j \in 1 .. size, NEW k \in 1 .. size, f[j] = f[k]
        PROVE  j = k
    BY <2>2
  <2>3. ASSUME NEW b \in {i} \X (1 .. size)
        PROVE  \E k \in 1 .. size : f[k] = b
    <3>1. b[2] \in 1 .. size /\ b = <<i, b[2]>>
      OBVIOUS
    <3>2. QED
      BY <3>1
  <2>4. QED
    BY <2>1, <2>2, <2>3 DEF Bijection, Injection, Surjection, IsInjective
<1>2. IsFiniteSet(1 .. size) /\ Cardinality(1 .. size) = size
  <2>1. 1 \in Int /\ size \in Int /\ (IF 1 > size THEN 0 ELSE size - 1 + 1) = size
    BY SMT
  <2>2. QED
    BY <2>1, FS_Interval
<1>3. QED
  BY <1>1, <1>2, FS_Bijection DEF ExistsBijection

\* The bytes counted are those of the chunks whose bit is set.
BytesCounted ==
  /\ IsFiniteSet(bytes_of(received_bitmap))
  /\ verified_bytes = Cardinality(bytes_of(received_bitmap))

LEMMA BytesCountedInvariant == Spec => []BytesCounted
<1>1. Init => BytesCounted
  <2> SUFFICES ASSUME Init
               PROVE  BytesCounted
    OBVIOUS
  <2>1. bytes_of(received_bitmap) = {} /\ verified_bytes = 0
    BY DEF Init, bytes_of
  <2>2. QED
    BY <2>1, FS_EmptySet DEF BytesCounted
<1>2. TypeOK /\ BytesCounted /\ [Next]_vars => BytesCounted'
  <2> SUFFICES ASSUME TypeOK, BytesCounted, [Next]_vars
               PROVE  BytesCounted'
    OBVIOUS
  <2>1. ASSUME NEW g \in Fragments, rpc_stream_record(g.index, g.payload)
        PROVE  BytesCounted'
    <3>1. CASE Accepted(g.index, g.payload)
      <4> DEFINE i == g.index
                 size == Length[Content[i]]
                 old == bytes_of(received_bitmap)
                 own == {i} \X (1 .. size)
      <4>1. size \in Nat /\ size = Length[g.payload] /\ i \notin received_bitmap
        <5>1. g.payload = Content[i] /\ i \notin received_bitmap
          BY <3>1 DEF Accepted, genuine, rpc_chunk_digest, expected_digest
        <5>2. g.payload \in Payloads
          BY DEF Fragments
        <5>3. QED
          BY <5>1, <5>2, CustodyAssumption
      <4>2. bytes_of(received_bitmap)' = old \cup own
        BY <3>1 DEF Accepted, bytes_of
      <4>3. old \cap own = {}
        <5>1. ASSUME NEW b \in old
              PROVE  b \notin own
          <6>1. PICK j \in received_bitmap : b \in {j} \X (1 .. Length[Content[j]])
            BY <5>1 DEF bytes_of
          <6>2. b[1] = j /\ j # i
            BY <4>1, <6>1
          <6>3. QED
            BY <6>2
        <5>2. QED
          BY <5>1
      <4>4. IsFiniteSet(own) /\ Cardinality(own) = size
        BY <4>1, ChunkBytes
      <4>5. IsFiniteSet(old) /\ Cardinality(old) \in Nat /\ verified_bytes = Cardinality(old)
        BY FS_CardinalityType DEF BytesCounted
      <4> HIDE DEF old, own, size
      <4>6. IsFiniteSet(old \cup own) /\ Cardinality(old \cup own) = Cardinality(old) + size
        <5>1. Cardinality(old \cap own) = 0
          BY <4>3, FS_EmptySet
        <5>2. /\ IsFiniteSet(old \cup own)
              /\ Cardinality(old \cup own) = Cardinality(old) + Cardinality(own) - Cardinality(old \cap own)
          BY <4>4, <4>5, FS_Union
        <5>3. QED
          BY <4>1, <4>4, <4>5, <5>1, <5>2, SMT
      <4>7. verified_bytes' = verified_bytes + size
        BY <3>1, <4>1 DEF Accepted
      <4>8. QED
        BY <4>2, <4>5, <4>6, <4>7 DEF BytesCounted
    <3>2. CASE ~ Accepted(g.index, g.payload)
      BY <2>1, <3>2 DEF rpc_stream_record, OutOfRange, Rejected, Duplicate, state,
         BytesCounted
    <3>3. QED
      BY <3>1, <3>2
  <2>2. CASE UNCHANGED <<state, buffer>>
    BY <2>2 DEF state, BytesCounted
  <2>3. QED
    BY <2>1, <2>2, StepRecords
<1>3. QED
  BY <1>1, <1>2, TypeCorrect, PTL DEF Spec

\* A set of natural numbers that is not empty has a least element.
LEMMA LeastElement ==
  ASSUME NEW T \in SUBSET Nat, T # {}
  PROVE  \E m \in T : \A k \in T : m <= k
<1> DEFINE UpTo == {0 .. m : m \in T}
<1>1. UpTo # {}
  OBVIOUS
<1>2. UpTo \subseteq FiniteSubsetsOf(Nat)
  <2>1. ASSUME NEW m \in T
        PROVE  0 .. m \in FiniteSubsetsOf(Nat)
    <3>1. 0 \in Int /\ m \in Int /\ 0 .. m \subseteq Nat
      BY SMT
    <3>2. IsFiniteSet(0 .. m)
      BY <3>1, FS_Interval
    <3>3. QED
      BY <3>1, <3>2 DEF FiniteSubsetsOf
  <2>2. QED
    BY <2>1
<1>3. PICK s \in UpTo : \A t \in UpTo : ~ (<<t, s>> \in StrictSubsetOrdering(Nat))
  <2>1. IsWellFoundedOn(StrictSubsetOrdering(Nat), FiniteSubsetsOf(Nat))
    BY FS_StrictSubsetOrderingWellFounded
  <2>2. QED
    BY <1>1, <1>2, <2>1, WFMin
<1>4. PICK m \in T : s = 0 .. m
  OBVIOUS
<1>5. ASSUME NEW k \in T, k < m
      PROVE  FALSE
  <2>1. 0 .. k \subseteq Nat /\ 0 .. m \subseteq Nat /\ 0 .. k \subseteq 0 .. m /\ 0 .. k # 0 .. m
    <3>1. m \in 0 .. m /\ m \notin 0 .. k
      BY <1>5, SMT
    <3>2. 0 .. k \subseteq 0 .. m
      BY <1>5, SMT
    <3>3. QED
      BY <3>1, <3>2, SMT
  <2>2. <<0 .. k, 0 .. m>> \in StrictSubsetOrdering(Nat)
    BY <2>1 DEF StrictSubsetOrdering
  <2>3. QED
    BY <1>3, <1>4, <2>2
<1>6. QED
  BY <1>5, SMT

\* As long as a bit is missing, rpc_stream_next_missing finds the first one.
LEMMA MissingIsFound ==
  ASSUME received_bitmap \subseteq Chunks, received_bitmap # Chunks
  PROVE  \E i \in Chunks : rpc_stream_next_missing(0, i)
<1> DEFINE Missing == Chunks \ received_bitmap
<1>1. Missing # {} /\ Missing \in SUBSET Nat
  <2>1. Chunks \subseteq Nat
    BY SMT DEF Chunks
  <2>2. QED
    BY <2>1
<1>2. PICK m \in Missing : \A k \in Missing : m <= k
  BY <1>1, LeastElement
<1>3. m \in 0 .. TotalChunks - 1 /\ m \notin received_bitmap
  BY <1>2 DEF Chunks
<1>4. ASSUME NEW j \in 0 .. m - 1
      PROVE  j \in received_bitmap
  <2>1. TotalChunks \in Nat
    BY CustodyAssumption, SMT
  <2>2. j \in Chunks /\ ~ (m <= j)
    BY <1>3, <1>4, <2>1, SMT DEF Chunks
  <2>3. QED
    BY <1>2, <2>2
<1>5. QED
  BY <1>3, <1>4 DEF rpc_stream_next_missing, Chunks

\* Whatever the network does and however many chunks the packet has and of
\* whatever length: completion, decided by a counter, is that no bit is missing,
\* and the bytes counted are those of the chunks whose bit is set.
THEOREM CountersCorrect == Spec => []CountersMatchBitmap
<1>1. TypeOK /\ Counted /\ BytesCounted => CountersMatchBitmap
  <2> SUFFICES ASSUME TypeOK, Counted, BytesCounted
               PROVE  CountersMatchBitmap
    OBVIOUS
  <2>1. received_bitmap \subseteq Chunks
    BY DEF TypeOK
  <2>2. rpc_stream_complete <=> received_bitmap = Chunks
    BY <2>1, ChunksFinite, FS_Subset DEF rpc_stream_complete, Counted
  <2>3. received_bitmap = Chunks => ~ \E i \in Chunks : rpc_stream_next_missing(0, i)
    BY DEF rpc_stream_next_missing
  <2>4. received_bitmap # Chunks => \E i \in Chunks : rpc_stream_next_missing(0, i)
    BY <2>1, MissingIsFound
  <2>5. QED
    BY <2>2, <2>3, <2>4 DEF CountersMatchBitmap, Counted, BytesCounted
<1>2. QED
  BY <1>1, TypeCorrect, CountedInvariant, BytesCountedInvariant, PTL

-----------------------------------------------------------------------------
\* What is stored is the payload of the packet's chunk: the digest binds it.
THEOREM StoredCorrect == Spec => []StoredIsContent
<1>1. Init => StoredIsContent
  BY DEF Init, StoredIsContent
<1>2. TypeOK /\ StoredIsContent /\ [Next]_vars => StoredIsContent'
  <2> SUFFICES ASSUME TypeOK, StoredIsContent, [Next]_vars
               PROVE  StoredIsContent'
    OBVIOUS
  <2>1. ASSUME NEW g \in Fragments, rpc_stream_record(g.index, g.payload)
        PROVE  StoredIsContent'
    <3>1. CASE Accepted(g.index, g.payload)
      <4>1. g.payload = Content[g.index]
        BY <3>1 DEF Accepted, genuine, rpc_chunk_digest, expected_digest
      <4>2. ASSUME NEW i \in received_bitmap'
            PROVE  buffer'[i] = Content[i]
        <5>1. buffer'[i] = IF i = g.index THEN g.payload ELSE buffer[i]
          BY <3>1, <4>2 DEF Accepted, stored, TypeOK
        <5>2. QED
          BY <3>1, <4>1, <4>2, <5>1 DEF Accepted, StoredIsContent
      <4>3. QED
        BY <4>2 DEF StoredIsContent
    <3>2. CASE ~ Accepted(g.index, g.payload)
      BY <2>1, <3>2
         DEF rpc_stream_record, OutOfRange, Rejected, Duplicate, state, StoredIsContent
    <3>3. QED
      BY <3>1, <3>2
  <2>2. CASE UNCHANGED <<state, buffer>>
    BY <2>2 DEF state, StoredIsContent
  <2>3. QED
    BY <2>1, <2>2, StepRecords
<1>3. QED
  BY <1>1, <1>2, TypeCorrect, PTL DEF Spec

\* No fragment but a good one changes the account, and no bit is ever cleared.
THEOREM OnlyGoodCount == Spec => OnlyGoodFragmentsCount
<1> DEFINE Good == /\ received_bitmap \subseteq received_bitmap'
                   /\ received_bitmap' # received_bitmap <=> received_chunks' # received_chunks
                   /\ verified_bytes' # verified_bytes => received_bitmap' # received_bitmap
                   /\ received_bitmap' # received_bitmap => status' = "RPC_OK"
<1>1. TypeOK /\ [Next]_vars => [Good]_vars
  <2> SUFFICES ASSUME TypeOK, [Next]_vars
               PROVE  Good
    OBVIOUS
  <2>1. ASSUME NEW g \in Fragments, rpc_stream_record(g.index, g.payload)
        PROVE  Good
    <3>1. CASE Accepted(g.index, g.payload)
      <4>1. received_chunks' # received_chunks
        BY <3>1, SMT DEF Accepted, TypeOK
      <4>2. received_bitmap' # received_bitmap
        BY <3>1 DEF Accepted
      <4>3. QED
        BY <3>1, <4>1, <4>2 DEF Accepted
    <3>2. CASE ~ Accepted(g.index, g.payload)
      BY <2>1, <3>2 DEF rpc_stream_record, OutOfRange, Rejected, Duplicate, state
    <3>3. QED
      BY <3>1, <3>2
  <2>2. CASE UNCHANGED <<state, buffer>>
    BY <2>2 DEF state
  <2>3. QED
    BY <2>1, <2>2, StepRecords
<1>2. QED
  BY <1>1, TypeCorrect, PTL DEF Spec, OnlyGoodFragmentsCount

-----------------------------------------------------------------------------
(* The crypto runtime: what makes a function right.  For each step of its   *)
(* body, the tables tell what has been asked for, what was tested, which    *)
(* buffers were filled and which lengths were reported before it.           *)

Elements(s) == {s[i] : i \in 1 .. Len(s)}
Distinct(s) == \A i, j \in 1 .. Len(s) : s[i] = s[j] => i = j
Does == {"new", "test", "call", "sure", "final", "whole", "decide"}

\* Objects are used once tested, and tested once asked for; a test that leaves
\* at once finds nothing else to free; what is freed, once, is what was made.
Careful(f, made, tested) ==
  LET B == f.body
      L == Len(f.body)
  IN
  /\ L \in Nat
  /\ made[1] = {} /\ tested[1] = {}
  /\ \A i \in 1 .. L :
       /\ B[i].does \in Does
       /\ B[i].uses \subseteq tested[i]
       /\ B[i].does = "new" => B[i].makes \in Objects \ made[i]
       /\ B[i].does = "test" => /\ B[i].objects \subseteq made[i]
                                /\ B[i].exit # "done" => \E o \in Objects : made[i] = {o}
       /\ B[i].does = "new" => made[i + 1] = made[i] \cup {B[i].makes}
       /\ B[i].does # "new" => made[i + 1] = made[i]
       /\ B[i].does = "test" => tested[i + 1] = tested[i] \cup B[i].objects
       /\ B[i].does # "test" => tested[i + 1] = tested[i]
  /\ f.freed \in Seq(Objects) /\ Distinct(f.freed)
  /\ \A i \in 1 .. L + 1 : made[i] \subseteq Elements(f.freed) /\ tested[i] \subseteq made[i]

\* The lengths and the buffers are what the tests and the caller expect.
Exact(a, f, made, tested, out, last, sum) ==
  LET B == f.body
      L == Len(f.body)
  IN
  /\ out[1] = {} /\ last[1] = 0 /\ sum[1] = 0
  /\ \A i \in 1 .. L :
       /\ B[i].does \in {"call", "sure"} => out[i + 1] = out[i] \cup B[i].fills
       /\ B[i].does \notin {"call", "sure"} => out[i + 1] = out[i]
       /\ last[i] \in Int
       /\ B[i].does = "call" => /\ B[i].n = -1 => last[i + 1] = last[i]
                                /\ B[i].n # -1 => last[i + 1] = B[i].n
       /\ B[i].does = "final" => last[i + 1] = 0 /\ sum[i + 1] = last[i]
       /\ B[i].does \notin {"call", "final"} => last[i + 1] = last[i]
       /\ B[i].does # "final" => sum[i + 1] = sum[i]
       /\ "tag" \notin out[i]
       /\ B[i].does = "whole" => (sum[i] # B[i].length <=> OnlyAad(a)) /\ a.fn = "aead_encrypt"
       /\ B[i].does = "decide" =>
            /\ i = L /\ made[i] \subseteq tested[i]
            /\ a.fn \in {"ed25519_verify", "ed448_verify", "aead_decrypt"}
            /\ last[i] # B[i].length <=> OnlyAad(a)
            /\ a.fn = "aead_decrypt" => out[i] = outputs(a)
  /\ a.fn = "aead_decrypt" => L > 0 /\ B[L].does = "decide"
  /\ (\A i \in 1 .. L : B[i].does # "decide") =>
       /\ a.fn \notin {"ed25519_verify", "ed448_verify", "aead_decrypt"} /\ a.genuine = TRUE
       /\ made[L + 1] \subseteq tested[L + 1]
       /\ out[L + 1] = outputs(a)
       /\ OnlyAad(a) => \E i \in 1 .. L : B[i].does = "whole"

Right(a, f) ==
  \E made, tested, out, last, sum :
    Careful(f, made, tested) /\ Exact(a, f, made, tested, out, last, sum)

\* What a caller may pass.
Possible(a) == \E fn \in DOMAIN parameters : a \in Arguments(fn)

-----------------------------------------------------------------------------
(* What a right function does. *)

Progress(f, made, tested, out, last, sum) ==
  /\ pc \in 1 .. Len(f.body) + 1
  /\ \A o \in Objects : IF o \in made[pc] THEN object[o] \in {"live", "null"}
                        ELSE object[o] = "none"
  /\ \A o \in tested[pc] : object[o] = "live"
  /\ failed <=> \E o \in Objects : object[o] = "null"
  /\ filled = out[pc] /\ n = last[pc] /\ total = sum[pc]
  /\ \A i \in 1 .. pc - 1 : /\ f.body[i].does # "decide"
                            /\ f.body[i].does = "whole" => ~ OnlyAad(call)

Running ==
  \E made, tested, out, last, sum :
    /\ Careful(function(call), made, tested)
    /\ Exact(call, function(call), made, tested, out, last, sum)
    /\ Progress(function(call), made, tested, out, last, sum)

Freeing ==
  /\ frees \in Seq(Objects) /\ Distinct(frees)
  /\ \A o \in Objects : object[o] = "live" => o \in Elements(frees)
  /\ \A o \in Elements(frees) : object[o] # "freed"

\* What ReturnTells says of a call that returns.
Told ==
  LET verifies == call.fn \in {"ed25519_verify", "ed448_verify"}
      decrypts == call.fn = "aead_decrypt"
      worked == accepted(call) /\ ~ failed
      refused == worked /\ ~ call.genuine
  IN  /\ rc = 0 <=> worked /\ call.genuine /\ ~ OnlyAad(call)
      /\ rc = 1 <=> \/ (verifies \/ decrypts) /\ refused
                    \/ decrypts /\ failed /\ pc = Len(body)
      /\ rc = 0 /\ ~ verifies => filled = outputs(call)
      /\ rc # 0 => "tag" \notin filled

RuntimeInv ==
  /\ phase \in {"idle", "body", "done", "returned"}
  /\ DOMAIN object = Objects /\ failed \in BOOLEAN
  /\ phase = "idle" => /\ pc = 1 /\ object = [o \in Objects |-> "none"]
                       /\ n = 0 /\ total = 0 /\ filled = {} /\ failed = FALSE /\ rc = -1
  /\ phase # "idle" => Possible(call)
  /\ phase = "body" => accepted(call) /\ Running
  /\ phase = "done" => Freeing /\ Told
  /\ phase = "returned" => (\A o \in Objects : object[o] # "live") /\ Told

\* What is left of a list without its first element.
LEMMA RestOfList ==
  ASSUME NEW S, NEW s \in Seq(S), s # <<>>, Distinct(s)
  PROVE  /\ Head(s) \in Elements(s) /\ Head(s) \in S
         /\ Tail(s) \in Seq(S) /\ Distinct(Tail(s))
         /\ Elements(Tail(s)) = Elements(s) \ {Head(s)}
<1> DEFINE t == Tail(s)
           k == Len(s)
<1>1. /\ k \in Nat /\ k >= 1 /\ Head(s) = s[1] /\ Head(s) \in S
      /\ t \in Seq(S) /\ Len(t) = k - 1 /\ \A i \in 1 .. k - 1 : t[i] = s[i + 1]
  <2>1. Len(s) \in Nat /\ Len(s) # 0
    BY EmptySeq, LenProperties
  <2>2. Head(s) \in S /\ t \in Seq(S) /\ Len(t) = k - 1 /\ \A i \in 1 .. Len(t) : t[i] = s[i + 1]
    BY HeadTailProperties
  <2>3. Head(s) = s[1]
    OBVIOUS
  <2>4. QED
    BY <2>1, <2>2, <2>3, SMT
<1> HIDE DEF t
<1>2. \A i, j \in 1 .. k : s[i] = s[j] => i = j
  BY DEF Distinct
<1> HIDE DEF k
<1>3. Distinct(t)
  BY <1>1, <1>2, SMT DEF Distinct
<1>4. Head(s) \in Elements(s)
  BY <1>1, SMT DEF Elements, k
<1>5. Elements(s) = {s[i] : i \in 1 .. k} /\ Elements(t) = {t[i] : i \in 1 .. k - 1}
  BY <1>1 DEF Elements, k
<1>6. ASSUME NEW x \in Elements(t)
      PROVE  x \in Elements(s) /\ x # Head(s)
  <2>1. PICK i \in 1 .. k - 1 : x = t[i]
    BY <1>5
  <2>2. i + 1 \in 1 .. k /\ 1 \in 1 .. k /\ i + 1 # 1 /\ x = s[i + 1]
    BY <1>1, <2>1, SMT
  <2>3. QED
    BY <1>1, <1>2, <1>5, <2>2
<1>7. ASSUME NEW x \in Elements(s), x # Head(s)
      PROVE  x \in Elements(t)
  <2>1. PICK i \in 1 .. k : x = s[i]
    BY <1>5
  <2>2. i # 1
    BY <1>1, <1>7, <2>1
  <2>3. i - 1 \in 1 .. k - 1 /\ (i - 1) + 1 = i
    BY <1>1, <2>2, SMT
  <2>4. x = t[i - 1]
    BY <1>1, <2>1, <2>3
  <2>5. QED
    BY <1>5, <2>3, <2>4
<1>8. QED
  BY <1>1, <1>3, <1>4, <1>6, <1>7 DEF t

-----------------------------------------------------------------------------
(* The steps of a call. *)

\* Leaving the body frees what there is to free.
LEMMA LeavingStep ==
  ASSUME RuntimeInv, phase = "body", NEW made, NEW tested, NEW code, NEW exit,
         Careful(function(call), made, tested),
         pc \in 1 .. Len(function(call).body) + 1,
         \A o \in Objects : IF o \in made[pc] THEN object[o] \in {"live", "null"}
                            ELSE object[o] = "none",
         Leave(code, exit), UNCHANGED <<call, object>>, failed' \in BOOLEAN,
         exit = "done" \/ \A o \in Objects : object[o] # "live",
         Told'
  PROVE  RuntimeInv'
<1> DEFINE f == function(call)
<1>1. f.freed \in Seq(Objects) /\ Distinct(f.freed) /\ made[pc] \subseteq Elements(f.freed)
  BY DEF Careful
<1>2. Elements(f.freed) \subseteq Objects
  BY <1>1, ElementOfSeq DEF Elements
<1> HIDE DEF f
<1>3. Possible(call') /\ DOMAIN object' = Objects /\ (\A o \in Objects : object'[o] = object[o])
  BY DEF RuntimeInv
<1>4. CASE exit = "done"
  <2>1. phase' = "done" /\ frees' = f.freed
    BY <1>4 DEF Leave, f
  <2>2. Freeing'
    BY <1>1, <1>2, <1>3, <2>1 DEF Freeing
  <2>3. QED
    BY <1>3, <2>1, <2>2 DEF RuntimeInv
<1>5. CASE exit # "done"
  <2>1. phase' = "returned" /\ \A o \in Objects : object[o] # "live"
    BY <1>5 DEF Leave
  <2>2. QED
    BY <1>3, <2>1 DEF RuntimeInv
<1>6. QED
  BY <1>4, <1>5

\* Going on to the next step.
LEMMA GoingOnStep ==
  ASSUME RuntimeInv, phase = "body", GoOn, call' = call, DOMAIN object' = Objects, failed' \in BOOLEAN,
         NEW f, NEW made, NEW tested, NEW out, NEW last, NEW sum, f = function(call),
         Careful(f, made, tested), Exact(call, f, made, tested, out, last, sum),
         Progress(f, made, tested, out, last, sum)'
  PROVE  RuntimeInv'
<1>1. phase' = "body" /\ Possible(call') /\ accepted(call')
  BY DEF GoOn, RuntimeInv
<1>2. Running'
  <2>1. f = function(call')
    OBVIOUS
  <2>2. Careful(f, made, tested) /\ Exact(call', f, made, tested, out, last, sum)
    OBVIOUS
  <2>3. QED
    BY <2>1, <2>2 DEF Running
<1>3. QED
  BY <1>1, <1>2 DEF RuntimeInv

\* What the tables say of the step at pc.
LEMMA StepTables ==
  ASSUME RuntimeInv, phase = "body", pc <= Len(body),
         NEW f, NEW made, NEW tested, NEW out, NEW last, NEW sum, f = function(call),
         Careful(f, made, tested), Exact(call, f, made, tested, out, last, sum),
         Progress(f, made, tested, out, last, sum)
  PROVE  /\ Len(f.body) \in Nat /\ pc \in 1 .. Len(f.body) /\ step = f.body[pc]
         /\ step.does \in Does /\ step.uses \subseteq tested[pc]
         /\ step.does = "new" => step.makes \in Objects \ made[pc]
         /\ step.does = "test" => /\ step.objects \subseteq made[pc]
                                  /\ step.exit # "done" => \E o \in Objects : made[pc] = {o}
         /\ step.does = "new" => made[pc + 1] = made[pc] \cup {step.makes}
         /\ step.does # "new" => made[pc + 1] = made[pc]
         /\ step.does = "test" => tested[pc + 1] = tested[pc] \cup step.objects
         /\ step.does # "test" => tested[pc + 1] = tested[pc]
         /\ tested[pc] \subseteq made[pc] /\ made[pc] \subseteq Objects
         /\ step.does \in {"call", "sure"} => out[pc + 1] = out[pc] \cup step.fills
         /\ step.does \notin {"call", "sure"} => out[pc + 1] = out[pc]
         /\ step.does = "call" => /\ step.n = -1 => last[pc + 1] = last[pc]
                                  /\ step.n # -1 => last[pc + 1] = step.n
         /\ step.does = "final" => last[pc + 1] = 0 /\ sum[pc + 1] = last[pc]
         /\ step.does \notin {"call", "final"} => last[pc + 1] = last[pc]
         /\ step.does # "final" => sum[pc + 1] = sum[pc]
         /\ last[pc] \in Int /\ "tag" \notin out[pc]
         /\ step.does = "whole" => (sum[pc] # step.length <=> OnlyAad(call)) /\ call.fn = "aead_encrypt"
         /\ step.does = "decide" =>
              /\ pc = Len(f.body) /\ made[pc] \subseteq tested[pc]
              /\ call.fn \in {"ed25519_verify", "ed448_verify", "aead_decrypt"}
              /\ last[pc] # step.length <=> OnlyAad(call)
              /\ call.fn = "aead_decrypt" => out[pc] = outputs(call)
         /\ call.fn = "aead_decrypt" => f.body[Len(f.body)].does = "decide"
<1> DEFINE L == Len(f.body)
<1>1. L \in Nat /\ pc \in 1 .. L + 1 /\ body = f.body /\ step = f.body[pc]
  BY DEF Careful, Progress, body, step
<1>2. pc \in 1 .. L /\ pc \in 1 .. L + 1
  <2>1. pc <= L
    BY <1>1
  <2> HIDE DEF L
  <2>2. QED
    BY <1>1, <2>1, SMT
<1>3. made[pc] \subseteq Elements(f.freed) /\ tested[pc] \subseteq made[pc] /\ f.freed \in Seq(Objects)
  BY <1>2 DEF Careful
<1>4. made[pc] \subseteq Objects
  BY <1>3, ElementOfSeq DEF Elements
<1>5. /\ step.does \in Does
      /\ step.uses \subseteq tested[pc]
      /\ step.does = "new" => step.makes \in Objects \ made[pc]
      /\ step.does = "test" => /\ step.objects \subseteq made[pc]
                               /\ step.exit # "done" => \E o \in Objects : made[pc] = {o}
      /\ step.does = "new" => made[pc + 1] = made[pc] \cup {step.makes}
      /\ step.does # "new" => made[pc + 1] = made[pc]
      /\ step.does = "test" => tested[pc + 1] = tested[pc] \cup step.objects
      /\ step.does # "test" => tested[pc + 1] = tested[pc]
  <2> HIDE DEF L
  <2>1. pc \in 1 .. Len(f.body)
    BY <1>2 DEF L
  <2>2. QED
    BY <1>1, <2>1, Zenon DEF Careful
<1>6. /\ step.does \in {"call", "sure"} => out[pc + 1] = out[pc] \cup step.fills
      /\ step.does \notin {"call", "sure"} => out[pc + 1] = out[pc]
      /\ last[pc] \in Int
      /\ step.does = "call" => /\ step.n = -1 => last[pc + 1] = last[pc]
                               /\ step.n # -1 => last[pc + 1] = step.n
      /\ step.does = "final" => last[pc + 1] = 0 /\ sum[pc + 1] = last[pc]
      /\ step.does \notin {"call", "final"} => last[pc + 1] = last[pc]
      /\ step.does # "final" => sum[pc + 1] = sum[pc]
      /\ "tag" \notin out[pc]
      /\ step.does = "whole" => (sum[pc] # step.length <=> OnlyAad(call)) /\ call.fn = "aead_encrypt"
      /\ step.does = "decide" =>
           /\ pc = Len(f.body) /\ made[pc] \subseteq tested[pc]
           /\ call.fn \in {"ed25519_verify", "ed448_verify", "aead_decrypt"}
           /\ last[pc] # step.length <=> OnlyAad(call)
           /\ call.fn = "aead_decrypt" => out[pc] = outputs(call)
  <2> HIDE DEF L
  <2>1. pc \in 1 .. Len(f.body)
    BY <1>2 DEF L
  <2> DEFINE B == f.body
             i == pc
  <2>2. /\ B[i].does \in {"call", "sure"} => out[i + 1] = out[i] \cup B[i].fills
        /\ B[i].does \notin {"call", "sure"} => out[i + 1] = out[i]
        /\ last[i] \in Int
        /\ B[i].does = "call" => /\ B[i].n = -1 => last[i + 1] = last[i]
                                 /\ B[i].n # -1 => last[i + 1] = B[i].n
        /\ B[i].does = "final" => last[i + 1] = 0 /\ sum[i + 1] = last[i]
        /\ B[i].does \notin {"call", "final"} => last[i + 1] = last[i]
        /\ B[i].does # "final" => sum[i + 1] = sum[i]
        /\ "tag" \notin out[i]
        /\ B[i].does = "whole" => (sum[i] # B[i].length <=> OnlyAad(call)) /\ call.fn = "aead_encrypt"
        /\ B[i].does = "decide" =>
             /\ i = Len(f.body) /\ made[i] \subseteq tested[i]
             /\ call.fn \in {"ed25519_verify", "ed448_verify", "aead_decrypt"}
             /\ last[i] # B[i].length <=> OnlyAad(call)
             /\ call.fn = "aead_decrypt" => out[i] = outputs(call)
    BY <2>1 DEF Exact
  <2>3. step = B[i]
    BY <1>1
  <2> HIDE DEF B
  <2>4. QED
    BY <2>2, <2>3
<1>7. call.fn = "aead_decrypt" => f.body[Len(f.body)].does = "decide"
  BY DEF Exact
<1>8. QED
  BY <1>1, <1>2, <1>3, <1>4, <1>5, <1>6, <1>7

Tables(f, made, tested, out, last, sum) ==
  /\ f = function(call)
  /\ Careful(f, made, tested)
  /\ Exact(call, f, made, tested, out, last, sum)
  /\ Progress(f, made, tested, out, last, sum)

\* What Progress becomes when a step is done.
LEMMA NextProgress ==
  ASSUME RuntimeInv, phase = "body", pc <= Len(body), GoOn, call' = call,
         NEW f, NEW made, NEW tested, NEW out, NEW last, NEW sum,
         Tables(f, made, tested, out, last, sum),
         DOMAIN object' = Objects, failed' \in BOOLEAN,
         \A o \in Objects : IF o \in made[pc + 1] THEN object'[o] \in {"live", "null"}
                            ELSE object'[o] = "none",
         \A o \in tested[pc + 1] : object'[o] = "live",
         failed' <=> \E o \in Objects : object'[o] = "null",
         filled' = out[pc + 1], n' = last[pc + 1], total' = sum[pc + 1],
         step.does # "decide", step.does = "whole" => ~ OnlyAad(call)
  PROVE  RuntimeInv'
<1>1. /\ f = function(call) /\ Careful(f, made, tested) /\ Exact(call, f, made, tested, out, last, sum)
      /\ Progress(f, made, tested, out, last, sum)
  BY DEF Tables
<1>2. Len(f.body) \in Nat /\ pc \in 1 .. Len(f.body) /\ step = f.body[pc]
  BY <1>1, StepTables
<1>3. pc' = pc + 1
  BY DEF GoOn
<1>4. pc' \in 1 .. Len(f.body) + 1 /\ 1 .. pc' - 1 = (1 .. pc - 1) \cup {pc}
  <2> DEFINE L == Len(f.body)
  <2> HIDE DEF L
  <2>1. pc + 1 \in 1 .. L + 1 /\ 1 .. (pc + 1) - 1 = (1 .. pc - 1) \cup {pc}
    BY <1>2, SMT DEF L
  <2>2. QED
    BY <1>3, <2>1 DEF L
<1>5. \A i \in 1 .. pc' - 1 : f.body[i].does # "decide" /\ (f.body[i].does = "whole" => ~ OnlyAad(call'))
  BY <1>1, <1>2, <1>4 DEF Progress
<1>6. Progress(f, made, tested, out, last, sum)'
  BY <1>3, <1>4, <1>5, Zenon DEF Progress
<1>7. QED
  BY <1>1, <1>6, GoingOnStep

\* An error is reported as one.
LEMMA ErrorTold ==
  ASSUME failed' = TRUE, call' = call, rc' = -1, "tag" \notin filled',
         call.fn = "aead_decrypt" => pc' # Len(body)
  PROVE  Told'
<1>1. body' = body
  BY DEF body
<1>2. rc' # 0 /\ rc' # 1
  BY SMT
<1>3. QED
  BY <1>1, <1>2 DEF Told

LEMMA AllocateStep ==
  ASSUME RuntimeInv, Allocate
  PROVE  RuntimeInv'
<1>1. phase = "body" /\ pc <= Len(body) /\ step.does = "new" /\ GoOn /\ UNCHANGED <<call, n, total, filled>>
  BY DEF Allocate, At
<1>2. PICK made, tested, out, last, sum : Tables(function(call), made, tested, out, last, sum)
  BY <1>1 DEF RuntimeInv, Running, Tables
<1> DEFINE f == function(call)
<1>3. Tables(f, made, tested, out, last, sum)
  BY <1>2
<1>4. f = function(call)
  OBVIOUS
<1> HIDE DEF f
<1>5. /\ step.makes \in Objects \ made[pc]
      /\ made[pc + 1] = made[pc] \cup {step.makes} /\ tested[pc + 1] = tested[pc]
      /\ tested[pc] \subseteq made[pc] /\ made[pc] \subseteq Objects
      /\ out[pc + 1] = out[pc] /\ last[pc + 1] = last[pc] /\ sum[pc + 1] = sum[pc]
  BY <1>1, <1>3, StepTables DEF Tables
<1>6. /\ \A o \in Objects : IF o \in made[pc] THEN object[o] \in {"live", "null"} ELSE object[o] = "none"
      /\ \A o \in tested[pc] : object[o] = "live"
      /\ failed <=> \E o \in Objects : object[o] = "null"
      /\ filled = out[pc] /\ n = last[pc] /\ total = sum[pc]
  BY <1>3 DEF Tables, Progress
<1>7. PICK got \in {"live", "null"} :
        object' = [object EXCEPT ![step.makes] = got] /\ failed' = (failed \/ got = "null")
  BY DEF Allocate
<1>8. /\ DOMAIN object' = Objects
      /\ \A o \in Objects : object'[o] = IF o = step.makes THEN got ELSE object[o]
  BY <1>7 DEF RuntimeInv
<1>9. failed' \in BOOLEAN
  BY <1>7 DEF RuntimeInv
<1>10. \A o \in Objects : IF o \in made[pc + 1] THEN object'[o] \in {"live", "null"}
                          ELSE object'[o] = "none"
  BY <1>5, <1>6, <1>8
<1>11. \A o \in tested[pc + 1] : object'[o] = "live"
  BY <1>5, <1>6, <1>8
<1>12. failed' <=> \E o \in Objects : object'[o] = "null"
  <2>1. CASE got = "null"
    BY <1>5, <1>7, <1>8, <2>1
  <2>2. CASE got = "live"
    <3>1. object[step.makes] = "none"
      BY <1>5, <1>6
    <3>2. failed' = failed
      BY <1>7, <2>2 DEF RuntimeInv
    <3>3. QED
      BY <1>6, <1>8, <2>2, <3>1, <3>2
  <2>3. QED
    BY <2>1, <2>2
<1>13. filled' = out[pc + 1] /\ n' = last[pc + 1] /\ total' = sum[pc + 1] /\ call' = call
  BY <1>1, <1>5, <1>6
<1>14. step.does # "decide" /\ step.does # "whole"
  BY <1>1
<1>15. QED
  BY <1>1, <1>3, <1>8, <1>9, <1>10, <1>11, <1>12, <1>13, <1>14, NextProgress

LEMMA TestObjectsStep ==
  ASSUME RuntimeInv, TestObjects
  PROVE  RuntimeInv'
<1>1. /\ phase = "body" /\ pc <= Len(body) /\ step.does = "test"
      /\ UNCHANGED <<call, object, n, total, filled, failed>>
  BY DEF TestObjects, At
<1>2. PICK made, tested, out, last, sum : Tables(function(call), made, tested, out, last, sum)
  BY <1>1 DEF RuntimeInv, Running, Tables
<1> DEFINE f == function(call)
<1>3. Tables(f, made, tested, out, last, sum)
  BY <1>2
<1>4. f = function(call) /\ body = f.body
  BY DEF body
<1> HIDE DEF f
<1>5. /\ step.objects \subseteq made[pc]
      /\ step.exit # "done" => \E o \in Objects : made[pc] = {o}
      /\ made[pc + 1] = made[pc] /\ tested[pc + 1] = tested[pc] \cup step.objects
      /\ tested[pc] \subseteq made[pc] /\ made[pc] \subseteq Objects
      /\ out[pc + 1] = out[pc] /\ last[pc + 1] = last[pc] /\ sum[pc + 1] = sum[pc]
      /\ "tag" \notin out[pc] /\ pc \in 1 .. Len(f.body) /\ step = f.body[pc]
      /\ call.fn = "aead_decrypt" => f.body[Len(f.body)].does = "decide"
  <2>1. /\ Careful(f, made, tested) /\ Exact(call, f, made, tested, out, last, sum)
        /\ Progress(f, made, tested, out, last, sum)
    BY <1>3 DEF Tables
  <2>2. pc \in 1 .. Len(f.body) /\ step = f.body[pc] /\ "tag" \notin out[pc]
        /\ (call.fn = "aead_decrypt" => f.body[Len(f.body)].does = "decide")
    BY <1>1, <1>4, <2>1, StepTables
  <2>3. /\ step.objects \subseteq made[pc]
        /\ step.exit # "done" => \E o \in Objects : made[pc] = {o}
        /\ made[pc + 1] = made[pc] /\ tested[pc + 1] = tested[pc] \cup step.objects
        /\ tested[pc] \subseteq made[pc] /\ made[pc] \subseteq Objects
    <3>1. step.does = "test" => /\ step.objects \subseteq made[pc]
                                /\ step.exit # "done" => \E o \in Objects : made[pc] = {o}
      BY <1>1, <1>4, <2>1, StepTables
    <3>2. /\ step.does # "new" => made[pc + 1] = made[pc]
          /\ step.does = "test" => tested[pc + 1] = tested[pc] \cup step.objects
          /\ tested[pc] \subseteq made[pc] /\ made[pc] \subseteq Objects
      BY <1>1, <1>4, <2>1, StepTables
    <3>3. QED
      BY <1>1, <3>1, <3>2
  <2>4. out[pc + 1] = out[pc] /\ last[pc + 1] = last[pc] /\ sum[pc + 1] = sum[pc]
    BY <1>1, <1>4, <2>1, StepTables
  <2>5. QED
    BY <2>2, <2>3, <2>4
<1>6. /\ \A o \in Objects : IF o \in made[pc] THEN object[o] \in {"live", "null"} ELSE object[o] = "none"
      /\ \A o \in tested[pc] : object[o] = "live"
      /\ failed <=> \E o \in Objects : object[o] = "null"
      /\ filled = out[pc] /\ n = last[pc] /\ total = sum[pc]
  BY <1>3 DEF Tables, Progress
<1>7. CASE \E o \in step.objects : object[o] = "null"
  <2>1. Leave(-1, step.exit) /\ pc' = pc
    BY <1>7 DEF TestObjects
  <2>2. failed' = TRUE
    BY <1>1, <1>5, <1>6, <1>7 DEF RuntimeInv
  <2>3. step.exit = "done" \/ \A o \in Objects : object[o] # "live"
    BY <1>5, <1>6, <1>7
  <2>4. Told'
    <3>1. call.fn = "aead_decrypt" => pc' # Len(body)
      BY <1>1, <1>4, <1>5, <2>1
    <3>2. rc' = -1 /\ "tag" \notin filled'
      BY <1>1, <1>5, <1>6, <2>1 DEF Leave
    <3>3. QED
      BY <1>1, <2>2, <3>1, <3>2, ErrorTold
  <2>5. pc \in 1 .. Len(f.body) + 1 /\ Careful(f, made, tested)
    BY <1>3 DEF Tables, Progress
  <2>6. QED
    BY <1>1, <1>4, <1>6, <2>1, <2>2, <2>3, <2>4, <2>5, LeavingStep DEF RuntimeInv
<1>8. CASE ~ \E o \in step.objects : object[o] = "null"
  <2>1. GoOn
    BY <1>8 DEF TestObjects
  <2>2. \A o \in tested[pc + 1] : object'[o] = "live"
    BY <1>1, <1>5, <1>6, <1>8
  <2>3. DOMAIN object' = Objects /\ failed' \in BOOLEAN
    BY <1>1 DEF RuntimeInv
  <2>4. /\ \A o \in Objects : IF o \in made[pc + 1] THEN object'[o] \in {"live", "null"}
                              ELSE object'[o] = "none"
        /\ failed' <=> \E o \in Objects : object'[o] = "null"
        /\ filled' = out[pc + 1] /\ n' = last[pc + 1] /\ total' = sum[pc + 1] /\ call' = call
        /\ step.does # "decide" /\ step.does # "whole"
    BY <1>1, <1>5, <1>6
  <2>5. QED
    BY <1>1, <1>3, <2>1, <2>2, <2>3, <2>4, NextProgress
<1>9. QED
  BY <1>7, <1>8

\* What the body's steps have in common: the state before them.
LEMMA AtStep ==
  ASSUME RuntimeInv, phase = "body", pc <= Len(body),
         NEW f, NEW made, NEW tested, NEW out, NEW last, NEW sum,
         Tables(f, made, tested, out, last, sum)
  PROVE  /\ f = function(call) /\ body = f.body /\ Careful(f, made, tested)
         /\ pc \in 1 .. Len(f.body) /\ pc \in 1 .. Len(f.body) + 1 /\ step = f.body[pc]
         /\ "tag" \notin out[pc] /\ last[pc] \in Int
         /\ call.fn = "aead_decrypt" => f.body[Len(f.body)].does = "decide"
         /\ \A o \in Objects : IF o \in made[pc] THEN object[o] \in {"live", "null"} ELSE object[o] = "none"
         /\ \A o \in tested[pc] : object[o] = "live"
         /\ failed <=> \E o \in Objects : object[o] = "null"
         /\ filled = out[pc] /\ n = last[pc] /\ total = sum[pc]
         /\ DOMAIN object = Objects /\ failed \in BOOLEAN
<1>1. /\ f = function(call) /\ Careful(f, made, tested) /\ Exact(call, f, made, tested, out, last, sum)
      /\ Progress(f, made, tested, out, last, sum)
  BY DEF Tables
<1>2. pc \in 1 .. Len(f.body) /\ step = f.body[pc] /\ "tag" \notin out[pc] /\ last[pc] \in Int
      /\ (call.fn = "aead_decrypt" => f.body[Len(f.body)].does = "decide")
  BY <1>1, StepTables
<1>3. pc \in 1 .. Len(f.body) + 1
  BY <1>1 DEF Progress
<1>4. /\ \A o \in Objects : IF o \in made[pc] THEN object[o] \in {"live", "null"} ELSE object[o] = "none"
      /\ \A o \in tested[pc] : object[o] = "live"
      /\ failed <=> \E o \in Objects : object[o] = "null"
      /\ filled = out[pc] /\ n = last[pc] /\ total = sum[pc]
  BY <1>1 DEF Progress
<1>5. DOMAIN object = Objects /\ failed \in BOOLEAN /\ body = f.body
  BY <1>1 DEF RuntimeInv, body
<1>6. QED
  BY <1>1, <1>2, <1>3, <1>4, <1>5

\* A step that makes and tests no object goes on.
LEMMA CallDone ==
  ASSUME RuntimeInv, phase = "body", pc <= Len(body), GoOn, UNCHANGED <<call, object, failed>>,
         NEW f, NEW made, NEW tested, NEW out, NEW last, NEW sum,
         Tables(f, made, tested, out, last, sum),
         step.does \notin {"new", "test", "decide"}, step.does = "whole" => ~ OnlyAad(call),
         filled' = out[pc + 1], n' = last[pc + 1], total' = sum[pc + 1]
  PROVE  RuntimeInv'
<1>1. /\ f = function(call) /\ Careful(f, made, tested) /\ Exact(call, f, made, tested, out, last, sum)
      /\ Progress(f, made, tested, out, last, sum)
  BY DEF Tables
<1>3. made[pc + 1] = made[pc] /\ tested[pc + 1] = tested[pc]
  BY <1>1, StepTables
<1>4. /\ \A o \in Objects : IF o \in made[pc] THEN object[o] \in {"live", "null"} ELSE object[o] = "none"
      /\ \A o \in tested[pc] : object[o] = "live"
      /\ failed <=> \E o \in Objects : object[o] = "null"
      /\ DOMAIN object = Objects /\ failed \in BOOLEAN
  BY AtStep
<1>5. /\ \A o \in Objects : IF o \in made[pc + 1] THEN object'[o] \in {"live", "null"}
                            ELSE object'[o] = "none"
      /\ \A o \in tested[pc + 1] : object'[o] = "live"
      /\ failed' <=> \E o \in Objects : object'[o] = "null"
      /\ DOMAIN object' = Objects /\ failed' \in BOOLEAN
      /\ step.does # "decide" /\ call' = call
  BY <1>3, <1>4
<1>6. QED
  BY <1>5, NextProgress

\* A step that fails leaves, and is told as an error.
LEMMA CallFailed ==
  ASSUME RuntimeInv, phase = "body", pc <= Len(body), UNCHANGED <<call, object, pc, filled>>,
         NEW f, NEW made, NEW tested, NEW out, NEW last, NEW sum,
         Tables(f, made, tested, out, last, sum),
         step.does # "decide", failed' = TRUE, Leave(-1, "done")
  PROVE  RuntimeInv'
<1>1. /\ f = function(call) /\ body = f.body /\ Careful(f, made, tested)
      /\ pc \in 1 .. Len(f.body) + 1 /\ step = f.body[pc]
      /\ "tag" \notin out[pc] /\ filled = out[pc]
      /\ call.fn = "aead_decrypt" => f.body[Len(f.body)].does = "decide"
      /\ \A o \in Objects : IF o \in made[pc] THEN object[o] \in {"live", "null"} ELSE object[o] = "none"
  BY AtStep
<1>2. call.fn = "aead_decrypt" => pc' # Len(body)
  BY <1>1
<1>3. rc' = -1 /\ "tag" \notin filled'
  BY <1>1 DEF Leave
<1>4. Told'
  BY <1>2, <1>3, ErrorTold
<1>5. QED
  BY <1>1, <1>4, LeavingStep

LEMMA MakeCallStep ==
  ASSUME RuntimeInv, MakeCall \/ HashWithBlake3
  PROVE  RuntimeInv'
<1>1. /\ phase = "body" /\ pc <= Len(body) /\ step.does \in {"call", "sure"}
      /\ UNCHANGED <<call, object, total>>
  BY DEF MakeCall, HashWithBlake3, At
<1>2. PICK made, tested, out, last, sum : Tables(function(call), made, tested, out, last, sum)
  BY <1>1 DEF RuntimeInv, Running, Tables
<1> DEFINE f == function(call)
<1>3. Tables(f, made, tested, out, last, sum)
  BY <1>2
<1> HIDE DEF f
<1>4. filled = out[pc] /\ n = last[pc] /\ total = sum[pc]
  BY <1>1, <1>3, AtStep
<1>5. /\ out[pc + 1] = out[pc] \cup step.fills /\ sum[pc + 1] = sum[pc]
      /\ step.does = "call" => /\ step.n = -1 => last[pc + 1] = last[pc]
                               /\ step.n # -1 => last[pc + 1] = step.n
      /\ step.does = "sure" => last[pc + 1] = last[pc]
  <2>1. /\ f = function(call) /\ Careful(f, made, tested) /\ Exact(call, f, made, tested, out, last, sum)
        /\ Progress(f, made, tested, out, last, sum)
    BY <1>3 DEF Tables
  <2>2. QED
    BY <1>1, <2>1, StepTables
<1>6. CASE failed' = TRUE /\ Leave(-1, "done") /\ UNCHANGED <<pc, n, filled>>
  <2>1. step.does # "decide"
    BY <1>1
  <2>2. QED
    BY <1>1, <1>3, <1>6, <2>1, CallFailed
<1>7. CASE /\ filled' = filled \cup step.fills
           /\ n' = IF step.does = "sure" \/ step.n = -1 THEN n ELSE step.n
           /\ GoOn /\ UNCHANGED failed
  <2>1. filled' = out[pc + 1] /\ n' = last[pc + 1] /\ total' = sum[pc + 1]
    BY <1>1, <1>4, <1>5, <1>7
  <2>2. step.does \notin {"new", "test", "decide"} /\ step.does # "whole"
    BY <1>1
  <2>3. QED
    BY <1>1, <1>3, <1>7, <2>1, <2>2, CallDone
<1>8. QED
  <2>1. CASE MakeCall
    <3>1. step.does = "call"
      BY <2>1 DEF MakeCall, At
    <3>2. QED
      BY <1>6, <1>7, <2>1, <3>1 DEF MakeCall
  <2>2. CASE HashWithBlake3
    <3>1. step.does = "sure"
      BY <2>2 DEF HashWithBlake3, At
    <3>2. QED
      BY <1>7, <2>2, <3>1 DEF HashWithBlake3
  <2>3. QED
    BY <2>1, <2>2

LEMMA FinishStep ==
  ASSUME RuntimeInv, Finish
  PROVE  RuntimeInv'
<1>1. phase = "body" /\ pc <= Len(body) /\ step.does = "final" /\ UNCHANGED <<call, object, filled>>
  BY DEF Finish, At
<1>2. PICK made, tested, out, last, sum : Tables(function(call), made, tested, out, last, sum)
  BY <1>1 DEF RuntimeInv, Running, Tables
<1> DEFINE f == function(call)
<1>3. Tables(f, made, tested, out, last, sum)
  BY <1>2
<1> HIDE DEF f
<1>4. filled = out[pc] /\ n = last[pc] /\ total = sum[pc] /\ last[pc] \in Int
  BY <1>1, <1>3, AtStep
<1>5. out[pc + 1] = out[pc] /\ last[pc + 1] = 0 /\ sum[pc + 1] = last[pc]
  <2>1. /\ f = function(call) /\ Careful(f, made, tested) /\ Exact(call, f, made, tested, out, last, sum)
        /\ Progress(f, made, tested, out, last, sum)
    BY <1>3 DEF Tables
  <2>2. QED
    BY <1>1, <2>1, StepTables
<1>6. CASE failed' = TRUE /\ Leave(-1, "done") /\ UNCHANGED <<pc, n>>
  <2>1. step.does # "decide"
    BY <1>1
  <2>2. QED
    BY <1>1, <1>3, <1>6, <2>1, CallFailed
<1>7. CASE total' = n + 0 /\ n' = 0 /\ GoOn /\ UNCHANGED failed
  <2>1. n + 0 = n
    BY <1>4, SMT
  <2>2. filled' = out[pc + 1] /\ n' = last[pc + 1] /\ total' = sum[pc + 1]
    BY <1>1, <1>4, <1>5, <1>7, <2>1
  <2>3. step.does \notin {"new", "test", "decide"} /\ step.does # "whole"
    BY <1>1
  <2>4. QED
    BY <1>1, <1>3, <1>7, <2>2, <2>3, CallDone
<1>8. QED
  BY <1>6, <1>7 DEF Finish

LEMMA TestLengthStep ==
  ASSUME RuntimeInv, TestLength
  PROVE  RuntimeInv'
<1>1. /\ phase = "body" /\ pc <= Len(body) /\ step.does = "whole"
      /\ UNCHANGED <<call, object, n, total, filled, failed>>
  BY DEF TestLength, At
<1>2. PICK made, tested, out, last, sum : Tables(function(call), made, tested, out, last, sum)
  BY <1>1 DEF RuntimeInv, Running, Tables
<1> DEFINE f == function(call)
<1>3. Tables(f, made, tested, out, last, sum)
  BY <1>2
<1>4. f = function(call)
  OBVIOUS
<1> HIDE DEF f
<1>5. /\ filled = out[pc] /\ n = last[pc] /\ total = sum[pc]
      /\ pc \in 1 .. Len(f.body) + 1 /\ pc \in 1 .. Len(f.body) /\ step = f.body[pc] /\ body = f.body
      /\ "tag" \notin out[pc] /\ failed \in BOOLEAN
      /\ call.fn = "aead_decrypt" => f.body[Len(f.body)].does = "decide"
      /\ \A o \in Objects : IF o \in made[pc] THEN object[o] \in {"live", "null"} ELSE object[o] = "none"
  BY <1>1, <1>3, AtStep
<1>6. /\ out[pc + 1] = out[pc] /\ last[pc + 1] = last[pc] /\ sum[pc + 1] = sum[pc]
      /\ sum[pc] # step.length <=> OnlyAad(call)
      /\ call.fn = "aead_encrypt"
  <2>1. /\ f = function(call) /\ Careful(f, made, tested) /\ Exact(call, f, made, tested, out, last, sum)
        /\ Progress(f, made, tested, out, last, sum)
    BY <1>3 DEF Tables
  <2>2. QED
    BY <1>1, <2>1, StepTables
<1>7. CASE total # step.length
  <2>1. Leave(-1, "done") /\ pc' = pc
    BY <1>7 DEF TestLength
  <2>2. OnlyAad(call)
    BY <1>5, <1>6, <1>7
  <2>3. Told'
    <3>1. rc' = -1 /\ call' = call /\ "tag" \notin filled' /\ body' = body /\ rc' # 0 /\ rc' # 1
      BY <1>1, <1>5, <2>1, SMT DEF Leave, body
    <3>2. QED
      BY <1>6, <2>2, <3>1 DEF Told
  <2>4. QED
    BY <1>1, <1>3, <1>4, <1>5, <2>1, <2>3, LeavingStep DEF Tables
<1>8. CASE total = step.length
  <2>1. GoOn
    BY <1>8 DEF TestLength
  <2>2. ~ OnlyAad(call)
    BY <1>5, <1>6, <1>8
  <2>3. QED
    BY <1>1, <1>3, <1>5, <1>6, <2>1, <2>2, CallDone
<1>9. QED
  BY <1>7, <1>8

LEMMA VerdictStep ==
  ASSUME RuntimeInv, Verdict
  PROVE  RuntimeInv'
<1>1. /\ phase = "body" /\ pc <= Len(body) /\ step.does = "decide"
      /\ UNCHANGED <<call, pc, object, filled>> /\ total' = n
  BY DEF Verdict, At
<1>2. PICK made, tested, out, last, sum : Tables(function(call), made, tested, out, last, sum)
  BY <1>1 DEF RuntimeInv, Running, Tables
<1> DEFINE f == function(call)
<1>3. Tables(f, made, tested, out, last, sum)
  BY <1>2
<1>4. f = function(call)
  OBVIOUS
<1> HIDE DEF f
<1>5. /\ filled = out[pc] /\ n = last[pc]
      /\ pc \in 1 .. Len(f.body) + 1 /\ body = f.body
      /\ "tag" \notin out[pc] /\ failed \in BOOLEAN
      /\ \A o \in Objects : IF o \in made[pc] THEN object[o] \in {"live", "null"} ELSE object[o] = "none"
      /\ \A o \in tested[pc] : object[o] = "live"
      /\ failed <=> \E o \in Objects : object[o] = "null"
  BY <1>1, <1>3, AtStep
<1>6. /\ pc = Len(f.body) /\ made[pc] \subseteq tested[pc]
      /\ call.fn \in {"ed25519_verify", "ed448_verify", "aead_decrypt"}
      /\ last[pc] # step.length <=> OnlyAad(call)
      /\ call.fn = "aead_decrypt" => out[pc] = outputs(call)
  <2>1. /\ f = function(call) /\ Careful(f, made, tested) /\ Exact(call, f, made, tested, out, last, sum)
        /\ Progress(f, made, tested, out, last, sum)
    BY <1>3 DEF Tables
  <2>2. QED
    BY <1>1, <2>1, StepTables
<1>7. failed = FALSE
  BY <1>5, <1>6
<1>8. accepted(call) /\ Possible(call) /\ call.genuine \in BOOLEAN
  <2>1. accepted(call) /\ Possible(call)
    BY <1>1 DEF RuntimeInv
  <2>2. PICK fn \in DOMAIN parameters : call \in Arguments(fn)
    BY <2>1 DEF Possible
  <2>3. call.genuine \in BOOLEAN
    BY <2>2 DEF Arguments
  <2>4. QED
    BY <2>1, <2>3
<1>9. call' = call /\ pc' = Len(body') /\ filled' = filled /\ body' = body
  BY <1>1, <1>5, <1>6 DEF body
<1>10. CASE Leave(IF ~ call.genuine THEN 1 ELSE IF total' = step.length THEN 0 ELSE -1, "done")
            /\ UNCHANGED failed
  <2> DEFINE code == IF ~ call.genuine THEN 1 ELSE IF total' = step.length THEN 0 ELSE -1
  <2>1. rc' = code /\ failed' = FALSE
    BY <1>7, <1>10 DEF Leave
  <2>2. total' = step.length <=> ~ OnlyAad(call)
    BY <1>1, <1>5, <1>6
  <2>3. /\ rc' = 0 <=> call.genuine /\ ~ OnlyAad(call)
        /\ rc' = 1 <=> ~ call.genuine
    BY <1>8, <2>1, <2>2
  <2>4. Told'
    BY <1>5, <1>6, <1>8, <1>9, <2>1, <2>3 DEF Told
  <2>5. Leave(code, "done")
    BY <1>10
  <2> HIDE DEF code
  <2>6. QED
    BY <1>1, <1>3, <1>4, <1>5, <2>1, <2>4, <2>5, LeavingStep DEF Tables
<1>11. CASE failed' = TRUE /\ Leave(IF call.fn = "aead_decrypt" THEN 1 ELSE -1, "done")
  <2> DEFINE code == IF call.fn = "aead_decrypt" THEN 1 ELSE -1
  <2>1. rc' = code /\ failed' = TRUE
    BY <1>11 DEF Leave
  <2>2. rc' # 0 /\ (rc' = 1 <=> call.fn = "aead_decrypt")
    BY <2>1
  <2>3. Told'
    BY <1>5, <1>6, <1>8, <1>9, <2>1, <2>2 DEF Told
  <2>4. Leave(code, "done")
    BY <1>11
  <2> HIDE DEF code
  <2>5. QED
    BY <1>1, <1>3, <1>4, <1>5, <2>1, <2>3, <2>4, LeavingStep DEF Tables
<1>12. QED
  BY <1>10, <1>11 DEF Verdict

LEMMA EndOfBodyStep ==
  ASSUME RuntimeInv, EndOfBody
  PROVE  RuntimeInv'
<1>1. /\ phase = "body" /\ pc > Len(body) /\ Leave(0, "done")
      /\ UNCHANGED <<call, pc, object, n, total, filled, failed>>
  BY DEF EndOfBody
<1>2. PICK made, tested, out, last, sum : Tables(function(call), made, tested, out, last, sum)
  BY <1>1 DEF RuntimeInv, Running, Tables
<1> DEFINE f == function(call)
           L == Len(f.body)
<1>3. Tables(f, made, tested, out, last, sum)
  BY <1>2
<1>4. f = function(call) /\ body = f.body
  BY DEF body
<1> HIDE DEF f
<1>5. /\ Careful(f, made, tested) /\ Exact(call, f, made, tested, out, last, sum)
      /\ Progress(f, made, tested, out, last, sum) /\ L \in Nat
  BY <1>3 DEF Tables, Careful
<1>6. pc \in 1 .. L + 1 /\ pc > L
  BY <1>1, <1>4, <1>5 DEF Progress
<1> HIDE DEF L
<1>7. pc = L + 1 /\ 1 .. pc - 1 = 1 .. L /\ pc # L
  BY <1>5, <1>6, SMT
<1>8. /\ \A i \in 1 .. L : f.body[i].does # "decide"
      /\ \A i \in 1 .. L : f.body[i].does = "whole" => ~ OnlyAad(call)
      /\ \A o \in Objects : IF o \in made[pc] THEN object[o] \in {"live", "null"} ELSE object[o] = "none"
      /\ \A o \in tested[pc] : object[o] = "live"
      /\ failed <=> \E o \in Objects : object[o] = "null"
      /\ filled = out[pc]
  BY <1>5, <1>7 DEF Progress
<1>9. /\ call.fn \notin {"ed25519_verify", "ed448_verify", "aead_decrypt"} /\ call.genuine = TRUE
      /\ made[L + 1] \subseteq tested[L + 1]
      /\ out[L + 1] = outputs(call)
      /\ OnlyAad(call) => \E i \in 1 .. L : f.body[i].does = "whole"
  BY <1>5, <1>8 DEF Exact, L
<1>10. failed = FALSE /\ ~ OnlyAad(call)
  <2>1. failed \in BOOLEAN
    BY DEF RuntimeInv
  <2>2. ~ OnlyAad(call)
    BY <1>8, <1>9
  <2>3. ~ \E o \in Objects : object[o] = "null"
    BY <1>7, <1>8, <1>9
  <2>4. QED
    BY <1>8, <2>1, <2>2, <2>3
<1>11. accepted(call)
  BY <1>1 DEF RuntimeInv
<1>12. Told'
  <2>1. rc' = 0 /\ call' = call /\ failed' = FALSE /\ filled' = outputs(call)
    BY <1>1, <1>7, <1>8, <1>9, <1>10 DEF Leave
  <2>2. QED
    BY <1>9, <1>10, <1>11, <2>1 DEF Told
<1>13. pc \in 1 .. Len(f.body) + 1 /\ failed' \in BOOLEAN
  BY <1>1, <1>6, <1>10 DEF L
<1>14. QED
  BY <1>1, <1>4, <1>5, <1>8, <1>12, <1>13, LeavingStep

-----------------------------------------------------------------------------
(* A body is built step by step, and its tables with it. *)

\* What one step may be, and what it makes of the tables.
Fits(a, b, m, t, o, l, s, m2, t2, o2, l2, s2) ==
  /\ b.does \in Does \ {"decide"}
  /\ b.uses \subseteq t
  /\ b.does = "new" => b.makes \in Objects \ m
  /\ b.does = "test" => /\ b.objects \subseteq m
                        /\ b.exit # "done" => \E x \in Objects : m = {x}
  /\ b.does = "new" => m2 = m \cup {b.makes}
  /\ b.does # "new" => m2 = m
  /\ b.does = "test" => t2 = t \cup b.objects
  /\ b.does # "test" => t2 = t
  /\ b.does \in {"call", "sure"} => o2 = o \cup b.fills
  /\ b.does \notin {"call", "sure"} => o2 = o
  /\ b.does = "call" => /\ b.n = -1 => l2 = l
                        /\ b.n # -1 => l2 = b.n
  /\ b.does = "final" => l2 = 0 /\ s2 = l
  /\ b.does \notin {"call", "final"} => l2 = l
  /\ b.does # "final" => s2 = s
  /\ "tag" \notin o /\ l \in Int
  /\ b.does = "whole" => (s # b.length <=> OnlyAad(a)) /\ a.fn = "aead_encrypt"

Table(a, B, made, tested, out, last, sum) ==
  LET L == Len(B)
  IN  /\ L \in Nat /\ B = [i \in 1 .. L |-> B[i]]
      /\ made[1] = {} /\ tested[1] = {} /\ out[1] = {} /\ last[1] = 0 /\ sum[1] = 0
      /\ \A i \in 1 .. L : Fits(a, B[i], made[i], tested[i], out[i], last[i], sum[i],
                                made[i + 1], tested[i + 1], out[i + 1], last[i + 1], sum[i + 1])
      /\ \A i \in 1 .. L + 1 : made[i] \subseteq made[L + 1] /\ tested[i] \subseteq made[i]

\* The steps B lead to these values, and whole tells whether one tests the length.
Reaches(a, B, m, t, o, l, s) ==
  \E made, tested, out, last, sum :
    /\ Table(a, B, made, tested, out, last, sum)
    /\ m = made[Len(B) + 1] /\ t = tested[Len(B) + 1] /\ o = out[Len(B) + 1]
    /\ l = last[Len(B) + 1] /\ s = sum[Len(B) + 1]

\* What a longer list holds.
LEMMA Longer ==
  ASSUME NEW B, Len(B) \in Nat, B = [i \in 1 .. Len(B) |-> B[i]], NEW b
  PROVE  LET C == Append(B, b)
         IN  /\ Len(C) = Len(B) + 1 /\ C = [i \in 1 .. Len(C) |-> C[i]]
             /\ \A i \in 1 .. Len(B) : C[i] = B[i]
             /\ C[Len(B) + 1] = b
<1> DEFINE S == {B[i] : i \in 1 .. Len(B)} \cup {b}
           k == Len(B)
<1>1. B \in Seq(S)
  <2> DEFINE F == [i \in 1 .. k |-> B[i]]
  <2> HIDE DEF k
  <2>1. k \in Nat /\ \A i \in 1 .. k : B[i] \in S
    BY DEF k
  <2> HIDE DEF S
  <2>2. F \in Seq(S)
    BY <2>1, IsASeq
  <2>3. QED
    BY <2>2 DEF k
<1>2. b \in S
  OBVIOUS
<1> HIDE DEF S
<1>3. /\ Append(B, b) \in Seq(S)
      /\ Len(Append(B, b)) = Len(B) + 1
      /\ \A i \in 1 .. Len(B) : Append(B, b)[i] = B[i]
      /\ Append(B, b)[Len(B) + 1] = b
  BY <1>1, <1>2, AppendProperties
<1>4. Append(B, b) = [i \in 1 .. Len(Append(B, b)) |-> Append(B, b)[i]]
  BY <1>3, LenProperties
<1>5. QED
  BY <1>3, <1>4

LEMMA Extend ==
  ASSUME NEW a, NEW B, NEW m, NEW t, NEW o, NEW l, NEW s,
         Reaches(a, B, m, t, o, l, s),
         NEW b, NEW m2, NEW t2, NEW o2, NEW l2, NEW s2,
         Fits(a, b, m, t, o, l, s, m2, t2, o2, l2, s2)
  PROVE  Reaches(a, Append(B, b), m2, t2, o2, l2, s2)
<1> DEFINE k == Len(B)
           C == Append(B, b)
<1>1. PICK made, tested, out, last, sum :
        /\ Table(a, B, made, tested, out, last, sum)
        /\ m = made[k + 1] /\ t = tested[k + 1] /\ o = out[k + 1]
        /\ l = last[k + 1] /\ s = sum[k + 1]
  BY DEF Reaches
<1>2. /\ k \in Nat /\ B = [i \in 1 .. k |-> B[i]]
      /\ made[1] = {} /\ tested[1] = {} /\ out[1] = {} /\ last[1] = 0 /\ sum[1] = 0
      /\ \A i \in 1 .. k : Fits(a, B[i], made[i], tested[i], out[i], last[i], sum[i],
                                made[i + 1], tested[i + 1], out[i + 1], last[i + 1], sum[i + 1])
      /\ \A i \in 1 .. k + 1 : made[i] \subseteq made[k + 1] /\ tested[i] \subseteq made[i]
  BY <1>1 DEF Table
<1>3. /\ Len(C) = k + 1 /\ C = [i \in 1 .. Len(C) |-> C[i]]
      /\ \A i \in 1 .. k : C[i] = B[i]
      /\ C[k + 1] = b
  BY <1>2, Longer
<1>4. m \subseteq m2 /\ (t \subseteq m => t2 \subseteq m2)
  BY DEF Fits
<1> HIDE DEF k, C
<1> DEFINE longer(f, v) == [i \in 1 .. k + 2 |-> IF i = k + 2 THEN v ELSE f[i]]
<1>5. ASSUME NEW f, NEW v
      PROVE  /\ \A i \in 1 .. k + 1 : longer(f, v)[i] = f[i]
             /\ longer(f, v)[k + 2] = v /\ longer(f, v)[(k + 1) + 1] = v
  BY <1>2, SMT
<1> DEFINE nmade == longer(made, m2)
           ntested == longer(tested, t2)
           nout == longer(out, o2)
           nlast == longer(last, l2)
           nsum == longer(sum, s2)
<1>6. /\ \A i \in 1 .. k + 1 : /\ nmade[i] = made[i] /\ ntested[i] = tested[i] /\ nout[i] = out[i]
                               /\ nlast[i] = last[i] /\ nsum[i] = sum[i]
      /\ nmade[(k + 1) + 1] = m2 /\ ntested[(k + 1) + 1] = t2 /\ nout[(k + 1) + 1] = o2
      /\ nlast[(k + 1) + 1] = l2 /\ nsum[(k + 1) + 1] = s2
  <2> HIDE DEF longer
  <2>1. QED
    BY <1>5
<1> HIDE DEF nmade, ntested, nout, nlast, nsum
<1>7. /\ 1 \in 1 .. k + 1 /\ k + 1 \in 1 .. k + 1
      /\ \A i \in 1 .. k + 1 : i = k + 1 \/ (i \in 1 .. k /\ i + 1 \in 1 .. k + 1)
      /\ \A i \in 1 .. (k + 1) + 1 : i = (k + 1) + 1 \/ i \in 1 .. k + 1
      /\ k + 1 \in Nat
  BY <1>2, SMT
<1>8. ASSUME NEW i \in 1 .. k + 1
      PROVE  Fits(a, C[i], nmade[i], ntested[i], nout[i], nlast[i], nsum[i],
                  nmade[i + 1], ntested[i + 1], nout[i + 1], nlast[i + 1], nsum[i + 1])
  <2>1. CASE i = k + 1
    BY <1>1, <1>3, <1>6, <1>7, <2>1
  <2>2. CASE i \in 1 .. k /\ i + 1 \in 1 .. k + 1
    BY <1>2, <1>3, <1>6, <2>2
  <2>3. QED
    BY <1>7, <2>1, <2>2
<1>9. ASSUME NEW i \in 1 .. (k + 1) + 1
      PROVE  nmade[i] \subseteq nmade[(k + 1) + 1] /\ ntested[i] \subseteq nmade[i]
  <2>1. t2 \subseteq m2
    BY <1>1, <1>2, <1>4, <1>7
  <2>2. CASE i \in 1 .. k + 1
    BY <1>1, <1>2, <1>4, <1>6, <2>2
  <2>3. QED
    BY <1>6, <1>7, <2>1, <2>2
<1>10. nmade[1] = {} /\ ntested[1] = {} /\ nout[1] = {} /\ nlast[1] = 0 /\ nsum[1] = 0
  BY <1>2, <1>6, <1>7
<1>11. Table(a, C, nmade, ntested, nout, nlast, nsum)
  BY <1>3, <1>7, <1>8, <1>9, <1>10 DEF Table
<1>12. Reaches(a, C, m2, t2, o2, l2, s2)
  BY <1>3, <1>6, <1>11 DEF Reaches
<1>13. QED
  BY <1>12 DEF C

LEMMA Beginning ==
  ASSUME NEW a
  PROVE  Reaches(a, <<>>, {}, {}, {}, 0, 0)
<1> DEFINE none == [i \in 1 .. 1 |-> {}]
           zero == [i \in 1 .. 1 |-> 0]
<1>1. Len(<<>>) = 0 /\ 1 .. 0 = {} /\ 0 + 1 = 1 /\ 1 .. 1 = {1} /\ 0 \in Nat
  BY SMT
<1>2. <<>> = [i \in 1 .. 0 |-> <<>>[i]]
  BY SMT
<1>3. none[1] = {} /\ zero[1] = 0
  BY SMT
<1> HIDE DEF none, zero
<1>4. Table(a, <<>>, none, none, none, zero, zero)
  BY <1>1, <1>2, <1>3 DEF Table
<1>5. QED
  BY <1>1, <1>3, <1>4 DEF Reaches

\* One lemma for each kind of step.
LEMMA AddNew ==
  ASSUME NEW a, NEW B, NEW m, NEW t, NEW o, NEW l, NEW s, Reaches(a, B, m, t, o, l, s),
         "tag" \notin o, l \in Int,
         NEW x \in Objects \ m, NEW uses, uses \subseteq t
  PROVE  Reaches(a, Append(B, New(x, uses)), m \cup {x}, t, o, l, s)
<1> DEFINE b == New(x, uses)
           m2 == m \cup {x}
<1>1. b.does = "new" /\ b.uses = uses /\ b.makes = x
  BY DEF New
<1> HIDE DEF b
<1>2. Fits(a, b, m, t, o, l, s, m2, t, o, l, s)
  BY <1>1 DEF Fits, Does
<1>3. Reaches(a, Append(B, b), m2, t, o, l, s)
  BY <1>2, Extend
<1>4. QED
  BY <1>3 DEF b

LEMMA AddTest ==
  ASSUME NEW a, NEW B, NEW m, NEW t, NEW o, NEW l, NEW s, Reaches(a, B, m, t, o, l, s),
         "tag" \notin o, l \in Int,
         NEW objects, objects \subseteq m, NEW exit,
         exit = "done" \/ \E x \in Objects : m = {x}
  PROVE  Reaches(a, Append(B, Test(objects, exit)), m, t \cup objects, o, l, s)
<1> DEFINE b == Test(objects, exit)
           t2 == t \cup objects
<1>1. b.does = "test" /\ b.uses = {} /\ b.objects = objects /\ b.exit = exit
  BY DEF Test
<1> HIDE DEF b
<1>2. Fits(a, b, m, t, o, l, s, m, t2, o, l, s)
  BY <1>1 DEF Fits, Does
<1>3. Reaches(a, Append(B, b), m, t2, o, l, s)
  BY <1>2, Extend
<1>4. QED
  BY <1>3 DEF b

LEMMA AddDo ==
  ASSUME NEW a, NEW B, NEW m, NEW t, NEW o, NEW l, NEW s, Reaches(a, B, m, t, o, l, s),
         "tag" \notin o, l \in Int,
         NEW uses, uses \subseteq t, NEW fills
  PROVE  Reaches(a, Append(B, Do(uses, fills)), m, t, o \cup fills, l, s)
<1> DEFINE b == Do(uses, fills)
           o2 == o \cup fills
<1>1. b.does = "call" /\ b.uses = uses /\ b.fills = fills /\ b.n = -1
  BY DEF Do
<1> HIDE DEF b
<1>2. Fits(a, b, m, t, o, l, s, m, t, o2, l, s)
  BY <1>1 DEF Fits, Does
<1>3. Reaches(a, Append(B, b), m, t, o2, l, s)
  BY <1>2, Extend
<1>4. QED
  BY <1>3 DEF b

LEMMA AddSure ==
  ASSUME NEW a, NEW B, NEW m, NEW t, NEW o, NEW l, NEW s, Reaches(a, B, m, t, o, l, s),
         "tag" \notin o, l \in Int,
         NEW fills
  PROVE  Reaches(a, Append(B, [does |-> "sure", fills |-> fills, uses |-> {}]), m, t, o \cup fills, l, s)
<1> DEFINE b == [does |-> "sure", fills |-> fills, uses |-> {}]
           o2 == o \cup fills
<1>1. b.does = "sure" /\ b.uses = {} /\ b.fills = fills
  OBVIOUS
<1> HIDE DEF b
<1>2. Fits(a, b, m, t, o, l, s, m, t, o2, l, s)
  BY <1>1 DEF Fits, Does
<1>3. Reaches(a, Append(B, b), m, t, o2, l, s)
  BY <1>2, Extend
<1>4. QED
  BY <1>3 DEF b

LEMMA AddUpdate ==
  ASSUME NEW a, NEW B, NEW m, NEW t, NEW o, NEW l, NEW s, Reaches(a, B, m, t, o, l, s),
         "tag" \notin o, l \in Int, "ctx" \in t,
         NEW fills, NEW length \in Nat
  PROVE  Reaches(a, Append(B, Update(fills, length)), m, t, o \cup fills, length, s)
<1> DEFINE b == Update(fills, length)
           o2 == o \cup fills
<1>1. b.does = "call" /\ b.uses = {"ctx"} /\ b.fills = fills /\ b.n = length
  BY DEF Update
<1>2. length # -1
  BY SMT
<1> HIDE DEF b
<1>3. Fits(a, b, m, t, o, l, s, m, t, o2, length, s)
  BY <1>1, <1>2 DEF Fits, Does
<1>4. Reaches(a, Append(B, b), m, t, o2, length, s)
  BY <1>3, Extend
<1>5. QED
  BY <1>4 DEF b

LEMMA AddFinal ==
  ASSUME NEW a, NEW B, NEW m, NEW t, NEW o, NEW l, NEW s, Reaches(a, B, m, t, o, l, s),
         "tag" \notin o, l \in Int, "ctx" \in t
  PROVE  Reaches(a, Append(B, Final), m, t, o, 0, l)
<1> DEFINE b == Final
<1>1. b.does = "final" /\ b.uses = {"ctx"}
  BY DEF Final
<1> HIDE DEF b
<1>2. Fits(a, b, m, t, o, l, s, m, t, o, 0, l)
  BY <1>1 DEF Fits, Does
<1>3. Reaches(a, Append(B, b), m, t, o, 0, l)
  BY <1>2, Extend
<1>4. QED
  BY <1>3 DEF b

LEMMA AddWhole ==
  ASSUME NEW a, NEW B, NEW m, NEW t, NEW o, NEW l, NEW s, Reaches(a, B, m, t, o, l, s),
         "tag" \notin o, l \in Int, a.fn = "aead_encrypt",
         NEW length, s # length <=> OnlyAad(a)
  PROVE  Reaches(a, Append(B, Whole(length)), m, t, o, l, s)
<1> DEFINE b == Whole(length)
<1>1. b.does = "whole" /\ b.uses = {} /\ b.length = length
  BY DEF Whole
<1> HIDE DEF b
<1>2. Fits(a, b, m, t, o, l, s, m, t, o, l, s)
  BY <1>1 DEF Fits, Does
<1>3. Reaches(a, Append(B, b), m, t, o, l, s)
  BY <1>2, Extend
<1>4. QED
  BY <1>3 DEF b

\* A body that runs to its end.
LEMMA ToTheEnd ==
  ASSUME NEW a, NEW B, NEW m, NEW t, NEW o, NEW l, NEW s, Reaches(a, B, m, t, o, l, s),
         NEW freed \in Seq(Objects), Distinct(freed), m \subseteq Elements(freed), m \subseteq t,
         a.fn \notin {"ed25519_verify", "ed448_verify", "aead_decrypt"}, a.genuine = TRUE,
         o = outputs(a),
         OnlyAad(a) => \E i \in 1 .. Len(B) : B[i].does = "whole"
  PROVE  Right(a, Function(B, freed))
<1> DEFINE f == Function(B, freed)
           k == Len(B)
<1>1. f.body = B /\ f.freed = freed
  BY DEF Function
<1>2. PICK made, tested, out, last, sum :
        /\ Table(a, B, made, tested, out, last, sum)
        /\ m = made[k + 1] /\ t = tested[k + 1] /\ o = out[k + 1]
        /\ l = last[k + 1] /\ s = sum[k + 1]
  BY DEF Reaches
<1>3. /\ k \in Nat
      /\ made[1] = {} /\ tested[1] = {} /\ out[1] = {} /\ last[1] = 0 /\ sum[1] = 0
      /\ \A i \in 1 .. k : Fits(a, B[i], made[i], tested[i], out[i], last[i], sum[i],
                                made[i + 1], tested[i + 1], out[i + 1], last[i + 1], sum[i + 1])
      /\ \A i \in 1 .. k + 1 : made[i] \subseteq made[k + 1] /\ tested[i] \subseteq made[i]
  BY <1>2 DEF Table
<1> HIDE DEF f
<1>4. Careful(f, made, tested)
  <2>1. ASSUME NEW i \in 1 .. k
        PROVE  /\ B[i].does \in Does
               /\ B[i].uses \subseteq tested[i]
               /\ B[i].does = "new" => B[i].makes \in Objects \ made[i]
               /\ B[i].does = "test" => /\ B[i].objects \subseteq made[i]
                                        /\ B[i].exit # "done" => \E x \in Objects : made[i] = {x}
               /\ B[i].does = "new" => made[i + 1] = made[i] \cup {B[i].makes}
               /\ B[i].does # "new" => made[i + 1] = made[i]
               /\ B[i].does = "test" => tested[i + 1] = tested[i] \cup B[i].objects
               /\ B[i].does # "test" => tested[i + 1] = tested[i]
    BY <1>3 DEF Fits
  <2>2. ASSUME NEW i \in 1 .. k + 1
        PROVE  made[i] \subseteq Elements(freed) /\ tested[i] \subseteq made[i]
    BY <1>2, <1>3
  <2>3. QED
    BY <1>1, <1>3, <2>1, <2>2 DEF Careful
<1>5. Exact(a, f, made, tested, out, last, sum)
  <2>1. ASSUME NEW i \in 1 .. k
        PROVE  /\ B[i].does \in {"call", "sure"} => out[i + 1] = out[i] \cup B[i].fills
               /\ B[i].does \notin {"call", "sure"} => out[i + 1] = out[i]
               /\ last[i] \in Int
               /\ B[i].does = "call" => /\ B[i].n = -1 => last[i + 1] = last[i]
                                        /\ B[i].n # -1 => last[i + 1] = B[i].n
               /\ B[i].does = "final" => last[i + 1] = 0 /\ sum[i + 1] = last[i]
               /\ B[i].does \notin {"call", "final"} => last[i + 1] = last[i]
               /\ B[i].does # "final" => sum[i + 1] = sum[i]
               /\ "tag" \notin out[i]
               /\ B[i].does = "whole" => (sum[i] # B[i].length <=> OnlyAad(a)) /\ a.fn = "aead_encrypt"
               /\ B[i].does # "decide"
    BY <1>3 DEF Fits
  <2>2. /\ a.fn # "aead_decrypt"
        /\ made[k + 1] \subseteq tested[k + 1] /\ out[k + 1] = outputs(a)
    BY <1>2
  <2>3. QED
    BY <1>1, <1>3, <2>1, <2>2 DEF Exact
<1>6. QED
  BY <1>4, <1>5 DEF Right, f

\* A body that ends with a decision.
LEMMA ToADecision ==
  ASSUME NEW a, NEW B, NEW m, NEW t, NEW o, NEW l, NEW s, Reaches(a, B, m, t, o, l, s),
         NEW freed \in Seq(Objects), Distinct(freed), m \subseteq Elements(freed), m \subseteq t,
         a.fn \in {"ed25519_verify", "ed448_verify", "aead_decrypt"},
         NEW uses, uses \subseteq t, NEW length, "tag" \notin o, l \in Int,
         l # length <=> OnlyAad(a),
         a.fn = "aead_decrypt" => o = outputs(a)
  PROVE  Right(a, Function(Append(B, Decide(uses, length)), freed))
<1> DEFINE b == Decide(uses, length)
           C == Append(B, b)
           f == Function(C, freed)
           k == Len(B)
<1>1. f.body = C /\ f.freed = freed
  BY DEF Function
<1>2. b.does = "decide" /\ b.uses = uses /\ b.length = length
  BY DEF Decide
<1>3. PICK made, tested, out, last, sum :
        /\ Table(a, B, made, tested, out, last, sum)
        /\ m = made[k + 1] /\ t = tested[k + 1] /\ o = out[k + 1]
        /\ l = last[k + 1] /\ s = sum[k + 1]
  BY DEF Reaches
<1>4. /\ k \in Nat /\ B = [i \in 1 .. k |-> B[i]]
      /\ made[1] = {} /\ tested[1] = {} /\ out[1] = {} /\ last[1] = 0 /\ sum[1] = 0
      /\ \A i \in 1 .. k : Fits(a, B[i], made[i], tested[i], out[i], last[i], sum[i],
                                made[i + 1], tested[i + 1], out[i + 1], last[i + 1], sum[i + 1])
      /\ \A i \in 1 .. k + 1 : made[i] \subseteq made[k + 1] /\ tested[i] \subseteq made[i]
  BY <1>3 DEF Table
<1>5. /\ Len(C) = k + 1 /\ \A i \in 1 .. k : C[i] = B[i]
      /\ C[k + 1] = b
  BY <1>4, Longer
<1> HIDE DEF f, b, C, k
<1> DEFINE longer(g, v) == [i \in 1 .. k + 2 |-> IF i = k + 2 THEN v ELSE g[i]]
<1>6. ASSUME NEW g, NEW v
      PROVE  /\ \A i \in 1 .. k + 1 : longer(g, v)[i] = g[i]
             /\ longer(g, v)[k + 2] = v /\ longer(g, v)[(k + 1) + 1] = v
  BY <1>4, SMT
<1> DEFINE nmade == longer(made, m)
           ntested == longer(tested, t)
           nout == longer(out, o)
           nlast == longer(last, l)
           nsum == longer(sum, s)
<1>7. /\ \A i \in 1 .. k + 1 : /\ nmade[i] = made[i] /\ ntested[i] = tested[i] /\ nout[i] = out[i]
                               /\ nlast[i] = last[i] /\ nsum[i] = sum[i]
      /\ nmade[(k + 1) + 1] = m /\ ntested[(k + 1) + 1] = t /\ nout[(k + 1) + 1] = o
      /\ nlast[(k + 1) + 1] = l /\ nsum[(k + 1) + 1] = s
  <2> HIDE DEF longer
  <2>1. QED
    BY <1>6
<1> HIDE DEF nmade, ntested, nout, nlast, nsum
<1>8. /\ 1 \in 1 .. k + 1 /\ k + 1 \in 1 .. k + 1 /\ k + 1 > 0
      /\ \A i \in 1 .. k + 1 : i = k + 1 \/ (i \in 1 .. k /\ i + 1 \in 1 .. k + 1)
      /\ \A i \in 1 .. (k + 1) + 1 : i = (k + 1) + 1 \/ i \in 1 .. k + 1
      /\ k + 1 \in Nat
  BY <1>4, SMT
<1>9. ASSUME NEW i \in 1 .. k + 1
      PROVE  /\ C[i].does \in Does
             /\ C[i].uses \subseteq ntested[i]
             /\ C[i].does = "new" => C[i].makes \in Objects \ nmade[i]
             /\ C[i].does = "test" => /\ C[i].objects \subseteq nmade[i]
                                      /\ C[i].exit # "done" => \E x \in Objects : nmade[i] = {x}
             /\ C[i].does = "new" => nmade[i + 1] = nmade[i] \cup {C[i].makes}
             /\ C[i].does # "new" => nmade[i + 1] = nmade[i]
             /\ C[i].does = "test" => ntested[i + 1] = ntested[i] \cup C[i].objects
             /\ C[i].does # "test" => ntested[i + 1] = ntested[i]
  <2>1. CASE i \in 1 .. k /\ i + 1 \in 1 .. k + 1
    <3>1. Fits(a, C[i], nmade[i], ntested[i], nout[i], nlast[i], nsum[i],
               nmade[i + 1], ntested[i + 1], nout[i + 1], nlast[i + 1], nsum[i + 1])
      BY <1>4, <1>5, <1>7, <2>1
    <3>2. QED
      BY <3>1 DEF Fits
  <2>2. CASE i = k + 1
    <3>1. /\ C[i] = b /\ nmade[i] = m /\ ntested[i] = t
          /\ nmade[i + 1] = m /\ ntested[i + 1] = t
      BY <1>3, <1>5, <1>7, <1>8, <2>2
    <3>2. QED
      BY <1>2, <3>1 DEF Does
  <2>3. QED
    BY <1>8, <2>1, <2>2
<1>10. ASSUME NEW i \in 1 .. k + 1
       PROVE  /\ C[i].does \in {"call", "sure"} => nout[i + 1] = nout[i] \cup C[i].fills
              /\ C[i].does \notin {"call", "sure"} => nout[i + 1] = nout[i]
              /\ nlast[i] \in Int
              /\ C[i].does = "call" => /\ C[i].n = -1 => nlast[i + 1] = nlast[i]
                                       /\ C[i].n # -1 => nlast[i + 1] = C[i].n
              /\ C[i].does = "final" => nlast[i + 1] = 0 /\ nsum[i + 1] = nlast[i]
              /\ C[i].does \notin {"call", "final"} => nlast[i + 1] = nlast[i]
              /\ C[i].does # "final" => nsum[i + 1] = nsum[i]
              /\ "tag" \notin nout[i]
              /\ C[i].does = "whole" => (nsum[i] # C[i].length <=> OnlyAad(a)) /\ a.fn = "aead_encrypt"
              /\ C[i].does = "decide" =>
                   /\ i = k + 1 /\ nmade[i] \subseteq ntested[i]
                   /\ a.fn \in {"ed25519_verify", "ed448_verify", "aead_decrypt"}
                   /\ nlast[i] # C[i].length <=> OnlyAad(a)
                   /\ a.fn = "aead_decrypt" => nout[i] = outputs(a)
  <2>1. CASE i \in 1 .. k /\ i + 1 \in 1 .. k + 1
    <3>1. Fits(a, C[i], nmade[i], ntested[i], nout[i], nlast[i], nsum[i],
               nmade[i + 1], ntested[i + 1], nout[i + 1], nlast[i + 1], nsum[i + 1])
      BY <1>4, <1>5, <1>7, <2>1
    <3>2. QED
      BY <3>1 DEF Fits
  <2>2. CASE i = k + 1
    <3>1. /\ C[i] = b /\ nmade[i] = m /\ ntested[i] = t
          /\ nout[i] = o /\ nout[i + 1] = o /\ nlast[i] = l /\ nlast[i + 1] = l
          /\ nsum[i] = s /\ nsum[i + 1] = s
      BY <1>3, <1>5, <1>7, <1>8, <2>2
    <3>2. QED
      BY <1>2, <2>2, <3>1
  <2>3. QED
    BY <1>8, <2>1, <2>2
<1>11. ASSUME NEW i \in 1 .. (k + 1) + 1
       PROVE  nmade[i] \subseteq Elements(freed) /\ ntested[i] \subseteq nmade[i]
  <2>1. CASE i \in 1 .. k + 1
    BY <1>3, <1>4, <1>7, <2>1
  <2>2. CASE i = (k + 1) + 1
    BY <1>3, <1>4, <1>7, <1>8, <2>2
  <2>3. QED
    BY <1>8, <2>1, <2>2
<1>12. nmade[1] = {} /\ ntested[1] = {} /\ nout[1] = {} /\ nlast[1] = 0 /\ nsum[1] = 0
  BY <1>4, <1>7, <1>8
<1>13. Careful(f, nmade, ntested)
  BY <1>1, <1>5, <1>8, <1>9, <1>11, <1>12 DEF Careful
<1>14. C[k + 1].does = "decide"
  BY <1>2, <1>5
<1>15. Exact(a, f, nmade, ntested, nout, nlast, nsum)
  BY <1>1, <1>5, <1>8, <1>10, <1>12, <1>14 DEF Exact
<1>16. QED
  BY <1>13, <1>15 DEF Right, f, C, b

\* Lists spelled out, and what is added to them.
LEMMA Spelled1 ==
  ASSUME NEW b1
  PROVE  <<b1>> = Append(<<>>, b1)
BY SMT

LEMMA Spelled2 ==
  ASSUME NEW b1, NEW b2
  PROVE  <<b1, b2>> = Append(<<b1>>, b2)
BY SMT

LEMMA Spelled3 ==
  ASSUME NEW b1, NEW b2, NEW b3
  PROVE  <<b1, b2, b3>> = Append(<<b1, b2>>, b3)
BY SMT

LEMMA Spelled4 ==
  ASSUME NEW b1, NEW b2, NEW b3, NEW b4
  PROVE  <<b1, b2, b3, b4>> = Append(<<b1, b2, b3>>, b4)
BY SMT

LEMMA Spelled5 ==
  ASSUME NEW b1, NEW b2, NEW b3, NEW b4, NEW b5
  PROVE  <<b1, b2, b3, b4, b5>> = Append(<<b1, b2, b3, b4>>, b5)
BY SMT

LEMMA Spelled6 ==
  ASSUME NEW b1, NEW b2, NEW b3, NEW b4, NEW b5, NEW b6
  PROVE  <<b1, b2, b3, b4, b5, b6>> = Append(<<b1, b2, b3, b4, b5>>, b6)
BY SMT

LEMMA Spelled7 ==
  ASSUME NEW b1, NEW b2, NEW b3, NEW b4, NEW b5, NEW b6, NEW b7
  PROVE  <<b1, b2, b3, b4, b5, b6, b7>> = Append(<<b1, b2, b3, b4, b5, b6>>, b7)
BY SMT

LEMMA Spelled8 ==
  ASSUME NEW b1, NEW b2, NEW b3, NEW b4, NEW b5, NEW b6, NEW b7, NEW b8
  PROVE  <<b1, b2, b3, b4, b5, b6, b7, b8>> = Append(<<b1, b2, b3, b4, b5, b6, b7>>, b8)
BY SMT

LEMMA Added ==
  ASSUME NEW B, Len(B) \in Nat, B = [i \in 1 .. Len(B) |-> B[i]], NEW x, NEW y, NEW z
  PROVE  /\ B \o <<>> = B
         /\ B \o <<x>> = Append(B, x)
         /\ B \o <<x, y>> = Append(Append(B, x), y)
         /\ B \o <<x, y, z>> = Append(Append(Append(B, x), y), z)
<1> DEFINE S == {B[i] : i \in 1 .. Len(B)} \cup {x, y, z}
           k == Len(B)
<1>1. B \in Seq(S)
  <2> DEFINE F == [i \in 1 .. k |-> B[i]]
  <2> HIDE DEF k
  <2>1. k \in Nat /\ \A i \in 1 .. k : B[i] \in S
    BY DEF k
  <2> HIDE DEF S
  <2>2. F \in Seq(S)
    BY <2>1, IsASeq
  <2>3. QED
    BY <2>2 DEF k
<1>2. x \in S /\ y \in S /\ z \in S
  OBVIOUS
<1> HIDE DEF S
<1>3. B \o <<>> = B
  BY <1>1, ConcatEmptySeq
<1>4. B \o <<x>> = Append(B, x)
  BY <1>1, <1>2, AppendIsConcat
<1>5. <<x>> \in Seq(S) /\ <<y>> \in Seq(S) /\ <<z>> \in Seq(S) /\ <<x, y>> \in Seq(S)
  BY <1>2, SMT
<1>6. <<x>> \o <<y>> = <<x, y>> /\ <<x, y>> \o <<z>> = <<x, y, z>>
  <2>1. Append(<<x>>, y) = <<x>> \o <<y>> /\ Append(<<x, y>>, z) = <<x, y>> \o <<z>>
    BY <1>2, <1>5, AppendIsConcat
  <2>2. Append(<<x>>, y) = <<x, y>>
    BY Spelled2
  <2>3. Append(<<x, y>>, z) = <<x, y, z>>
    BY Spelled3
  <2>4. QED
    BY <2>1, <2>2, <2>3
<1>7. Append(B, x) \in Seq(S)
  BY <1>1, <1>2, AppendProperties
<1>8. B \o <<x, y>> = Append(Append(B, x), y)
  <2>1. B \o (<<x>> \o <<y>>) = (B \o <<x>>) \o <<y>>
    BY <1>1, <1>5, ConcatAssociative
  <2>2. Append(B, x) \o <<y>> = Append(Append(B, x), y)
    BY <1>2, <1>7, AppendIsConcat
  <2>3. QED
    BY <1>4, <1>6, <2>1, <2>2
<1>9. B \o <<x, y, z>> = Append(Append(Append(B, x), y), z)
  <2>1. B \o (<<x, y>> \o <<z>>) = (B \o <<x, y>>) \o <<z>>
    BY <1>1, <1>5, ConcatAssociative
  <2>2. Append(Append(B, x), y) \in Seq(S)
    BY <1>2, <1>7, AppendProperties
  <2>3. Append(Append(B, x), y) \o <<z>> = Append(Append(Append(B, x), y), z)
    BY <1>2, <2>2, AppendIsConcat
  <2>4. QED
    BY <1>6, <1>8, <2>1, <2>3
<1>10. QED
  BY <1>3, <1>4, <1>8, <1>9

LEMMA AddedTo ==
  ASSUME NEW a, NEW B, NEW m, NEW t, NEW o, NEW l, NEW s, Reaches(a, B, m, t, o, l, s),
         NEW x, NEW y, NEW z
  PROVE  /\ B \o <<>> = B
         /\ B \o <<x>> = Append(B, x)
         /\ B \o <<x, y>> = Append(Append(B, x), y)
         /\ B \o <<x, y, z>> = Append(Append(Append(B, x), y), z)
<1>1. Len(B) \in Nat /\ B = [i \in 1 .. Len(B) |-> B[i]]
  BY DEF Reaches, Table
<1>2. QED
  BY <1>1, Added

-----------------------------------------------------------------------------
(* The functions. *)

\* Every function but the checks of a signature or a tag, and the ciphers.
Plain(a) ==
  /\ a.fn \notin {"ed25519_verify", "ed448_verify", "aead_decrypt"}
  /\ a.genuine = TRUE /\ ~ OnlyAad(a)

LEMMA FreedLists ==
  /\ \A x \in Objects : <<x>> \in Seq(Objects) /\ Distinct(<<x>>) /\ Elements(<<x>>) = {x}
  /\ \A x, y \in Objects : x # y =>
       <<x, y>> \in Seq(Objects) /\ Distinct(<<x, y>>) /\ Elements(<<x, y>>) = {x, y}
  /\ \A x, y, z \in Objects : x # y /\ y # z /\ x # z =>
       <<x, y, z>> \in Seq(Objects) /\ Distinct(<<x, y, z>>) /\ Elements(<<x, y, z>>) = {x, y, z}
  /\ <<>> \in Seq(Objects) /\ Distinct(<<>>) /\ Elements(<<>>) = {}
<1>1. 1 .. 0 = {} /\ 1 .. 1 = {1} /\ 1 .. 2 = {1, 2} /\ 1 .. 3 = {1, 2, 3} /\ 1 # 2 /\ 2 # 3 /\ 1 # 3
  BY SMT
<1>2. ASSUME NEW x \in Objects
      PROVE  <<x>> \in Seq(Objects) /\ Distinct(<<x>>) /\ Elements(<<x>>) = {x}
  <2>1. Len(<<x>>) = 1 /\ <<x>>[1] = x /\ <<x>> \in Seq(Objects)
    BY SMT
  <2>2. QED
    BY <1>1, <2>1 DEF Distinct, Elements
<1>3. ASSUME NEW x \in Objects, NEW y \in Objects, x # y
      PROVE  <<x, y>> \in Seq(Objects) /\ Distinct(<<x, y>>) /\ Elements(<<x, y>>) = {x, y}
  <2>1. Len(<<x, y>>) = 2 /\ <<x, y>>[1] = x /\ <<x, y>>[2] = y /\ <<x, y>> \in Seq(Objects)
    BY SMT
  <2>2. QED
    BY <1>1, <1>3, <2>1 DEF Distinct, Elements
<1>4. ASSUME NEW x \in Objects, NEW y \in Objects, NEW z \in Objects, x # y, y # z, x # z
      PROVE  <<x, y, z>> \in Seq(Objects) /\ Distinct(<<x, y, z>>) /\ Elements(<<x, y, z>>) = {x, y, z}
  <2>1. /\ Len(<<x, y, z>>) = 3 /\ <<x, y, z>>[1] = x /\ <<x, y, z>>[2] = y /\ <<x, y, z>>[3] = z
        /\ <<x, y, z>> \in Seq(Objects)
    BY SMT
  <2>2. QED
    BY <1>1, <1>4, <2>1 DEF Distinct, Elements
<1>5. <<>> \in Seq(Objects) /\ Distinct(<<>>) /\ Elements(<<>>) = {}
  <2>1. Len(<<>>) = 0 /\ <<>> \in Seq(Objects)
    BY SMT
  <2>2. QED
    BY <1>1, <2>1 DEF Distinct, Elements
<1>6. QED
  BY <1>2, <1>3, <1>4, <1>5

LEMMA PublicKeyRight ==
  ASSUME NEW a, Plain(a), outputs(a) = {"public_key"}
  PROVE  Right(a, public_key)
<1> DEFINE b1 == New("pkey", {})
           b2 == Test({"pkey"}, "return")
           b3 == Do({"pkey"}, {"public_key"})
<1>1. /\ 0 \in Int /\ "tag" \notin {} /\ "pkey" \in Objects \ {} /\ {} \subseteq {}
      /\ {} \cup {"pkey"} = {"pkey"} /\ {"pkey"} \subseteq {"pkey"} /\ "pkey" \in Objects
      /\ {} \cup {"public_key"} = {"public_key"} /\ {"pkey"} = {"pkey"}
  BY SMT DEF Objects
<1>2. Reaches(a, <<b1>>, {"pkey"}, {}, {}, 0, 0)
  <2>1. Reaches(a, Append(<<>>, b1), {} \cup {"pkey"}, {}, {}, 0, 0)
    BY <1>1, Beginning, AddNew
  <2>2. <<b1>> = Append(<<>>, b1)
    BY Spelled1
  <2>3. QED
    BY <1>1, <2>1, <2>2
<1>3. Reaches(a, <<b1, b2>>, {"pkey"}, {"pkey"}, {}, 0, 0)
  <2>1. Reaches(a, Append(<<b1>>, b2), {"pkey"}, {} \cup {"pkey"}, {}, 0, 0)
    BY <1>1, <1>2, AddTest
  <2>2. <<b1, b2>> = Append(<<b1>>, b2)
    BY Spelled2
  <2>3. QED
    BY <1>1, <2>1, <2>2
<1>4. Reaches(a, <<b1, b2, b3>>, {"pkey"}, {"pkey"}, {"public_key"}, 0, 0)
  <2>1. Reaches(a, Append(<<b1, b2>>, b3), {"pkey"}, {"pkey"}, {} \cup {"public_key"}, 0, 0)
    BY <1>1, <1>3, AddDo
  <2>2. <<b1, b2, b3>> = Append(<<b1, b2>>, b3)
    BY Spelled3
  <2>3. QED
    BY <1>1, <2>1, <2>2
<1>5. public_key = Function(<<b1, b2, b3>>, <<"pkey">>)
  BY DEF public_key
<1>6. <<"pkey">> \in Seq(Objects) /\ Distinct(<<"pkey">>) /\ Elements(<<"pkey">>) = {"pkey"}
  BY <1>1, FreedLists
<1>7. QED
  BY <1>4, <1>5, <1>6, ToTheEnd DEF Plain

LEMMA XofRight ==
  ASSUME NEW a, Plain(a), outputs(a) = {"out"}
  PROVE  Right(a, xof)
<1> DEFINE b1 == New("ctx", {})
           b2 == Test({"ctx"}, "return")
           b3 == Do({"ctx"}, {})
           b4 == Do({"ctx"}, {})
           b5 == Do({"ctx"}, {"out"})
<1>1. /\ 0 \in Int /\ "tag" \notin {} /\ "ctx" \in Objects \ {} /\ {} \subseteq {}
      /\ {} \cup {"ctx"} = {"ctx"} /\ {"ctx"} \subseteq {"ctx"} /\ "ctx" \in Objects
      /\ {} \cup {} = {} /\ {} \cup {"out"} = {"out"} /\ {"ctx"} = {"ctx"}
  BY SMT DEF Objects
<1>2. Reaches(a, <<b1>>, {"ctx"}, {}, {}, 0, 0)
  <2>1. Reaches(a, Append(<<>>, b1), {} \cup {"ctx"}, {}, {}, 0, 0)
    BY <1>1, Beginning, AddNew
  <2>2. <<b1>> = Append(<<>>, b1)
    BY Spelled1
  <2>3. QED
    BY <1>1, <2>1, <2>2
<1>3. Reaches(a, <<b1, b2>>, {"ctx"}, {"ctx"}, {}, 0, 0)
  <2>1. Reaches(a, Append(<<b1>>, b2), {"ctx"}, {} \cup {"ctx"}, {}, 0, 0)
    BY <1>1, <1>2, AddTest
  <2>2. <<b1, b2>> = Append(<<b1>>, b2)
    BY Spelled2
  <2>3. QED
    BY <1>1, <2>1, <2>2
<1>4. Reaches(a, <<b1, b2, b3>>, {"ctx"}, {"ctx"}, {}, 0, 0)
  <2>1. Reaches(a, Append(<<b1, b2>>, b3), {"ctx"}, {"ctx"}, {} \cup {}, 0, 0)
    BY <1>1, <1>3, AddDo
  <2>2. <<b1, b2, b3>> = Append(<<b1, b2>>, b3)
    BY Spelled3
  <2>3. QED
    BY <1>1, <2>1, <2>2
<1>5. Reaches(a, <<b1, b2, b3, b4>>, {"ctx"}, {"ctx"}, {}, 0, 0)
  <2>1. Reaches(a, Append(<<b1, b2, b3>>, b4), {"ctx"}, {"ctx"}, {} \cup {}, 0, 0)
    BY <1>1, <1>4, AddDo
  <2>2. <<b1, b2, b3, b4>> = Append(<<b1, b2, b3>>, b4)
    BY Spelled4
  <2>3. QED
    BY <1>1, <2>1, <2>2
<1>6. Reaches(a, <<b1, b2, b3, b4, b5>>, {"ctx"}, {"ctx"}, {"out"}, 0, 0)
  <2>1. Reaches(a, Append(<<b1, b2, b3, b4>>, b5), {"ctx"}, {"ctx"}, {} \cup {"out"}, 0, 0)
    BY <1>1, <1>5, AddDo
  <2>2. <<b1, b2, b3, b4, b5>> = Append(<<b1, b2, b3, b4>>, b5)
    BY Spelled5
  <2>3. QED
    BY <1>1, <2>1, <2>2
<1>7. xof = Function(<<b1, b2, b3, b4, b5>>, <<"ctx">>)
  BY DEF xof
<1>8. <<"ctx">> \in Seq(Objects) /\ Distinct(<<"ctx">>) /\ Elements(<<"ctx">>) = {"ctx"}
  BY <1>1, FreedLists
<1>9. QED
  BY <1>6, <1>7, <1>8, ToTheEnd DEF Plain

LEMMA HkdfRight ==
  ASSUME NEW a, Plain(a), outputs(a) = {"out"}
  PROVE  Right(a, hkdf_sha256)
<1> DEFINE b1 == New("kdf", {})
           b2 == Test({"kdf"}, "done")
           b3 == New("ctx", {"kdf"})
           b4 == Test({"ctx"}, "done")
           b5 == Do({"ctx"}, {"out"})
<1>1. /\ 0 \in Int /\ "tag" \notin {} /\ "kdf" \in Objects \ {} /\ {} \subseteq {}
      /\ {} \cup {"kdf"} = {"kdf"} /\ {"kdf"} \subseteq {"kdf"}
      /\ "ctx" \in Objects \ {"kdf"} /\ {"kdf"} \cup {"ctx"} = {"kdf", "ctx"}
      /\ {"ctx"} \subseteq {"kdf", "ctx"} /\ {} \cup {"out"} = {"out"}
      /\ {"kdf", "ctx"} \subseteq {"kdf", "ctx"} /\ "ctx" \in Objects /\ "kdf" \in Objects
      /\ {"ctx", "kdf"} = {"kdf", "ctx"}
  BY SMT DEF Objects
<1>2. Reaches(a, <<b1>>, {"kdf"}, {}, {}, 0, 0)
  <2>1. Reaches(a, Append(<<>>, b1), {} \cup {"kdf"}, {}, {}, 0, 0)
    BY <1>1, Beginning, AddNew
  <2>2. <<b1>> = Append(<<>>, b1)
    BY Spelled1
  <2>3. QED
    BY <1>1, <2>1, <2>2
<1>3. Reaches(a, <<b1, b2>>, {"kdf"}, {"kdf"}, {}, 0, 0)
  <2>1. Reaches(a, Append(<<b1>>, b2), {"kdf"}, {} \cup {"kdf"}, {}, 0, 0)
    BY <1>1, <1>2, AddTest
  <2>2. <<b1, b2>> = Append(<<b1>>, b2)
    BY Spelled2
  <2>3. QED
    BY <1>1, <2>1, <2>2
<1>4. Reaches(a, <<b1, b2, b3>>, {"kdf", "ctx"}, {"kdf"}, {}, 0, 0)
  <2>1. Reaches(a, Append(<<b1, b2>>, b3), {"kdf"} \cup {"ctx"}, {"kdf"}, {}, 0, 0)
    BY <1>1, <1>3, AddNew
  <2>2. <<b1, b2, b3>> = Append(<<b1, b2>>, b3)
    BY Spelled3
  <2>3. QED
    BY <1>1, <2>1, <2>2
<1>5. Reaches(a, <<b1, b2, b3, b4>>, {"kdf", "ctx"}, {"kdf", "ctx"}, {}, 0, 0)
  <2>1. Reaches(a, Append(<<b1, b2, b3>>, b4), {"kdf", "ctx"}, {"kdf"} \cup {"ctx"}, {}, 0, 0)
    BY <1>1, <1>4, AddTest
  <2>2. <<b1, b2, b3, b4>> = Append(<<b1, b2, b3>>, b4)
    BY Spelled4
  <2>3. QED
    BY <1>1, <2>1, <2>2
<1>6. Reaches(a, <<b1, b2, b3, b4, b5>>, {"kdf", "ctx"}, {"kdf", "ctx"}, {"out"}, 0, 0)
  <2>1. Reaches(a, Append(<<b1, b2, b3, b4>>, b5), {"kdf", "ctx"}, {"kdf", "ctx"}, {} \cup {"out"}, 0, 0)
    BY <1>1, <1>5, AddDo
  <2>2. <<b1, b2, b3, b4, b5>> = Append(<<b1, b2, b3, b4>>, b5)
    BY Spelled5
  <2>3. QED
    BY <1>1, <2>1, <2>2
<1>7. hkdf_sha256 = Function(<<b1, b2, b3, b4, b5>>, <<"ctx", "kdf">>)
  BY DEF hkdf_sha256
<1>8. <<"ctx", "kdf">> \in Seq(Objects) /\ Distinct(<<"ctx", "kdf">>) /\ Elements(<<"ctx", "kdf">>) = {"kdf", "ctx"}
  BY <1>1, FreedLists
<1>9. QED
  BY <1>6, <1>7, <1>8, ToTheEnd DEF Plain

LEMMA SigningRight ==
  ASSUME NEW a, Plain(a), outputs(a) = {"signature"}
  PROVE  Right(a, signing)
<1> DEFINE b1 == New("pkey", {})
           b2 == New("ctx", {})
           b3 == Test({"pkey", "ctx"}, "done")
           b4 == Do({"ctx", "pkey"}, {})
           b5 == Do({"ctx", "pkey"}, {"signature"})
<1>1. /\ 0 \in Int /\ "tag" \notin {} /\ "pkey" \in Objects \ {} /\ {} \subseteq {}
      /\ {} \cup {"pkey"} = {"pkey"} /\ "ctx" \in Objects \ {"pkey"}
      /\ {"pkey"} \cup {"ctx"} = {"pkey", "ctx"} /\ {"pkey", "ctx"} \subseteq {"pkey", "ctx"}
      /\ {} \cup {"pkey", "ctx"} = {"pkey", "ctx"}
      /\ {"ctx", "pkey"} \subseteq {"pkey", "ctx"} /\ {} \cup {} = {}
      /\ {} \cup {"signature"} = {"signature"} /\ "ctx" \in Objects /\ "pkey" \in Objects
      /\ {"ctx", "pkey"} = {"pkey", "ctx"}
  BY SMT DEF Objects
<1>2. Reaches(a, <<b1>>, {"pkey"}, {}, {}, 0, 0)
  <2>1. Reaches(a, Append(<<>>, b1), {} \cup {"pkey"}, {}, {}, 0, 0)
    BY <1>1, Beginning, AddNew
  <2>2. <<b1>> = Append(<<>>, b1)
    BY Spelled1
  <2>3. QED
    BY <1>1, <2>1, <2>2
<1>3. Reaches(a, <<b1, b2>>, {"pkey", "ctx"}, {}, {}, 0, 0)
  <2>1. Reaches(a, Append(<<b1>>, b2), {"pkey"} \cup {"ctx"}, {}, {}, 0, 0)
    BY <1>1, <1>2, AddNew
  <2>2. <<b1, b2>> = Append(<<b1>>, b2)
    BY Spelled2
  <2>3. QED
    BY <1>1, <2>1, <2>2
<1>4. Reaches(a, <<b1, b2, b3>>, {"pkey", "ctx"}, {"pkey", "ctx"}, {}, 0, 0)
  <2>1. Reaches(a, Append(<<b1, b2>>, b3), {"pkey", "ctx"}, {} \cup {"pkey", "ctx"}, {}, 0, 0)
    BY <1>1, <1>3, AddTest
  <2>2. <<b1, b2, b3>> = Append(<<b1, b2>>, b3)
    BY Spelled3
  <2>3. QED
    BY <1>1, <2>1, <2>2
<1>5. Reaches(a, <<b1, b2, b3, b4>>, {"pkey", "ctx"}, {"pkey", "ctx"}, {}, 0, 0)
  <2>1. Reaches(a, Append(<<b1, b2, b3>>, b4), {"pkey", "ctx"}, {"pkey", "ctx"}, {} \cup {}, 0, 0)
    BY <1>1, <1>4, AddDo
  <2>2. <<b1, b2, b3, b4>> = Append(<<b1, b2, b3>>, b4)
    BY Spelled4
  <2>3. QED
    BY <1>1, <2>1, <2>2
<1>6. Reaches(a, <<b1, b2, b3, b4, b5>>, {"pkey", "ctx"}, {"pkey", "ctx"}, {"signature"}, 0, 0)
  <2>1. Reaches(a, Append(<<b1, b2, b3, b4>>, b5), {"pkey", "ctx"}, {"pkey", "ctx"}, {} \cup {"signature"}, 0, 0)
    BY <1>1, <1>5, AddDo
  <2>2. <<b1, b2, b3, b4, b5>> = Append(<<b1, b2, b3, b4>>, b5)
    BY Spelled5
  <2>3. QED
    BY <1>1, <2>1, <2>2
<1>7. signing = Function(<<b1, b2, b3, b4, b5>>, <<"ctx", "pkey">>)
  BY DEF signing
<1>8. <<"ctx", "pkey">> \in Seq(Objects) /\ Distinct(<<"ctx", "pkey">>) /\ Elements(<<"ctx", "pkey">>) = {"pkey", "ctx"}
  BY <1>1, FreedLists
<1>9. QED
  BY <1>6, <1>7, <1>8, ToTheEnd DEF Plain

LEMMA VerifyingRight ==
  ASSUME NEW a, a.fn \in {"ed25519_verify", "ed448_verify"}, ~ OnlyAad(a)
  PROVE  Right(a, verifying)
<1> DEFINE b1 == New("pkey", {})
           b2 == New("ctx", {})
           b3 == Test({"pkey", "ctx"}, "done")
           b4 == Do({"ctx", "pkey"}, {})
<1>1. /\ 0 \in Int /\ "tag" \notin {} /\ "pkey" \in Objects \ {} /\ {} \subseteq {}
      /\ {} \cup {"pkey"} = {"pkey"} /\ "ctx" \in Objects \ {"pkey"}
      /\ {"pkey"} \cup {"ctx"} = {"pkey", "ctx"} /\ {"pkey", "ctx"} \subseteq {"pkey", "ctx"}
      /\ {} \cup {"pkey", "ctx"} = {"pkey", "ctx"}
      /\ {"ctx", "pkey"} \subseteq {"pkey", "ctx"} /\ {} \cup {} = {} /\ "ctx" \in Objects
      /\ "pkey" \in Objects /\ {"ctx", "pkey"} = {"pkey", "ctx"}
  BY SMT DEF Objects
<1>2. Reaches(a, <<b1>>, {"pkey"}, {}, {}, 0, 0)
  <2>1. Reaches(a, Append(<<>>, b1), {} \cup {"pkey"}, {}, {}, 0, 0)
    BY <1>1, Beginning, AddNew
  <2>2. <<b1>> = Append(<<>>, b1)
    BY Spelled1
  <2>3. QED
    BY <1>1, <2>1, <2>2
<1>3. Reaches(a, <<b1, b2>>, {"pkey", "ctx"}, {}, {}, 0, 0)
  <2>1. Reaches(a, Append(<<b1>>, b2), {"pkey"} \cup {"ctx"}, {}, {}, 0, 0)
    BY <1>1, <1>2, AddNew
  <2>2. <<b1, b2>> = Append(<<b1>>, b2)
    BY Spelled2
  <2>3. QED
    BY <1>1, <2>1, <2>2
<1>4. Reaches(a, <<b1, b2, b3>>, {"pkey", "ctx"}, {"pkey", "ctx"}, {}, 0, 0)
  <2>1. Reaches(a, Append(<<b1, b2>>, b3), {"pkey", "ctx"}, {} \cup {"pkey", "ctx"}, {}, 0, 0)
    BY <1>1, <1>3, AddTest
  <2>2. <<b1, b2, b3>> = Append(<<b1, b2>>, b3)
    BY Spelled3
  <2>3. QED
    BY <1>1, <2>1, <2>2
<1>5. Reaches(a, <<b1, b2, b3, b4>>, {"pkey", "ctx"}, {"pkey", "ctx"}, {}, 0, 0)
  <2>1. Reaches(a, Append(<<b1, b2, b3>>, b4), {"pkey", "ctx"}, {"pkey", "ctx"}, {} \cup {}, 0, 0)
    BY <1>1, <1>4, AddDo
  <2>2. <<b1, b2, b3, b4>> = Append(<<b1, b2, b3>>, b4)
    BY Spelled4
  <2>3. QED
    BY <1>1, <2>1, <2>2
<1>6. verifying = Function(Append(<<b1, b2, b3, b4>>, Decide({"ctx", "pkey"}, 0)), <<"ctx", "pkey">>)
  BY Spelled5 DEF verifying
<1>7. <<"ctx", "pkey">> \in Seq(Objects) /\ Distinct(<<"ctx", "pkey">>) /\ Elements(<<"ctx", "pkey">>) = {"pkey", "ctx"}
  BY <1>1, FreedLists
<1> DEFINE B == <<b1, b2, b3, b4>>
           both == {"pkey", "ctx"}
           uses == {"ctx", "pkey"}
           order == <<"ctx", "pkey">>
           none == {}
<1>8. /\ order \in Seq(Objects) /\ Distinct(order) /\ both \subseteq Elements(order)
      /\ verifying = Function(Append(B, Decide(uses, 0)), order)
      /\ Reaches(a, B, both, both, none, 0, 0) /\ both \subseteq both
      /\ uses \subseteq both /\ "tag" \notin none /\ 0 \in Int
  BY <1>1, <1>5, <1>6, <1>7
<1>9. a.fn # "aead_decrypt" /\ (0 # 0 <=> OnlyAad(a))
  OBVIOUS
<1> HIDE DEF B, both, uses, order, none
<1>10. Right(a, Function(Append(B, Decide(uses, 0)), order))
  BY <1>8, <1>9, ToADecision
<1>11. QED
  BY <1>8, <1>10

LEMMA AgreementRight ==
  ASSUME NEW a, Plain(a), outputs(a) = {"shared_secret"}
  PROVE  Right(a, agreement)
<1> DEFINE b1 == New("priv", {})
           b2 == New("peer", {})
           b3 == Test({"priv", "peer"}, "done")
           b4 == New("ctx", {"priv"})
           b5 == Test({"ctx"}, "done")
           b6 == Do({"ctx"}, {})
           b7 == Do({"ctx", "peer"}, {})
           b8 == Do({"ctx"}, {"shared_secret"})
<1>1. /\ 0 \in Int /\ "tag" \notin {} /\ "priv" \in Objects \ {} /\ {} \subseteq {}
      /\ {} \cup {"priv"} = {"priv"} /\ "peer" \in Objects \ {"priv"}
      /\ {"priv"} \cup {"peer"} = {"priv", "peer"}
      /\ {"priv", "peer"} \subseteq {"priv", "peer"}
      /\ {} \cup {"priv", "peer"} = {"priv", "peer"} /\ "ctx" \in Objects \ {"priv", "peer"}
      /\ {"priv"} \subseteq {"priv", "peer"}
      /\ {"priv", "peer"} \cup {"ctx"} = {"priv", "peer", "ctx"}
      /\ {"ctx"} \subseteq {"priv", "peer", "ctx"} /\ {} \cup {} = {}
      /\ {"ctx", "peer"} \subseteq {"priv", "peer", "ctx"}
      /\ {} \cup {"shared_secret"} = {"shared_secret"}
      /\ {"priv", "peer", "ctx"} \subseteq {"priv", "peer", "ctx"} /\ "ctx" \in Objects
      /\ "peer" \in Objects /\ "priv" \in Objects
      /\ {"ctx", "peer", "priv"} = {"priv", "peer", "ctx"}
  BY SMT DEF Objects
<1>2. Reaches(a, <<b1>>, {"priv"}, {}, {}, 0, 0)
  <2>1. Reaches(a, Append(<<>>, b1), {} \cup {"priv"}, {}, {}, 0, 0)
    BY <1>1, Beginning, AddNew
  <2>2. <<b1>> = Append(<<>>, b1)
    BY Spelled1
  <2>3. QED
    BY <1>1, <2>1, <2>2
<1>3. Reaches(a, <<b1, b2>>, {"priv", "peer"}, {}, {}, 0, 0)
  <2>1. Reaches(a, Append(<<b1>>, b2), {"priv"} \cup {"peer"}, {}, {}, 0, 0)
    BY <1>1, <1>2, AddNew
  <2>2. <<b1, b2>> = Append(<<b1>>, b2)
    BY Spelled2
  <2>3. QED
    BY <1>1, <2>1, <2>2
<1>4. Reaches(a, <<b1, b2, b3>>, {"priv", "peer"}, {"priv", "peer"}, {}, 0, 0)
  <2>1. Reaches(a, Append(<<b1, b2>>, b3), {"priv", "peer"}, {} \cup {"priv", "peer"}, {}, 0, 0)
    BY <1>1, <1>3, AddTest
  <2>2. <<b1, b2, b3>> = Append(<<b1, b2>>, b3)
    BY Spelled3
  <2>3. QED
    BY <1>1, <2>1, <2>2
<1>5. Reaches(a, <<b1, b2, b3, b4>>, {"priv", "peer", "ctx"}, {"priv", "peer"}, {}, 0, 0)
  <2>1. Reaches(a, Append(<<b1, b2, b3>>, b4), {"priv", "peer"} \cup {"ctx"}, {"priv", "peer"}, {}, 0, 0)
    BY <1>1, <1>4, AddNew
  <2>2. <<b1, b2, b3, b4>> = Append(<<b1, b2, b3>>, b4)
    BY Spelled4
  <2>3. QED
    BY <1>1, <2>1, <2>2
<1>6. Reaches(a, <<b1, b2, b3, b4, b5>>, {"priv", "peer", "ctx"}, {"priv", "peer", "ctx"}, {}, 0, 0)
  <2>1. Reaches(a, Append(<<b1, b2, b3, b4>>, b5), {"priv", "peer", "ctx"}, {"priv", "peer"} \cup {"ctx"}, {}, 0, 0)
    BY <1>1, <1>5, AddTest
  <2>2. <<b1, b2, b3, b4, b5>> = Append(<<b1, b2, b3, b4>>, b5)
    BY Spelled5
  <2>3. QED
    BY <1>1, <2>1, <2>2
<1>7. Reaches(a, <<b1, b2, b3, b4, b5, b6>>, {"priv", "peer", "ctx"}, {"priv", "peer", "ctx"}, {}, 0, 0)
  <2>1. Reaches(a, Append(<<b1, b2, b3, b4, b5>>, b6), {"priv", "peer", "ctx"}, {"priv", "peer", "ctx"}, {} \cup {}, 0, 0)
    BY <1>1, <1>6, AddDo
  <2>2. <<b1, b2, b3, b4, b5, b6>> = Append(<<b1, b2, b3, b4, b5>>, b6)
    BY Spelled6
  <2>3. QED
    BY <1>1, <2>1, <2>2
<1>8. Reaches(a, <<b1, b2, b3, b4, b5, b6, b7>>, {"priv", "peer", "ctx"}, {"priv", "peer", "ctx"}, {}, 0, 0)
  <2>1. Reaches(a, Append(<<b1, b2, b3, b4, b5, b6>>, b7), {"priv", "peer", "ctx"}, {"priv", "peer", "ctx"}, {} \cup {}, 0, 0)
    BY <1>1, <1>7, AddDo
  <2>2. <<b1, b2, b3, b4, b5, b6, b7>> = Append(<<b1, b2, b3, b4, b5, b6>>, b7)
    BY Spelled7
  <2>3. QED
    BY <1>1, <2>1, <2>2
<1>9. Reaches(a, <<b1, b2, b3, b4, b5, b6, b7, b8>>, {"priv", "peer", "ctx"}, {"priv", "peer", "ctx"}, {"shared_secret"}, 0, 0)
  <2>1. Reaches(a, Append(<<b1, b2, b3, b4, b5, b6, b7>>, b8), {"priv", "peer", "ctx"}, {"priv", "peer", "ctx"}, {} \cup {"shared_secret"}, 0, 0)
    BY <1>1, <1>8, AddDo
  <2>2. <<b1, b2, b3, b4, b5, b6, b7, b8>> = Append(<<b1, b2, b3, b4, b5, b6, b7>>, b8)
    BY Spelled8
  <2>3. QED
    BY <1>1, <2>1, <2>2
<1>10. agreement = Function(<<b1, b2, b3, b4, b5, b6, b7, b8>>, <<"ctx", "peer", "priv">>)
  BY DEF agreement
<1>11. <<"ctx", "peer", "priv">> \in Seq(Objects) /\ Distinct(<<"ctx", "peer", "priv">>) /\ Elements(<<"ctx", "peer", "priv">>) = {"priv", "peer", "ctx"}
  BY <1>1, FreedLists
<1>12. QED
  BY <1>9, <1>10, <1>11, ToTheEnd DEF Plain

LEMMA Pbkdf2Right ==
  ASSUME NEW a, Plain(a), outputs(a) = {"out"}
  PROVE  Right(a, pbkdf2_hmac_sha256)
<1> DEFINE b1 == Do({}, {"out"})
<1>1. /\ 0 \in Int /\ "tag" \notin {} /\ {} \subseteq {} /\ {} \cup {"out"} = {"out"}
      /\ {} = {}
  BY SMT DEF Objects
<1>2. Reaches(a, <<b1>>, {}, {}, {"out"}, 0, 0)
  <2>1. Reaches(a, Append(<<>>, b1), {}, {}, {} \cup {"out"}, 0, 0)
    BY <1>1, Beginning, AddDo
  <2>2. <<b1>> = Append(<<>>, b1)
    BY Spelled1
  <2>3. QED
    BY <1>1, <2>1, <2>2
<1>3. pbkdf2_hmac_sha256 = Function(<<b1>>, <<>>)
  BY DEF pbkdf2_hmac_sha256
<1>4. <<>> \in Seq(Objects) /\ Distinct(<<>>) /\ Elements(<<>>) = {}
  BY <1>1, FreedLists
<1>5. QED
  BY <1>2, <1>3, <1>4, ToTheEnd DEF Plain

LEMMA HmacRight ==
  ASSUME NEW a, Plain(a), outputs(a) = {"out"}
  PROVE  Right(a, hmac_named(a))
<1> DEFINE b1 == New("mac", {})
           b2 == Test({"mac"}, "done")
           b3 == New("ctx", {"mac"})
           b4 == Test({"ctx"}, "done")
           b5 == Do({"ctx"}, {})
           b6 == Do({"ctx"}, {"out"})
<1>1. /\ 0 \in Int /\ "tag" \notin {} /\ "mac" \in Objects \ {} /\ {} \subseteq {}
      /\ {} \cup {"mac"} = {"mac"} /\ {"mac"} \subseteq {"mac"}
      /\ "ctx" \in Objects \ {"mac"} /\ {"mac"} \cup {"ctx"} = {"mac", "ctx"}
      /\ {"ctx"} \subseteq {"mac", "ctx"} /\ {} \cup {} = {} /\ {} \cup {"out"} = {"out"}
      /\ {"mac", "ctx"} \subseteq {"mac", "ctx"} /\ "mac" \in Objects /\ "ctx" \in Objects
      /\ {"ctx", "mac"} = {"mac", "ctx"} /\ "ctx" # "mac"
  BY SMT DEF Objects
<1>2. Reaches(a, <<b1>>, {"mac"}, {}, {}, 0, 0)
  <2>1. Reaches(a, Append(<<>>, b1), {} \cup {"mac"}, {}, {}, 0, 0)
    BY <1>1, Beginning, AddNew
  <2>2. <<b1>> = Append(<<>>, b1)
    BY Spelled1
  <2>3. QED
    BY <1>1, <2>1, <2>2
<1>3. Reaches(a, <<b1, b2>>, {"mac"}, {"mac"}, {}, 0, 0)
  <2>1. Reaches(a, Append(<<b1>>, b2), {"mac"}, {} \cup {"mac"}, {}, 0, 0)
    BY <1>1, <1>2, AddTest
  <2>2. <<b1, b2>> = Append(<<b1>>, b2)
    BY Spelled2
  <2>3. QED
    BY <1>1, <2>1, <2>2
<1>4. Reaches(a, <<b1, b2, b3>>, {"mac", "ctx"}, {"mac"}, {}, 0, 0)
  <2>1. Reaches(a, Append(<<b1, b2>>, b3), {"mac"} \cup {"ctx"}, {"mac"}, {}, 0, 0)
    BY <1>1, <1>3, AddNew
  <2>2. <<b1, b2, b3>> = Append(<<b1, b2>>, b3)
    BY Spelled3
  <2>3. QED
    BY <1>1, <2>1, <2>2
<1>5. Reaches(a, <<b1, b2, b3, b4>>, {"mac", "ctx"}, {"mac", "ctx"}, {}, 0, 0)
  <2>1. Reaches(a, Append(<<b1, b2, b3>>, b4), {"mac", "ctx"}, {"mac"} \cup {"ctx"}, {}, 0, 0)
    BY <1>1, <1>4, AddTest
  <2>2. <<b1, b2, b3, b4>> = Append(<<b1, b2, b3>>, b4)
    BY Spelled4
  <2>3. QED
    BY <1>1, <2>1, <2>2
<1>6. Reaches(a, <<b1, b2, b3, b4, b5>>, {"mac", "ctx"}, {"mac", "ctx"}, {}, 0, 0)
  <2>1. Reaches(a, Append(<<b1, b2, b3, b4>>, b5), {"mac", "ctx"}, {"mac", "ctx"}, {} \cup {}, 0, 0)
    BY <1>1, <1>5, AddDo
  <2>2. <<b1, b2, b3, b4, b5>> = Append(<<b1, b2, b3, b4>>, b5)
    BY Spelled5
  <2>3. QED
    BY <1>1, <2>1, <2>2
<1> DEFINE head == <<b1, b2, b3, b4, b5>>
           some == a.len["input"] # 0
           keyed == head \o If(some, <<b5>>)
           both == {"mac", "ctx"}
<1>7. Reaches(a, keyed, both, both, {}, 0, 0)
  <2>1. head \o <<b5>> = Append(head, b5) /\ head \o <<>> = head
    BY <1>6, AddedTo
  <2>2. Reaches(a, Append(head, b5), both, both, {}, 0, 0)
    <3>1. Reaches(a, Append(head, b5), both, both, {} \cup {}, 0, 0)
      BY <1>1, <1>6, AddDo
    <3>2. QED
      BY <1>1, <3>1
  <2> HIDE DEF head, b5, some, both
  <2>3. CASE some
    BY <2>1, <2>2, <2>3 DEF If
  <2>4. CASE ~ some
    <3>1. Reaches(a, head, both, both, {}, 0, 0)
      BY <1>6 DEF head, both
    <3>2. QED
      BY <2>1, <2>4, <3>1 DEF If
  <2>5. QED
    BY <2>3, <2>4
<1>8. hmac_named(a) = Function(keyed \o <<b6>>, <<"ctx", "mac">>)
  BY DEF hmac_named
<1> HIDE DEF keyed
<1>9. Reaches(a, keyed \o <<b6>>, both, both, {"out"}, 0, 0)
  <2>1. Reaches(a, Append(keyed, b6), both, both, {} \cup {"out"}, 0, 0)
    BY <1>1, <1>7, AddDo
  <2>2. keyed \o <<b6>> = Append(keyed, b6)
    BY <1>7, AddedTo
  <2>3. QED
    BY <1>1, <2>1, <2>2
<1>10. /\ <<"ctx", "mac">> \in Seq(Objects) /\ Distinct(<<"ctx", "mac">>)
       /\ Elements(<<"ctx", "mac">>) = both
  BY <1>1, FreedLists
<1> DEFINE R == keyed \o <<b6>>
           order == <<"ctx", "mac">>
<1>11. /\ order \in Seq(Objects) /\ Distinct(order) /\ both \subseteq Elements(order)
       /\ hmac_named(a) = Function(R, order) /\ Reaches(a, R, both, both, {"out"}, 0, 0)
       /\ both \subseteq both
  BY <1>8, <1>9, <1>10
<1> HIDE DEF R, order, both
<1>12. /\ a.fn \notin {"ed25519_verify", "ed448_verify", "aead_decrypt"} /\ a.genuine = TRUE
       /\ OnlyAad(a) => \E i \in 1 .. Len(R) : R[i].does = "whole"
  BY DEF Plain
<1> DEFINE out == {"out"}
<1>13. Reaches(a, R, both, both, out, 0, 0) /\ out = outputs(a)
  BY <1>11
<1> HIDE DEF out
<1>14. Right(a, Function(R, order))
  BY <1>11, <1>12, <1>13, ToTheEnd
<1>15. QED
  BY <1>11, <1>14

LEMMA DigestRight ==
  ASSUME NEW a, Plain(a), outputs(a) = {"out", "out_len"}
  PROVE  Right(a, digest(a))
<1> DEFINE both == {"out", "out_len"}
           b1 == Do({}, both)
           b2 == [does |-> "sure", fills |-> both, uses |-> {}]
<1>1. {} \cup both = both /\ "tag" \notin {} /\ 0 \in Int /\ {} \subseteq {}
  BY SMT
<1>2. Reaches(a, <<b1>>, {}, {}, both, 0, 0)
  <2>1. Reaches(a, Append(<<>>, b1), {}, {}, {} \cup both, 0, 0)
    BY <1>1, Beginning, AddDo
  <2>2. <<b1>> = Append(<<>>, b1)
    BY Spelled1
  <2>3. QED
    BY <1>1, <2>1, <2>2
<1>3. Reaches(a, <<b2>>, {}, {}, both, 0, 0)
  <2>1. Reaches(a, Append(<<>>, b2), {}, {}, {} \cup both, 0, 0)
    BY <1>1, Beginning, AddSure
  <2>2. <<b2>> = Append(<<>>, b2)
    BY Spelled1
  <2>3. QED
    BY <1>1, <2>1, <2>2
<1>4. digest(a) = Function(<<b2>>, <<>>) \/ digest(a) = Function(<<b1>>, <<>>)
  BY DEF digest, blake3_digest
<1>5. <<>> \in Seq(Objects) /\ Distinct(<<>>) /\ Elements(<<>>) = {}
  BY FreedLists
<1> HIDE DEF b1, b2
<1>6. Right(a, Function(<<b1>>, <<>>)) /\ Right(a, Function(<<b2>>, <<>>))
  BY <1>2, <1>3, <1>5, ToTheEnd DEF Plain
<1>7. QED
  BY <1>4, <1>6

\* Where the head of a cipher leads: what is left in n is the length of the
\* payload or, if there is none, that of the data to authenticate.
LEMMA HeadReaches ==
  ASSUME NEW a, NEW input, NEW output, output # "tag", a.len["aad"] \in Nat, a.len[input] \in Nat
  PROVE  \E o, l :
           /\ Reaches(a, aead_head(a, input, output), {"ctx"}, {"ctx"}, o, l, 0)
           /\ "tag" \notin o /\ l \in Int
           /\ a.len[input] # 0 => o = {output} /\ l = a.len[input]
           /\ a.len[input] = 0 => o = {} /\ l = a.len["aad"]
<1> DEFINE b1 == New("ctx", {})
           b2 == Test({"ctx"}, "return")
           b3 == Do({"ctx"}, {})
           b4 == Do({"ctx"}, {})
           b5 == Do({"ctx"}, {})
<1>1. /\ 0 \in Int /\ "tag" \notin {} /\ "ctx" \in Objects \ {} /\ {} \subseteq {}
      /\ {} \cup {"ctx"} = {"ctx"} /\ {"ctx"} \subseteq {"ctx"} /\ "ctx" \in Objects
      /\ {} \cup {} = {}
  BY SMT DEF Objects
<1>2. Reaches(a, <<b1>>, {"ctx"}, {}, {}, 0, 0)
  <2>1. Reaches(a, Append(<<>>, b1), {} \cup {"ctx"}, {}, {}, 0, 0)
    BY <1>1, Beginning, AddNew
  <2>2. <<b1>> = Append(<<>>, b1)
    BY Spelled1
  <2>3. QED
    BY <1>1, <2>1, <2>2
<1>3. Reaches(a, <<b1, b2>>, {"ctx"}, {"ctx"}, {}, 0, 0)
  <2>1. Reaches(a, Append(<<b1>>, b2), {"ctx"}, {} \cup {"ctx"}, {}, 0, 0)
    BY <1>1, <1>2, AddTest
  <2>2. <<b1, b2>> = Append(<<b1>>, b2)
    BY Spelled2
  <2>3. QED
    BY <1>1, <2>1, <2>2
<1>4. Reaches(a, <<b1, b2, b3>>, {"ctx"}, {"ctx"}, {}, 0, 0)
  <2>1. Reaches(a, Append(<<b1, b2>>, b3), {"ctx"}, {"ctx"}, {} \cup {}, 0, 0)
    BY <1>1, <1>3, AddDo
  <2>2. <<b1, b2, b3>> = Append(<<b1, b2>>, b3)
    BY Spelled3
  <2>3. QED
    BY <1>1, <2>1, <2>2
<1>5. Reaches(a, <<b1, b2, b3, b4>>, {"ctx"}, {"ctx"}, {}, 0, 0)
  <2>1. Reaches(a, Append(<<b1, b2, b3>>, b4), {"ctx"}, {"ctx"}, {} \cup {}, 0, 0)
    BY <1>1, <1>4, AddDo
  <2>2. <<b1, b2, b3, b4>> = Append(<<b1, b2, b3>>, b4)
    BY Spelled4
  <2>3. QED
    BY <1>1, <2>1, <2>2
<1>6. Reaches(a, <<b1, b2, b3, b4, b5>>, {"ctx"}, {"ctx"}, {}, 0, 0)
  <2>1. Reaches(a, Append(<<b1, b2, b3, b4>>, b5), {"ctx"}, {"ctx"}, {} \cup {}, 0, 0)
    BY <1>1, <1>5, AddDo
  <2>2. <<b1, b2, b3, b4, b5>> = Append(<<b1, b2, b3, b4>>, b5)
    BY Spelled5
  <2>3. QED
    BY <1>1, <2>1, <2>2
<1> DEFINE head == <<b1, b2, b3, b4, b5>>
           ctx == {"ctx"}
           x == a.len["aad"]
           y == a.len[input]
           u == Update({}, x)
           v == Update({output}, y)
           told == head \o If(x # 0, <<u>>)
<1>7. Reaches(a, head, ctx, ctx, {}, 0, 0)
  BY <1>6
<1>8. "ctx" \in ctx /\ "tag" \notin {} /\ 0 \in Int /\ {} \cup {} = {} /\ {} \cup {output} = {output}
      /\ x \in Nat /\ y \in Nat /\ x \in Int /\ y \in Int /\ "tag" \notin {output}
  BY SMT
<1>9. aead_head(a, input, output) = told \o If(y # 0, <<v>>)
  BY DEF aead_head
<1> HIDE DEF head, ctx, x, y
<1>10. Reaches(a, told, ctx, ctx, {}, x, 0)
  <2>1. head \o <<u>> = Append(head, u) /\ head \o <<>> = head
    BY <1>7, AddedTo
  <2>2. Reaches(a, Append(head, u), ctx, ctx, {} \cup {}, x, 0)
    BY <1>7, <1>8, AddUpdate
  <2> HIDE DEF u
  <2>3. CASE x # 0
    BY <1>8, <2>1, <2>2, <2>3 DEF If
  <2>4. CASE x = 0
    BY <1>7, <2>1, <2>4 DEF If
  <2>5. QED
    BY <2>3, <2>4
<1> HIDE DEF told
<1>11. CASE y # 0
  <2>1. told \o <<v>> = Append(told, v)
    BY <1>10, AddedTo
  <2>2. Reaches(a, Append(told, v), ctx, ctx, {} \cup {output}, y, 0)
    BY <1>8, <1>10, AddUpdate
  <2> HIDE DEF v
  <2>3. Reaches(a, aead_head(a, input, output), ctx, ctx, {output}, y, 0)
    BY <1>8, <1>9, <1>11, <2>1, <2>2 DEF If
  <2>4. QED
    BY <1>8, <1>11, <2>3 DEF ctx, y
<1>12. CASE y = 0
  <2>1. told \o <<>> = told
    BY <1>10, AddedTo
  <2> HIDE DEF v
  <2>2. Reaches(a, aead_head(a, input, output), ctx, ctx, {}, x, 0)
    BY <1>9, <1>10, <1>12, <2>1 DEF If
  <2>3. QED
    BY <1>8, <1>12, <2>2 DEF ctx, x, y
<1>13. QED
  BY <1>11, <1>12

LEMMA EncryptRight ==
  ASSUME NEW a, a.fn = "aead_encrypt", a.genuine = TRUE,
         a.len["aad"] \in Nat, a.len["plaintext"] \in Nat,
         OnlyAad(a) <=> a.len["aad"] # 0 /\ a.len["plaintext"] = 0,
         a.len["plaintext"] = 0 => outputs(a) = {"tag"},
         a.len["plaintext"] # 0 => outputs(a) = {"tag"} \cup {"ciphertext"}
  PROVE  Right(a, aead_encrypt(a))
<1> DEFINE head == aead_head(a, "plaintext", "ciphertext")
           y == a.len["plaintext"]
           B1 == Append(head, Final)
           B2 == Append(B1, Whole(y))
           B3 == Append(B2, Do({"ctx"}, {"tag"}))
           ctx == {"ctx"}
<1>1. PICK o, l :
        /\ Reaches(a, head, ctx, ctx, o, l, 0)
        /\ "tag" \notin o /\ l \in Int
        /\ y # 0 => o = {"ciphertext"} /\ l = y
        /\ y = 0 => o = {} /\ l = a.len["aad"]
  BY HeadReaches
<1>2. aead_encrypt(a) = Function(B3, <<"ctx">>)
  <2>1. head \o <<Final, Whole(y), Do({"ctx"}, {"tag"})>> = B3
    BY <1>1, AddedTo
  <2>2. QED
    BY <2>1 DEF aead_encrypt
<1>3. "ctx" \in ctx /\ ctx \subseteq ctx /\ 0 \in Int /\ (l # y <=> OnlyAad(a))
  BY <1>1, SMT
<1>4. outputs(a) = o \cup {"tag"}
  BY <1>1
<1> HIDE DEF head, ctx, y
<1>5. Reaches(a, B1, ctx, ctx, o, 0, l)
  BY <1>1, <1>3, AddFinal
<1> HIDE DEF B1
<1>6. Reaches(a, B2, ctx, ctx, o, 0, l)
  BY <1>1, <1>3, <1>5, AddWhole
<1>7. OnlyAad(a) => \E i \in 1 .. Len(B3) : B3[i].does = "whole"
  <2> DEFINE k == Len(B1)
             w == Whole(y)
             d == Do({"ctx"}, {"tag"})
  <2>1. k \in Nat /\ B1 = [i \in 1 .. k |-> B1[i]]
    BY <1>5 DEF Reaches, Table
  <2>2. w.does = "whole"
    BY DEF Whole
  <2> HIDE DEF w, d
  <2>3. Len(Append(B1, w)) = k + 1 /\ Append(B1, w)[k + 1] = w
        /\ Append(B1, w) = [i \in 1 .. Len(Append(B1, w)) |-> Append(B1, w)[i]]
    BY <2>1, Longer
  <2> DEFINE C == Append(B1, w)
  <2> HIDE DEF C
  <2>4. Len(C) = k + 1 /\ C[k + 1] = w /\ C = [i \in 1 .. Len(C) |-> C[i]] /\ Len(C) \in Nat
    <3>1. k + 1 \in Nat
      BY <2>1, SMT
    <3>2. QED
      BY <2>3, <3>1 DEF C
  <2>5. Len(Append(C, d)) = Len(C) + 1 /\ \A i \in 1 .. Len(C) : Append(C, d)[i] = C[i]
    BY <2>4, Longer
  <2>6. k + 1 \in 1 .. k + 1 /\ k + 1 \in 1 .. (k + 1) + 1
    BY <2>1, SMT
  <2>7. k + 1 \in 1 .. Len(Append(C, d)) /\ Append(C, d)[k + 1] = w
    BY <2>4, <2>5, <2>6
  <2>8. B3 = Append(C, d)
    BY DEF C, d, w
  <2>9. QED
    BY <2>2, <2>7, <2>8
<1> HIDE DEF B2
<1>8. Reaches(a, B3, ctx, ctx, o \cup {"tag"}, 0, l)
  <2>1. {"ctx"} \subseteq ctx
    BY <1>3
  <2>2. QED
    BY <1>1, <1>3, <1>6, <2>1, AddDo
<1>9. /\ <<"ctx">> \in Seq(Objects) /\ Distinct(<<"ctx">>)
      /\ Elements(<<"ctx">>) = ctx
  BY FreedLists DEF Objects, ctx
<1> HIDE DEF B3
<1>10. a.fn \notin {"ed25519_verify", "ed448_verify", "aead_decrypt"}
  OBVIOUS
<1> DEFINE order == <<"ctx">>
           all == o \cup {"tag"}
<1>11. /\ order \in Seq(Objects) /\ Distinct(order) /\ ctx \subseteq Elements(order)
       /\ aead_encrypt(a) = Function(B3, order) /\ Reaches(a, B3, ctx, ctx, all, 0, l)
       /\ all = outputs(a)
  BY <1>2, <1>4, <1>8, <1>9
<1> HIDE DEF order, all
<1>12. Right(a, Function(B3, order))
  BY <1>3, <1>7, <1>10, <1>11, ToTheEnd
<1>13. QED
  BY <1>11, <1>12

LEMMA DecryptRight ==
  ASSUME NEW a, a.fn = "aead_decrypt",
         a.len["aad"] \in Nat, a.len["ciphertext"] \in Nat,
         OnlyAad(a) <=> a.len["aad"] # 0 /\ a.len["ciphertext"] = 0,
         a.len["ciphertext"] = 0 => outputs(a) = {},
         a.len["ciphertext"] # 0 => outputs(a) = {"plaintext"}
  PROVE  Right(a, aead_decrypt(a))
<1> DEFINE head == aead_head(a, "ciphertext", "plaintext")
           y == a.len["ciphertext"]
           B1 == Append(head, Do({"ctx"}, {}))
           B2 == Append(B1, Decide({"ctx"}, y))
           ctx == {"ctx"}
<1>1. PICK o, l :
        /\ Reaches(a, head, ctx, ctx, o, l, 0)
        /\ "tag" \notin o /\ l \in Int
        /\ y # 0 => o = {"plaintext"} /\ l = y
        /\ y = 0 => o = {} /\ l = a.len["aad"]
  BY HeadReaches
<1>2. aead_decrypt(a) = Function(B2, <<"ctx">>)
  <2>1. head \o <<Do({"ctx"}, {}), Decide({"ctx"}, y)>> = B2
    BY <1>1, AddedTo
  <2>2. QED
    BY <2>1 DEF aead_decrypt
<1>3. {"ctx"} \subseteq ctx /\ ctx \subseteq ctx /\ o \cup {} = o /\ (l # y <=> OnlyAad(a))
  BY <1>1, SMT
<1>4. outputs(a) = o
  BY <1>1
<1>5. /\ <<"ctx">> \in Seq(Objects) /\ Distinct(<<"ctx">>)
      /\ Elements(<<"ctx">>) = ctx
  BY FreedLists DEF Objects
<1> HIDE DEF head, ctx, y
<1>6. Reaches(a, B1, ctx, ctx, o, l, 0)
  <2>1. Reaches(a, B1, ctx, ctx, o \cup {}, l, 0)
    BY <1>1, <1>3, AddDo
  <2>2. QED
    BY <1>3, <2>1
<1> HIDE DEF B1
<1> DEFINE order == <<"ctx">>
           uses == {"ctx"}
<1>7. /\ order \in Seq(Objects) /\ Distinct(order) /\ ctx \subseteq Elements(order)
      /\ uses \subseteq ctx /\ aead_decrypt(a) = Function(Append(B1, Decide(uses, y)), order)
  BY <1>2, <1>3, <1>5
<1>8. a.fn \in {"ed25519_verify", "ed448_verify", "aead_decrypt"}
  OBVIOUS
<1> HIDE DEF order, uses
<1>9. QED
  BY <1>1, <1>3, <1>4, <1>6, <1>7, <1>8, ToADecision

\* What the arguments of a function are.
LEMMA ArgumentsOf ==
  ASSUME NEW a, Possible(a)
  PROVE  /\ a.fn \in DOMAIN parameters
         /\ a.len \in [parameters[a.fn].sized \cup parameters[a.fn].numbers -> Lengths]
         /\ a.fn \notin {"ed25519_verify", "ed448_verify", "aead_decrypt"} => a.genuine = TRUE
<1>1. PICK fn \in DOMAIN parameters : a \in Arguments(fn)
  BY DEF Possible
<1>2. a.fn = fn
  BY <1>1 DEF Arguments
<1>3. a.len \in [parameters[fn].sized \cup parameters[fn].numbers -> Lengths]
  BY <1>1 DEF Arguments
<1>4. fn \notin {"ed25519_verify", "ed448_verify", "aead_decrypt"} => a.genuine = TRUE
  BY <1>1 DEF Arguments
<1>5. QED
  BY <1>1, <1>2, <1>3, <1>4

LEMMA FunctionNames ==
  DOMAIN parameters = {"digest", "xof", "hmac_sha256", "hmac_sha512", "hkdf_sha256",
                       "ed25519_public_from_seed", "ed25519_sign", "ed25519_verify",
                       "ed448_public_from_seed", "ed448_sign", "ed448_verify",
                       "x25519_public_from_private", "x25519_shared_secret",
                       "x448_public_from_private", "x448_shared_secret",
                       "pbkdf2_hmac_sha256", "aead_encrypt", "aead_decrypt"}
BY DEF parameters

LEMMA Needs ==
  /\ parameters["xof"].needs = {"out"}
  /\ parameters["hmac_sha256"].needs = {"out"}
  /\ parameters["hmac_sha512"].needs = {"out"}
  /\ parameters["hkdf_sha256"].needs = {"out"}
  /\ parameters["pbkdf2_hmac_sha256"].needs = {"out"}
  /\ parameters["ed25519_public_from_seed"].needs = {"seed", "public_key"}
  /\ parameters["ed448_public_from_seed"].needs = {"seed", "public_key"}
  /\ parameters["ed25519_sign"].needs = {"seed", "signature"}
  /\ parameters["ed448_sign"].needs = {"seed", "signature"}
  /\ parameters["x25519_public_from_private"].needs = {"private_key", "public_key"}
  /\ parameters["x448_public_from_private"].needs = {"private_key", "public_key"}
  /\ parameters["x25519_shared_secret"].needs = {"private_key", "peer_public_key", "shared_secret"}
  /\ parameters["x448_shared_secret"].needs = {"private_key", "peer_public_key", "shared_secret"}
  /\ parameters["aead_encrypt"].sized = {"aad", "plaintext"} /\ parameters["aead_encrypt"].numbers = {}
  /\ parameters["aead_decrypt"].sized = {"aad", "ciphertext"} /\ parameters["aead_decrypt"].numbers = {}
BY DEF parameters

\* What a plain function puts out.
LEMMA PlainOutputs ==
  ASSUME NEW a, a.fn \notin {"digest", "aead_encrypt", "aead_decrypt"}
  PROVE  /\ outputs(a) = parameters[a.fn].needs \cap {"out", "public_key", "signature", "shared_secret"}
         /\ ~ OnlyAad(a)
BY DEF outputs, OnlyAad

\* Whatever a caller may ask for, the function that serves it is right.
LEMMA FunctionsRight ==
  ASSUME NEW a, Possible(a)
  PROVE  Right(a, function(a))
<1> DEFINE fn == a.fn
<1>1. /\ fn \in DOMAIN parameters
      /\ a.len \in [parameters[fn].sized \cup parameters[fn].numbers -> Lengths]
      /\ fn \notin {"ed25519_verify", "ed448_verify", "aead_decrypt"} => a.genuine = TRUE
  BY ArgumentsOf
<1>2. fn \notin {"digest", "aead_encrypt", "aead_decrypt"} =>
        /\ outputs(a) = parameters[fn].needs \cap {"out", "public_key", "signature", "shared_secret"}
        /\ ~ OnlyAad(a)
  BY PlainOutputs
<1>3. CASE fn = "digest"
  <2>1. function(a) = digest(a)
    BY <1>3 DEF function
  <2>2. Plain(a)
    BY <1>1, <1>3 DEF Plain, OnlyAad
  <2>3. outputs(a) = {"out", "out_len"}
    BY <1>3 DEF outputs
  <2>4. QED
    BY <2>1, <2>2, <2>3, DigestRight
<1>4. CASE fn = "xof"
  <2>1. function(a) = xof
    BY <1>4 DEF function
  <2>2. Plain(a)
    BY <1>1, <1>2, <1>4 DEF Plain
  <2>3. outputs(a) = {"out"}
    BY <1>2, <1>4, Needs
  <2>4. QED
    BY <2>1, <2>2, <2>3, XofRight
<1>5. CASE fn = "hmac_sha256"
  <2>1. function(a) = hmac_named(a)
    BY <1>5 DEF function
  <2>2. Plain(a)
    BY <1>1, <1>2, <1>5 DEF Plain
  <2>3. outputs(a) = {"out"}
    BY <1>2, <1>5, Needs
  <2>4. QED
    BY <2>1, <2>2, <2>3, HmacRight
<1>6. CASE fn = "hmac_sha512"
  <2>1. function(a) = hmac_named(a)
    BY <1>6 DEF function
  <2>2. Plain(a)
    BY <1>1, <1>2, <1>6 DEF Plain
  <2>3. outputs(a) = {"out"}
    BY <1>2, <1>6, Needs
  <2>4. QED
    BY <2>1, <2>2, <2>3, HmacRight
<1>7. CASE fn = "hkdf_sha256"
  <2>1. function(a) = hkdf_sha256
    BY <1>7 DEF function
  <2>2. Plain(a)
    BY <1>1, <1>2, <1>7 DEF Plain
  <2>3. outputs(a) = {"out"}
    BY <1>2, <1>7, Needs
  <2>4. QED
    BY <2>1, <2>2, <2>3, HkdfRight
<1>8. CASE fn = "pbkdf2_hmac_sha256"
  <2>1. function(a) = pbkdf2_hmac_sha256
    BY <1>8 DEF function
  <2>2. Plain(a)
    BY <1>1, <1>2, <1>8 DEF Plain
  <2>3. outputs(a) = {"out"}
    BY <1>2, <1>8, Needs
  <2>4. QED
    BY <2>1, <2>2, <2>3, Pbkdf2Right
<1>9. CASE fn = "ed25519_public_from_seed"
  <2>1. function(a) = public_key
    BY <1>9 DEF function, ed25519_public_from_seed
  <2>2. Plain(a)
    BY <1>1, <1>2, <1>9 DEF Plain
  <2>3. outputs(a) = {"public_key"}
    BY <1>2, <1>9, Needs
  <2>4. QED
    BY <2>1, <2>2, <2>3, PublicKeyRight
<1>10. CASE fn = "ed448_public_from_seed"
  <2>1. function(a) = public_key
    BY <1>10 DEF function, ed448_public_from_seed
  <2>2. Plain(a)
    BY <1>1, <1>2, <1>10 DEF Plain
  <2>3. outputs(a) = {"public_key"}
    BY <1>2, <1>10, Needs
  <2>4. QED
    BY <2>1, <2>2, <2>3, PublicKeyRight
<1>11. CASE fn = "x25519_public_from_private"
  <2>1. function(a) = public_key
    BY <1>11 DEF function, x25519_public_from_private
  <2>2. Plain(a)
    BY <1>1, <1>2, <1>11 DEF Plain
  <2>3. outputs(a) = {"public_key"}
    BY <1>2, <1>11, Needs
  <2>4. QED
    BY <2>1, <2>2, <2>3, PublicKeyRight
<1>12. CASE fn = "x448_public_from_private"
  <2>1. function(a) = public_key
    BY <1>12 DEF function, x448_public_from_private
  <2>2. Plain(a)
    BY <1>1, <1>2, <1>12 DEF Plain
  <2>3. outputs(a) = {"public_key"}
    BY <1>2, <1>12, Needs
  <2>4. QED
    BY <2>1, <2>2, <2>3, PublicKeyRight
<1>13. CASE fn = "ed25519_sign"
  <2>1. function(a) = signing
    BY <1>13 DEF function, ed25519_sign
  <2>2. Plain(a)
    BY <1>1, <1>2, <1>13 DEF Plain
  <2>3. outputs(a) = {"signature"}
    BY <1>2, <1>13, Needs
  <2>4. QED
    BY <2>1, <2>2, <2>3, SigningRight
<1>14. CASE fn = "ed448_sign"
  <2>1. function(a) = signing
    BY <1>14 DEF function, ed448_sign
  <2>2. Plain(a)
    BY <1>1, <1>2, <1>14 DEF Plain
  <2>3. outputs(a) = {"signature"}
    BY <1>2, <1>14, Needs
  <2>4. QED
    BY <2>1, <2>2, <2>3, SigningRight
<1>15. CASE fn = "x25519_shared_secret"
  <2>1. function(a) = agreement
    BY <1>15 DEF function, x25519_shared_secret
  <2>2. Plain(a)
    BY <1>1, <1>2, <1>15 DEF Plain
  <2>3. outputs(a) = {"shared_secret"}
    BY <1>2, <1>15, Needs
  <2>4. QED
    BY <2>1, <2>2, <2>3, AgreementRight
<1>16. CASE fn = "x448_shared_secret"
  <2>1. function(a) = agreement
    BY <1>16 DEF function, x448_shared_secret
  <2>2. Plain(a)
    BY <1>1, <1>2, <1>16 DEF Plain
  <2>3. outputs(a) = {"shared_secret"}
    BY <1>2, <1>16, Needs
  <2>4. QED
    BY <2>1, <2>2, <2>3, AgreementRight
<1>17. CASE fn = "ed25519_verify"
  <2>1. function(a) = verifying
    BY <1>17 DEF function, ed25519_verify
  <2>2. ~ OnlyAad(a)
    BY <1>2, <1>17
  <2>3. QED
    BY <1>17, <2>1, <2>2, VerifyingRight
<1>18. CASE fn = "ed448_verify"
  <2>1. function(a) = verifying
    BY <1>18 DEF function, ed448_verify
  <2>2. ~ OnlyAad(a)
    BY <1>2, <1>18
  <2>3. QED
    BY <1>18, <2>1, <2>2, VerifyingRight
<1>19. CASE fn = "aead_encrypt"
  <2>1. function(a) = aead_encrypt(a)
    BY <1>19 DEF function
  <2>2. DOMAIN a.len = {"aad", "plaintext"} /\ a.len["aad"] \in Nat /\ a.len["plaintext"] \in Nat
    BY <1>1, <1>19, Needs, CryptoAssumption DEF CryptoAssumption
  <2>3. OnlyAad(a) <=> a.len["aad"] # 0 /\ a.len["plaintext"] = 0
    BY <1>19, <2>2 DEF OnlyAad
  <2>4. /\ a.len["plaintext"] = 0 => outputs(a) = {"tag"}
        /\ a.len["plaintext"] # 0 => outputs(a) = {"tag"} \cup {"ciphertext"}
    BY <1>19 DEF outputs
  <2>5. a.genuine = TRUE
    BY <1>1, <1>19
  <2>6. QED
    BY <1>19, <2>1, <2>2, <2>3, <2>4, <2>5, EncryptRight
<1>20. CASE fn = "aead_decrypt"
  <2>1. function(a) = aead_decrypt(a)
    BY <1>20 DEF function
  <2>2. DOMAIN a.len = {"aad", "ciphertext"} /\ a.len["aad"] \in Nat /\ a.len["ciphertext"] \in Nat
    BY <1>1, <1>20, Needs, CryptoAssumption DEF CryptoAssumption
  <2>3. OnlyAad(a) <=> a.len["aad"] # 0 /\ a.len["ciphertext"] = 0
    BY <1>20, <2>2 DEF OnlyAad
  <2>4. /\ a.len["ciphertext"] = 0 => outputs(a) = {}
        /\ a.len["ciphertext"] # 0 => outputs(a) = {"plaintext"}
    BY <1>20 DEF outputs
  <2>5. QED
    BY <1>20, <2>1, <2>2, <2>3, <2>4, DecryptRight
<1>21. QED
  BY <1>1, FunctionNames, <1>3, <1>4, <1>5, <1>6, <1>7, <1>8, <1>9, <1>10, <1>11, <1>12, <1>13, <1>14, <1>15, <1>16, <1>17, <1>18, <1>19, <1>20

-----------------------------------------------------------------------------
(* Before and after the body. *)

\* A function and its tables, whatever the state, make a running call.
LEMMA RunningThen ==
  ASSUME NEW f, NEW made, NEW tested, NEW out, NEW last, NEW sum, f = function(call'),
         Careful(f, made, tested), Exact(call', f, made, tested, out, last, sum),
         Progress(f, made, tested, out, last, sum)'
  PROVE  Running'
BY DEF Running

LEMMA CallStep ==
  ASSUME RuntimeInv, Call
  PROVE  RuntimeInv'
<1>1. /\ phase = "idle" /\ Possible(call')
      /\ phase' = IF accepted(call') THEN "body" ELSE "returned"
      /\ UNCHANGED <<pc, object, frees, n, total, filled, failed, rc>>
  BY DEF Call, Possible
<1>2. /\ pc = 1 /\ object = [o \in Objects |-> "none"]
      /\ n = 0 /\ total = 0 /\ filled = {} /\ failed = FALSE /\ rc = -1
  BY <1>1 DEF RuntimeInv
<1>3. CASE accepted(call')
  <2> PICK f : f = function(call')
    OBVIOUS
  <2>1. Right(call', f)
    BY <1>1, <1>3, FunctionsRight
  <2>2. PICK made, tested, out, last, sum :
          Careful(f, made, tested) /\ Exact(call', f, made, tested, out, last, sum)
    BY <2>1 DEF Right
  <2>3. /\ Len(f.body) \in Nat /\ made[1] = {} /\ tested[1] = {}
        /\ out[1] = {} /\ last[1] = 0 /\ sum[1] = 0
    BY <2>2 DEF Careful, Exact
  <2>4. pc' \in 1 .. Len(f.body) + 1 /\ 1 .. pc' - 1 = {}
    <3> DEFINE L == Len(f.body)
    <3>1. L \in Nat
      BY <2>3
    <3> HIDE DEF L
    <3>2. 1 \in 1 .. L + 1 /\ 1 .. 1 - 1 = {}
      BY <3>1, SMT
    <3>3. pc' = 1
      BY <1>1, <1>2
    <3>4. QED
      BY <3>2, <3>3 DEF L
  <2>5. /\ pc' = 1 /\ (\A o \in Objects : object'[o] = "none") /\ failed' = FALSE
        /\ filled' = {} /\ n' = 0 /\ total' = 0
    BY <1>1, <1>2
  <2>6. /\ \A o \in Objects : IF o \in made[pc'] THEN object'[o] \in {"live", "null"}
                              ELSE object'[o] = "none"
        /\ \A o \in tested[pc'] : object'[o] = "live"
        /\ failed' <=> \E o \in Objects : object'[o] = "null"
    BY <2>3, <2>5
  <2>7. Progress(f, made, tested, out, last, sum)'
    BY <2>3, <2>4, <2>5, <2>6 DEF Progress
  <2>8. Running'
    BY <2>2, <2>7, RunningThen
  <2>9. QED
    BY <1>1, <1>2, <1>3, <2>8 DEF RuntimeInv
<1>4. CASE ~ accepted(call')
  <2>1. rc' = -1 /\ filled' = {} /\ failed' = FALSE /\ rc' # 0 /\ rc' # 1
    BY <1>1, <1>2, SMT
  <2>2. Told'
    BY <1>4, <2>1 DEF Told
  <2>3. \A o \in Objects : object'[o] # "live"
    BY <1>1, <1>2
  <2>4. QED
    BY <1>1, <1>2, <1>4, <2>2, <2>3 DEF RuntimeInv
<1>5. QED
  BY <1>3, <1>4

LEMMA FreeStep ==
  ASSUME RuntimeInv, Free
  PROVE  RuntimeInv'
<1> DEFINE first == Head(frees)
<1>1. /\ phase = "done" /\ frees # <<>>
      /\ object' = [object EXCEPT ![first] = IF @ = "live" THEN "freed" ELSE @]
      /\ frees' = Tail(frees)
      /\ UNCHANGED <<call, phase, pc, n, total, filled, failed, rc>>
  BY DEF Free
<1>2. frees \in Seq(Objects) /\ Distinct(frees) /\ DOMAIN object = Objects
  BY <1>1 DEF RuntimeInv, Freeing
<1>3. /\ first \in Elements(frees) /\ first \in Objects
      /\ frees' \in Seq(Objects) /\ Distinct(frees')
      /\ Elements(frees') = Elements(frees) \ {first}
  <2>1. /\ Head(frees) \in Elements(frees) /\ Head(frees) \in Objects
        /\ Tail(frees) \in Seq(Objects) /\ Distinct(Tail(frees))
        /\ Elements(Tail(frees)) = Elements(frees) \ {Head(frees)}
    BY <1>1, <1>2, RestOfList
  <2>2. QED
    BY <1>1, <2>1
<1>4. Elements(frees) \subseteq Objects
  BY <1>2, ElementOfSeq DEF Elements
<1> HIDE DEF first
<1>5. /\ DOMAIN object' = Objects
      /\ \A o \in Objects : o # first => object'[o] = object[o]
      /\ object'[first] # "live"
  BY <1>1, <1>2, <1>3
<1>6. Freeing'
  BY <1>1, <1>3, <1>4, <1>5 DEF RuntimeInv, Freeing
<1>7. Told'
  <2>1. Told
    BY <1>1 DEF RuntimeInv
  <2>2. body' = body
    BY <1>1 DEF body
  <2>3. QED
    BY <1>1, <2>1, <2>2 DEF Told
<1>8. QED
  BY <1>1, <1>5, <1>6, <1>7 DEF RuntimeInv

LEMMA ReturnStep ==
  ASSUME RuntimeInv, Return
  PROVE  RuntimeInv'
<1>1. /\ phase = "done" /\ frees = <<>> /\ phase' = "returned"
      /\ UNCHANGED <<call, pc, object, frees, n, total, filled, failed, rc>>
  BY DEF Return
<1>2. Freeing /\ Told /\ body' = body
  BY <1>1 DEF RuntimeInv, body
<1>3. Elements(frees) = {}
  BY <1>1, SMT DEF Elements
<1>4. \A o \in Objects : object'[o] # "live"
  BY <1>1, <1>2, <1>3 DEF Freeing
<1>5. Told'
  BY <1>1, <1>2 DEF Told
<1>6. QED
  BY <1>1, <1>4, <1>5 DEF RuntimeInv

\* Every function makes its calls, and its caller takes what they come to.
THEOREM RuntimeInvariant == RuntimeSpec => []RuntimeInv
<1>1. RuntimeInit => RuntimeInv
  BY DEF RuntimeInit, RuntimeInv
<1>2. RuntimeInv /\ [RuntimeNext]_runtime => RuntimeInv'
  <2>1. SUFFICES ASSUME RuntimeInv, [RuntimeNext]_runtime PROVE RuntimeInv'
    OBVIOUS
  <2>2. CASE Take
    <3>1. /\ phase' = "idle" /\ pc' = 1
          /\ object' = [o \in Objects |-> "none"]
          /\ n' = 0 /\ total' = 0 /\ filled' = {} /\ failed' = FALSE /\ rc' = -1
      BY <2>2 DEF Take
    <3>2. QED
      BY <3>1 DEF RuntimeInv
  <2>3. CASE UNCHANGED runtime
    <3>1. UNCHANGED <<call, phase, pc, object, frees, n, total, filled, failed, rc>>
      BY <2>3 DEF runtime
    <3>2. (Told => Told') /\ (Freeing => Freeing')
      BY <3>1 DEF Told, Freeing, body
    <3>3. Running => Running'
      <4>1. SUFFICES ASSUME Running PROVE Running'
        OBVIOUS
      <4>2. PICK made, tested, out, last, sum :
              /\ Careful(function(call), made, tested)
              /\ Exact(call, function(call), made, tested, out, last, sum)
              /\ Progress(function(call), made, tested, out, last, sum)
        BY <4>1 DEF Running
      <4> PICK f : f = function(call)
        OBVIOUS
      <4>3. f = function(call') /\ Progress(f, made, tested, out, last, sum)'
        BY <3>1, <4>2 DEF Progress
      <4>4. QED
        BY <3>1, <4>2, <4>3, RunningThen
    <3>4. QED
      BY <2>1, <3>1, <3>2, <3>3 DEF RuntimeInv
  <2>4. QED
    BY <2>1, <2>2, <2>3, CallStep, AllocateStep, TestObjectsStep, MakeCallStep, FinishStep,
       TestLengthStep, VerdictStep, EndOfBodyStep, FreeStep, ReturnStep DEF RuntimeNext
<1>3. QED
  BY <1>1, <1>2, PTL DEF RuntimeSpec

\* On every path of every function objects are used between test and free,
\* and none is left behind.
THEOREM ObjectsCorrect == RuntimeSpec => []ObjectsReleased
<1>1. RuntimeInv => ObjectsReleased
  <2>1. SUFFICES ASSUME RuntimeInv PROVE ObjectsReleased
    OBVIOUS
  <2>2. ASSUME phase = "body", pc <= Len(body)
        PROVE  \A o \in step.uses : object[o] = "live"
    <3>1. PICK made, tested, out, last, sum : Tables(function(call), made, tested, out, last, sum)
      BY <2>1, <2>2 DEF RuntimeInv, Running, Tables
    <3> DEFINE f == function(call)
    <3>2. /\ f = function(call) /\ Careful(f, made, tested) /\ Exact(call, f, made, tested, out, last, sum)
          /\ Progress(f, made, tested, out, last, sum)
      BY <3>1 DEF Tables
    <3> HIDE DEF f
    <3>3. step.uses \subseteq tested[pc]
      BY <2>1, <2>2, <3>2, StepTables
    <3>4. QED
      BY <3>2, <3>3 DEF Progress
  <2>3. ASSUME phase = "done", frees # <<>>
        PROVE  object[Head(frees)] # "freed"
    <3>1. Freeing
      BY <2>1, <2>3 DEF RuntimeInv
    <3>2. Head(frees) \in Elements(frees)
      BY <2>3, <3>1, RestOfList DEF Freeing
    <3>3. QED
      BY <3>1, <3>2 DEF Freeing
  <2>4. QED
    BY <2>1, <2>2, <2>3 DEF ObjectsReleased, RuntimeInv
<1>2. QED
  BY <1>1, RuntimeInvariant, PTL

\* The code a function returns tells what happened.
THEOREM ReturnCorrect == RuntimeSpec => []ReturnTells
<1>1. RuntimeInv => ReturnTells
  BY DEF RuntimeInv, ReturnTells, Told
<1>2. QED
  BY <1>1, RuntimeInvariant, PTL
=============================================================================
