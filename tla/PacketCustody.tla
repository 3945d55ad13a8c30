--------------------------- MODULE PacketCustody ----------------------------
(***************************************************************************)
(* The packet custody sidecar, c/rafaelia_packet_custody.c: a receiver     *)
(* that checks each fragment of a packet against an authenticated manifest *)
(* as it arrives, keeps a bitmap and counters, and tells which fragment to *)
(* ask for again.  The network between sender and receiver loses, repeats, *)
(* reorders and alters fragments.                                          *)
(***************************************************************************)
EXTENDS Naturals, FiniteSets

CONSTANTS MaxChunks,    \* RPC_MAX_CHUNKS, 4096 in the code
          TotalChunks,  \* total_chunks of the packet
          Payloads,     \* payloads a fragment may carry
          Content,      \* the payload of each chunk of the packet
          Length,       \* the length of each payload
          Modulus,      \* rejected_chunks is a uint32_t: 2^32 in the code
          MaxInFlight   \* bound on the fragments in the network

Chunks == 0 .. TotalChunks - 1

\* rpc_valid_total, which rpc_stream_init checks, and a manifest for the packet.
ASSUME CustodyAssumption ==
  /\ MaxChunks \in Nat
  /\ TotalChunks \in 1 .. MaxChunks
  /\ Content \in [Chunks -> Payloads]
  /\ Length \in [Payloads -> Nat]
  /\ Modulus \in Nat \ {0}
  /\ MaxInFlight \in Nat

VARIABLES received_bitmap,   \* the indexes whose bit is set
          received_chunks,
          rejected_chunks,
          verified_bytes,
          status,            \* what the last rpc_stream_record returned
          buffer,            \* what the receiver stored on RPC_OK, by index
          network            \* fragments on their way

state == <<received_bitmap, received_chunks, rejected_chunks, verified_bytes>>
vars == <<state, status, buffer, network>>

Statuses == {"none", "RPC_OK", "RPC_DUPLICATE", "RPC_ERR_RANGE", "RPC_ERR_DIGEST"}

\* A fragment as it arrives: the index it claims, which may be out of range,
\* and its payload.
Fragments == [index : 0 .. TotalChunks, payload : Payloads]

\* rpc_stream_init, and the first transmission of the packet.
Init ==
  /\ received_bitmap = {}
  /\ received_chunks = 0
  /\ rejected_chunks = 0
  /\ verified_bytes = 0
  /\ status = "none"
  /\ buffer = [i \in {} |-> 0]
  /\ network = {}

-----------------------------------------------------------------------------
\* The digest of a fragment binds its index, the number of chunks, the length
\* and the payload, within the packet of the stream.
rpc_chunk_digest(index, payload) == <<index, TotalChunks, Length[payload], payload>>

\* Mutant of expected_digest: the payload of the first chunk for all.
expected_digest_of_first(index) == rpc_chunk_digest(index, Content[0])

\* The digests of the authenticated manifest.
expected_digest(index) == rpc_chunk_digest(index, Content[index])

genuine(index, payload) ==
  index < TotalChunks /\ rpc_chunk_digest(index, payload) = expected_digest(index)

OutOfRange(index) ==
  /\ index >= TotalChunks
  /\ status' = "RPC_ERR_RANGE"
  /\ UNCHANGED <<state, buffer>>

Rejected(index, payload) ==
  /\ index < TotalChunks
  /\ ~ genuine(index, payload)
  /\ status' = "RPC_ERR_DIGEST"
  /\ rejected_chunks' = (rejected_chunks + 1) % Modulus
  /\ UNCHANGED <<received_bitmap, received_chunks, verified_bytes, buffer>>

\* Mutant of Duplicate: its bytes are counted.
DuplicateBytesCounted(index, payload) ==
  /\ genuine(index, payload)
  /\ index \in received_bitmap
  /\ status' = "RPC_DUPLICATE"
  /\ verified_bytes' = verified_bytes + Length[payload]
  /\ UNCHANGED <<received_bitmap, received_chunks, rejected_chunks, buffer>>

Duplicate(index, payload) ==
  /\ genuine(index, payload)
  /\ index \in received_bitmap
  /\ status' = "RPC_DUPLICATE"
  /\ UNCHANGED <<state, buffer>>

stored(index, payload) ==
  [i \in DOMAIN buffer \cup {index} |-> IF i = index THEN payload ELSE buffer[i]]

\* Mutant of Accepted: the bit is not set.
AcceptedUnmarked(index, payload) ==
  /\ genuine(index, payload)
  /\ index \notin received_bitmap
  /\ status' = "RPC_OK"
  /\ received_chunks' = received_chunks + 1
  /\ verified_bytes' = verified_bytes + Length[payload]
  /\ buffer' = stored(index, payload)
  /\ UNCHANGED <<received_bitmap, rejected_chunks>>

\* Mutant of Accepted: each chunk is taken to be as long as the first.
AcceptedAtFullLength(index, payload) ==
  /\ genuine(index, payload)
  /\ index \notin received_bitmap
  /\ status' = "RPC_OK"
  /\ received_bitmap' = received_bitmap \cup {index}
  /\ received_chunks' = received_chunks + 1
  /\ verified_bytes' = verified_bytes + Length[Content[0]]
  /\ buffer' = stored(index, payload)
  /\ UNCHANGED rejected_chunks

Accepted(index, payload) ==
  /\ genuine(index, payload)
  /\ index \notin received_bitmap
  /\ status' = "RPC_OK"
  /\ received_bitmap' = received_bitmap \cup {index}
  /\ received_chunks' = received_chunks + 1
  /\ verified_bytes' = verified_bytes + Length[payload]
  /\ buffer' = stored(index, payload)
  /\ UNCHANGED rejected_chunks

\* rpc_stream_record, on a fragment with its digest of the manifest: range,
\* then digest, then duplicate, in this order.
rpc_stream_record(index, payload) ==
  \/ OutOfRange(index)
  \/ Rejected(index, payload)
  \/ Duplicate(index, payload)
  \/ Accepted(index, payload)

\* Mutant of rpc_stream_next_missing: the search ends before the last chunk.
next_missing_but_last(start, i) ==
  /\ i \in start .. TotalChunks - 2
  /\ i \notin received_bitmap
  /\ \A j \in start .. i - 1 : j \in received_bitmap

\* rpc_stream_next_missing: i is the first index from start on that is missing.
rpc_stream_next_missing(start, i) ==
  /\ i \in start .. TotalChunks - 1
  /\ i \notin received_bitmap
  /\ \A j \in start .. i - 1 : j \in received_bitmap

rpc_stream_complete == received_chunks = TotalChunks

-----------------------------------------------------------------------------
\* The sender transmits a chunk.
Send(i) ==
  /\ Cardinality(network) < MaxInFlight
  /\ network' = network \cup {[index |-> i, payload |-> Content[i]]}
  /\ UNCHANGED <<state, status, buffer>>

\* The receiver asks for the first missing chunk, and the sender sends it again.
Retransmit ==
  \E i \in Chunks : rpc_stream_next_missing(0, i) /\ Send(i)

\* The fragment f arrives, as g if the network alters its index or its payload;
\* the network may deliver it again.
Deliver(f, g) ==
  /\ f \in network
  /\ rpc_stream_record(g.index, g.payload)
  /\ network' \in {network, network \ {f}}

Lose(f) ==
  /\ f \in network
  /\ network' = network \ {f}
  /\ UNCHANGED <<state, status, buffer>>

Next ==
  \/ \E i \in Chunks : Send(i)
  \/ Retransmit
  \/ \E f, g \in Fragments : Deliver(f, g)
  \/ \E f \in Fragments : Lose(f)

\* The receiver keeps asking, the network keeps no fragment for ever, and of
\* the fragments sent again and again some arrive as they were sent.
Fairness ==
  /\ SF_vars(Retransmit)
  /\ \A i \in Chunks :
       LET f == [index |-> i, payload |-> Content[i]]
           leaves == f \notin network'
       IN  /\ WF_vars((Lose(f) \/ \E g \in Fragments : Deliver(f, g)) /\ leaves)
           /\ SF_vars(Deliver(f, f))

Spec == Init /\ [][Next]_vars
FairSpec == Spec /\ Fairness

-----------------------------------------------------------------------------
\* The state has the shape of rpc_stream_state.
TypeOK ==
  /\ received_bitmap \subseteq Chunks
  /\ received_chunks \in Nat
  /\ rejected_chunks \in 0 .. Modulus - 1
  /\ verified_bytes \in Nat
  /\ status \in Statuses
  /\ DOMAIN buffer = received_bitmap
  /\ network \subseteq Fragments

\* The bytes of the chunks in S: the chunk of each and its place in the chunk.
bytes_of(S) == UNION {{i} \X (1 .. Length[Content[i]]) : i \in S}

\* The counters agree with the bitmap, through every loss, repetition and
\* alteration: each byte of the chunks received is counted once and no other,
\* and completion, which is decided by a counter, means that no bit is missing.
CountersMatchBitmap ==
  /\ received_chunks = Cardinality(received_bitmap)
  /\ verified_bytes = Cardinality(bytes_of(received_bitmap))
  /\ rpc_stream_complete <=> ~ \E i \in Chunks : rpc_stream_next_missing(0, i)

\* What is stored at an index is the payload of that chunk of the packet: "It
\* therefore detects reordering, cross-packet substitution, truncation and
\* payload modification when the expected digest comes from an authenticated
\* manifest."
StoredIsContent == \A i \in received_bitmap : buffer[i] = Content[i]

\* A fragment that is rejected or repeated leaves the receiver's account of the
\* packet alone, its bytes included, and a chunk once received stays received.
\* "The design fails if any test shows that: [...] a duplicate increments
\* received count or verified bytes" (VERIFIED_PACKET_CUSTODY_V1.md).
OnlyGoodFragmentsCount ==
  [][ /\ received_bitmap \subseteq received_bitmap'
      /\ received_bitmap' # received_bitmap <=> received_chunks' # received_chunks
      /\ verified_bytes' # verified_bytes => received_bitmap' # received_bitmap
      /\ received_bitmap' # received_bitmap => status' = "RPC_OK" ]_vars

\* The packet is complete in the end.
EventuallyComplete == <> rpc_stream_complete
=============================================================================
