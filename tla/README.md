# BLAKE3 and the RMR sidecars in TLA+

This directory models the hash function library of this repository (the C and Rust
hashers, their common tree, their parallel and SIMD parts, extendable output) and four
programs built beside it (packet custody, the freestanding supervisor, the crypto runtime,
the Custody16 scanner). TLC checks the models on small instances; TLAPS proves the safety properties that matter most for
every value of the constants.

Paths below are relative to `src/`.

## Inventory

| Part | State it keeps | Operations | What is hard | What makes it correct |
|---|---|---|---|---|
| Incremental C hasher, `c/blake3.c` | key, chunk state (chaining value, counter, buffer, blocks done), stack of chaining values | init (three modes), update, finalize, finalize_seek, reset | the message is cut anywhere; merging is lazy, steered by the bits of a counter; the root must not be compressed early | the digest depends on the concatenation only; the stack tiles the input, is aligned and fits; the root is left to finalize |
| Subtree recursion, `c/blake3.c`, `c/blake3_tbb.cpp`, `src/join.rs` | arrays in the frames of the calls | compress_subtree_wide, compress_subtree_to_parent_node | the halves run in any order, in one array; degree 1 is a special case | disjoint slots, no gap, the pair below the top of the tree |
| Dispatch, `c/blake3_dispatch.c` | one process-wide feature cache | get_cpu_features, simd_degree, hash_many, compress_in_place, compress_xof, xof_many | threads race to fill the cache; degree and back end are chosen by two reads and two lists of tests | only supported instructions, degree and back end agree, the cache never changes |
| SIMD back ends, `c/blake3_*.c` | none | hash_many, xof_many, compress | rounds on shuffled rows, words transposed into lanes and back, 64-bit counters in 32-bit lanes, groups of decreasing width | every word is the portable code's |
| SIMD assembly, `c/*.S` | none | the same | | not modelled: the same kernels, register by register |
| Reference implementation, `reference_impl/` | chunk state, stack of 54 | update, finalize | eager merging | the same digests, the stack is a binary counter |
| Rust hasher and hazmat, `src/lib.rs`, `src/hazmat.rs` | as C, and an initial chunk counter | update, reset, finalize, set_input_offset, finalize_non_root, merge_subtrees | a message hashed in parts by several hashers | a part is the node of the whole tree; merged parts are the whole |
| Extended output, `OutputReader`, `output_root_bytes` | block counter, position in the block | fill, seek | reads that begin and end within blocks, groups of lanes, the counter's carry | one stream of bytes, whatever the reads |
| Packet custody, `c/rafaelia_packet_custody.c` | bitmap and three counters | init, record, next_missing, complete | fragments lost, repeated, reordered, altered | counters and bitmap agree, only the packet is stored, it completes |
| Freestanding supervisor, `rmr/crypto_freestanding140/control/` | state, retries, sequence | init, step | answers late or lost, watchdog, operator | bounded attempts, confirmed commits, no resumption without the operator |
| File input, `src/io.rs`; `b3sum` | cursor, mapping; none | copy_wide, maybe_mmap_file; hash, check | files that change; names in a text format | not modelled |
| Custody16, `rmr/freestanding_custody16/` | scan context with 16 lanes, seal, three files | two scans of a tree, comparison, seal, three writes | the tree changes under the scans; reads are cut anywhere; a kill or a power failure between writes | the seal is of a tree that existed; a tree that stands still is never refused; the files tell whether they are of one run |
| Crypto runtime, `rmr/crypto/runtime/` | objects of OpenSSL, per call | 18 functions: digests, XOFs, HMAC, HKDF, PBKDF2, signatures, key agreement, AEAD | any call may fail with up to three objects held; lengths are reported by the library | each object freed once on every path; the code tells what happened |
| ATA record file, `rmr/runtime/` | a file | write 42 records, sync | a crash while writing | not modelled yet |
| Scan and manifest, `rmr/core/scan.c` | manifest | recursive walk | entries vanish or change, errors dropped | not modelled yet |
| Other RMR programs (`rmr/core`, `hwif`, `android`, `pai42`, `portable`, ...) | | commands, measurements, user interface | | not modelled: no protocol |

How they interact: a hasher calls the subtree recursion, which asks the dispatch for a
degree and hands it arrays of chunks; the dispatch calls a back end. finalize makes an
Output which the reader expands. Packet custody and the file commands are callers of the
public hasher interface; so is the crypto runtime, whose other digests are OpenSSL's. The
supervisor and Custody16, which brings its own CRC and SHA-256, are independent of the hash.

## Modules

Data are abstract throughout: the compression function is a record of its arguments,
never computed, so that two chaining values are equal exactly when they were computed
from the same arguments. A data block is where its bytes lie in the message and how many
they are.

| Module | Models | State and actions |
|---|---|---|
| `HashTree` | the tree: outputs, chaining values, `left_subtree_len`, `popcnt`, `round_down_to_power_of_2`, and the hash of a whole message by recursion over the tree (`Hash`) | constants `BlockLen`, `ChunkLen`; no state |
| `ChunkState` | `chunk_state_*` of `blake3.c` (and the same code of `lib.rs`) | operators on a record `[cv, counter, blocks, buf, flags]` |
| `StreamHash` | what an incremental hasher promises | `absorbed` bytes and the last `digest`; `Absorb`, `Finalize`, `Reset` |
| `Blake3Hasher` | the C hasher | `key`, `chunk`, `stack` as in `blake3_hasher`; `pc`, `pos`, `rem`, `pushes` are the local variables of `blake3_hasher_update_base`. `UpdateCall` is its entry, `FinishPartialChunk` the partial chunk, `HashSubtree` one turn of the loop, `PushMerge` and `PushEntry` `hasher_push_cv`, `AbsorbTail` and `FinalMerge` the end |
| `RefHasher` | `reference_impl.rs` | one action per turn of the update loop |
| `HazmatHasher` | the Rust hasher with `set_input_offset`, and a caller who keeps a part and merges it with the next | `initial` is `initial_chunk_counter`; `held` is the caller's part and its chaining value, or at the root its hash |
| `SubtreeWide` | `compress_subtree_to_parent_node` as tasks | one task per call of `blake3_compress_subtree_wide`, the arrays of their frames with uninitialised slots; `HashChunks`, `Fork`, `Join`, `Condense` |
| `LaneCounters` | the counters of SIMD lanes, three ways to carry, and the groups of each back end | operators, parameterised by the number of values of a word |
| `Dispatch` | threads in `get_cpu_features` and the five functions that dispatch | `g_cpu_features` shared; the read and the store of the cache are separate steps, and so are `blake3_simd_degree` and the `blake3_hash_many` sized by it. `built` is what the `BLAKE3_NO_...` macros leave, `cpu` and `os` what cpuid and xgetbv say |
| `Vectors` | words and vectors, and the x86 and NEON intrinsics as rearrangements of lanes | no state; a word is the expression that computed it, a sum the bag of its terms |
| `KernelPortable` | `blake3_portable.c` | operators |
| `LaneKernel`, `RowKernel` | the two kernels of every SIMD file: one input per lane, and one block in four rows | operators, parameterised by rotations and blend |
| `KernelSse2`, `KernelSse41`, `KernelAvx2`, `KernelAvx512`, `KernelNeon` | one file each: its rotations, blends, transpositions and widths | operators; `KernelAvx512` has `xof_many` too |
| `SimdKernels` | calls of a back end | `HashGroup` and `XofGroup` are one turn of a loop of `hash_many` and `xof_many`, `Round` one round of a compression in rows |
| `OutputStream`, `OutputReader` | the stream and its readers | `counter`, `within`; `Fill`, `SeekTo`, `output_root_bytes` |
| `PacketCustody` | receiver and network | the fields of `rpc_stream_state`, the stored payloads, the fragments in flight |
| `Cf140Guard`, `Cf140Board` | the supervisor; the board that hosts it | fields of `rmr_cf_guard`, the action returned; the board's work in progress |
| `CryptoRuntime` | the crypto runtime and OpenSSL's results | a function is a sequence of steps (ask for an object, test, call, decide) read off its body; `object`, `frees` say which objects are held and still to be freed, `n`, `total` are the code's locals, `filled` the buffers written |
| `Custody16` | the program of the Linux adapter, the programs that change its tree, kills and power failures | `stack` the directories open, `fd` the file open, `ctx` the `rmr_fc16_context`, one action per system call that sees the tree (`StatFile`, `CountFile`, `BeginFile`, `ReadFile`, ...), `Compare`, `WriteFile` |
| `MC*` | instances for TLC | |
| `HashTreeProofs` | lemmas: induction and recursion, the tree, chunk states, stacks of subtrees from any first chunk | |
| `Blake3HasherProofs`, `RefHasherProofs`, `HazmatHasherProofs`, `SubtreeWideProofs` | proofs about the module named, for the first two also that it implements `StreamHash` | |
| `LaneProofs` | proofs about `Dispatch`, `LaneCounters` and `OutputReader`, which share the groups of lanes | |
| `FreestandingProofs` | proofs about the two freestanding programs, `Cf140Guard` with `Cf140Board` and `Custody16` | |
| `RmrProofs` | proofs about `PacketCustody` and `CryptoRuntime` | |

`HashTree` <- `ChunkState` <- `Blake3Hasher`, `HazmatHasher`, `SubtreeWide`; `HashTree` <-
`RefHasher`, `StreamHash`; `LaneCounters` <- `Dispatch`, `OutputReader`, `KernelPortable`; `Vectors` <- `KernelPortable` <-
`LaneKernel`, `RowKernel` <- the five `Kernel...` <- `SimdKernels`. `Blake3Hasher` and
`RefHasher` instantiate `StreamHash`, `OutputReader` instantiates `OutputStream`.

Where one module of proofs extends two specifications, their variables and definitions have
names of their own (`ReaderInit`, `BoardNext`, `RuntimeSpec`, ...). Its theorems are
about one of them each, and use the assumptions of that one only.

The hasher's whole subtree is one step in `Blake3Hasher` (`cv_pair`); that the recursion
really computes that pair, in every order of its tasks, is what `SubtreeWide` checks
(`PairIsTopOfTree`); that the back end chosen is one that may run, and as wide as promised,
is what `Dispatch` checks; and that each back end computes for each chunk, under its own
counter, what the portable code does is what `SimdKernels` checks. The four together stand
for the whole call.

The kernels are checked in two stages. `RoundsAgree` expands a round of every back end down
to its additions, xors and rotations, on words that are still symbols, and finds the words of
the portable round; seven rounds are then one symbol for all (`Permuted`), and
`HashManyAgrees` and `XofManyAgrees` check what surrounds them: transposition, counters,
flags, chaining, groups and the place of every output word.

What the code does not keep: stack entries carry the first chunk and the number of chunks
they stand for, `mode` and `confirmed`, `attempts`, `failed` are histories. No guard reads
them.

A name with a comment "Mutant of ..." is a plausible wrong version of the definition that
follows it. The specifications do not use it; it is there to try each property against.

## Runs

| Run | Checks | Bounds, and why they are enough |
|---|---|---|
| `stream_hash` | the C hasher implements `StreamHash`; the stack tiles, aligns, fits; the root is left alone; updates return | chunks of 2 blocks of 2 bytes, messages up to 64 bytes, 16 chunks: 4 levels of merging, every cut into calls, the stack filled to its last slot; modes `hash` and `derive` (with and without a derived key) |
| `reference_hash` | the reference implements the same `StreamHash` | up to 8 chunks, three modes |
| `hazmat_parts` | a part is the node of the whole tree; merged parts are a node, and at the root the hash of the whole message; the debug_asserts hold | up to 10 chunks of 2 one-byte blocks, any cut the code allows |
| `hazmat_reset` (violation) | reset is a new hasher, with hashers that have an offset | as above |
| `subtree_wide` | slots, gaps, the root, the pair | degrees 1, 2, 4 in a build for 4; 17 lengths, up to 8 leaf calls: at least two levels of forks for each degree. The computation ends with the pair, so this run does not check deadlock |
| `dispatch` | supported instructions, degree and back end, the cache | two threads, every processor generation, system and seven builds of x86, and the two other architectures; an `xof_many` of two blocks goes through its loop twice |
| `simd_kernels` | rounds, `hash_many`, `xof_many` of every back end against the portable code | 0, 1, 3, 4, 7, 8, 15, 16 and 31 inputs: each group alone, repeated, and with each rest; 1 and 3 blocks: first, middle and last; counters at 0, before the carry and before the wrap, with words of 32 values, the fewest that 16 lanes allow |
| `output_stream` | reader and C function implement `OutputStream` | blocks of 2 bytes; reads up to 17 blocks and a byte: every group of lanes, across the carry at block 32 of words of 32 values |
| `packet_custody` | counters, bitmap, bytes, storage, completion | three fragments, two with the same payload and one of another length, one alien payload, two in flight |
| `guard_board` | budget, resumption, commits, no endless wait | two transactions, a retry limit of 1, requests from 0 to 2 (one is clamped); late and lost answers at every point |
| `crypto_runtime` | objects and codes | every function and algorithm, any one pointer NULL, lengths 0, 1 and more than an `int` holds, a capacity on each side of each digest size, each OpenSSL call failing or not |
| `custody16` | the seal, false alarms, the three files | a file of 0 or 4 bytes, two of one and no byte, a link and a directory; blocks of 2 bytes, 2 lanes, reads of 1 to 4 bytes: head, whole blocks and tail, each alone and each two of them in one call; more entries than fit if both small files are there; two changes at any two moments of the first run, each a rewrite in place, an append or truncation, a creation, a removal or a renaming over; two runs, a kill at any moment, and in the last run a power failure that leaves each file as it is, as it was, or torn. Nothing happens once the last run has ended, so this run does not check deadlock |

The remaining bounds are named in the modules (`MaxTotal`, `MaxInFlight`, `MaxChanges`, ...).

`SealedIsTreeBetween` rests on one assumption about the other programs: a byte, a length or
an absence that was changed does not come back while the program runs. Two readings cannot
see a change that is undone between them, so nothing more can be asked of two scans. In the
model each change writes bytes of its own and a length the file has not had.

### Fairness

- `stream_hash`: weak fairness of the steps inside an update. They are the caller's own
  thread; nothing blocks in it.
- `packet_custody`: `Retransmit` is strongly fair (a receiver that is not complete asks
  again), no fragment stays in the network for ever, and a fragment sent again and again
  arrives unaltered at some time. The last two are assumptions on the network, without
  which no protocol completes.
- `guard_board`: weak fairness of the watchdog only: it is a hardware timer. No fairness of
  answers.

### Findings

- `Hasher::reset` (`src/lib.rs:1164`) keeps `initial_chunk_counter`, so that after
  `set_input_offset` it does not do what its documentation (`src/lib.rs:1162`) says.

Two more observations have no run of their own:

- `rmr_crypto_aead_encrypt` and `rmr_crypto_aead_decrypt` accept an empty payload with data
  to authenticate (`rmr_crypto_openssl.c:588`, `:656`), and then always return -1: `n` still
  holds the length of that data (`:611`, `:679`) when it is compared with the length of the
  payload (`:626`, `:703`). `ReturnTells` states the codes as they are and names this
  case `OnlyAad`; decryption refuses a genuine message in the same way.
- The comment at `c/blake3.c:624` says the top of the stack is a chunk hash when the chunk
  state is empty. After an update of several whole chunks it is the right half of a
  subtree. The code is right (`NoUnmergedPair`, `TwoEntriesToFinalize`, `StreamSpec`).

## Proofs

All theorems are of the specifications above, for every value of the constants allowed by
their assumptions, and every proof is checked to its leaves. The assumptions are those of
the modules: a block length that divides a chunk length that is a power of two, a message that fits
in `2^MaxDepth` chunks (in the code 54 and 2^64 bytes), a manifest for the packet, a retry limit that is a number,
words of an even number of values, at least 32, a last position whose block has a counter of two words,
and for `Custody16` finitely many directories in which each entry has one place.

**The C hasher** (`Blake3HasherProofs`). Proved: every invariant its run checks. None is
inductive as it stands. The first inductive invariant is `HasherInv`, which has four parts:

- `Typed`: ranges;
- `ChunkInv`: the chunk state is well formed, accounts for every byte, is empty in the
  loop over subtrees and not empty where a partial chunk is finished;
- `StackInv`: the stack covers the chunks up to the first one still to be pushed, and the
  calls of `hasher_push_cv` still to be made cover the rest, each with the number of its
  first chunk as its counter. This is what makes merging safe: a push merges by a counter
  that says how many chunks the stack stands for;
- `RootInv`: once the input is taken and the chunk state is empty, at least two entries are
  on the stack or on their way to it.

From it follow `TypeOK`, `BytesAccounted`, `Tiled`, `RootNeverCompressed` and
`TwoEntriesToFinalize`. The lemmas follow the code: `UpdatedChunk` (what `chunk_state_update` does
to the length), `SubtreeIsWhole` (the halving loop ends at a power of two of chunks that
divides the counter), `AppendCovers` and `MergeCovers` (push and merge preserve the cover),
`TwoToMerge` (a stack longer than the number of 1 bits of a positive counter has two
entries to merge), `HasherStepInv` (one step per action).

The second, `BinaryInv`, is inductive together with the first. It says that the stack is the
binary representation of the counter, although merging is late and runs behind it: the
entries are complete subtrees, and the number of the first chunk of the i-th has i - 1 one
bits (`Binary`). That is what `hasher_merge_cv_stack` relies on when it merges until the
stack is no longer than the number of one bits: the two entries it merges are equal in
size and begin at a multiple of twice that size (`MergeBinary`), and an entry pushed
behind them begins where the stack has as many entries as its number has one bits
(`AppendBinary`, from `BinaryLength`). It gives `AlignedSubtrees`, `NoUnmergedPair` and, since a number
below `2^MaxDepth` has at most `MaxDepth` one bits, `StackFits`.

**The C hasher computes the tree hash** (`Blake3HasherProofs`). `HasherImplementsStream`: every behaviour of
the hasher is one of `StreamHash`, with `absorbed` mapped to `pos + rem`. A call of update
absorbs all its bytes in the step that enters it, the steps inside it are stutters, and what
`finalize` returns is the root of the tree over the bytes absorbed. Two things are needed
beyond `HasherInv` and `BinaryInv`:

- `ContentInv`: the chunk state is that of the bytes behind the stack (`Holding`), and every
  chaining value on the stack or on its way to it is that of the subtree it stands for
  (`IsSubtree`). It is preserved because a merge joins siblings of equal size (`SiblingsMerged`,
  which needs `BinaryInv`) and because a chunk state depends on the number of bytes absorbed
  and not on the calls (`UpdatedHolding`).
- `FinalOutput`: the roll-up of `finalize` computes the root. The tree cuts n bytes at the
  largest power of two of chunks below n; the stack was built without knowing n. They agree:
  each entry covers at least half of what it and everything behind it cover, and not all of it (`Spine`), so the tree from an entry on is cut where the entry ends
  (`EdgeIsParent`), and the fold from the chunk state, or from the two top entries when the
  chunk state is empty, climbs the right edge of the tree.

**The reference hasher** (`RefHasherProofs`). `StackAlwaysBinaryCounter` and
`ReferenceImplementsStream`: the reference implements the same `StreamHash`, so both hashers return
the same hash for the same input. Its stack has no labels, so the invariant `RefInv` says
that there are labels under which it is a stack of subtrees with one entry for each 1 bit of
the number of chunks (`Counts`). `add_chunk_chaining_value` merges once for each trailing zero
of the new count; `ZerosCount` (the 1 bits of x + 1 and its trailing zeros are together one more
than the 1 bits of x) is why that leaves the right number of entries (`AddedCounts`). Its chunk
state flushes a full block only when more input comes, one turn of a loop for each block;
`UpdatedChunkHolding` shows that this gives the same `Holding` as the C code. `RefFinalOutput` is its fold.

**The Rust hasher and its parts** (`HazmatHasherProofs`). `AssertsHold` and `MergedIsTree`: both invariants
of the run `hazmat_parts`, for every chunk and block length, message, offset and cut. The stack
counts chunks from the offset (`merge_cv_stack` subtracts it), so with labels it is a binary
counter of them, as in the reference (`MergedCounts`, `PushedStands`), and `update` stands between calls
with at most one pair unmerged, which is what the assertions are about. That those entries
are nodes of the tree of the *whole* message, whose chunk numbers do not start at the offset,
needs the limit of `set_input_offset`: what is behind an offset is at most `trailing_power` of it
chunks, a power of two that divides it (`TrailingPowerDivides`), so a subtree aligned when counted
from the offset is aligned in the message too. `HashingInv` therefore has a part `LimitInv` next
to the types, the chunk state and the stack. `FinalOutput` is the fold, up the right edge of the
part (`PartEdge`, the lemma of the C hasher with a first chunk that is not 0). `HeldInv` says what
the caller holds: the value of the node over its bytes. A merge is one again because
`left_subtree_len` is the largest power of two below the length (`LeftIsPower`), so the two parts are
the sides of a node (`MergedNode`); at the root that is the hash of the message.
Both theorems assume `ReuseOffsetHashers = FALSE`: no caller resets a hasher whose offset is set.
With such a caller the code restarts the chunk counter at 0 and keeps the offset, which is the
finding of `hazmat_reset`; `chunk.counter - initial` is then negative, so `AssertsHold` would be false.

**The recursion over subtrees** (`SubtreeWideProofs`). Every invariant of `SubtreeWide`: `SlotsNeverShared`,
`NoGapEver`, `RootNeverCompressed` and `PairIsTop`, for every length of more than a chunk, every chunk length and
every degree that is a power of two. The values a call returns are those of subtrees of
different sizes, so they are no layer of the tree. What is true of them is that merging
them, the left side as large a power of two of the values as leaves one for the right,
gives the chaining value of the call's own subtree (`Condensed`). Hashing chunks gives such
values (`ChunksCondensed`), a layer of parents keeps them such (`CondensedLayer`), and so does
putting those of the right side behind those of the left one, provided that the left ones
are a power of two and no fewer than the right ones (`CondensedSides`). How many there are is
`CountOK`: one only for a chunk or less, at most `Cap` (the degree, but two for a degree of
one), and exactly that for a full power of two of chunks; `SidesCount` concludes that the left
side fills its slots and `JoinedCount` that a join returns such a number again. `SubtreeInv` says
this of every call that has returned, and that calls are nested or apart (`Nested`), so that a
fork never makes a call that exists, and the slots of two calls with the same caller are
disjoint (`SlotsApart`): writing what one returns leaves what another returned as it was
(`ReturnStep`), in any order. `CondensedToTwo` is the loop of the outermost caller.

**The tree and arithmetic** (`HashTreeProofs`). What the three hashers rest on: `TreeOutput`, the
reference definition, which is a recursive function, satisfies its equations
(`TreeOutputRecursion`, `TreeOfSides`); the output of a chunk state is that of the reference chunk
(`HoldingOutput`); push and merge preserve a stack that covers a prefix of the chunks, is binary and
holds subtrees (`AppendCovers`, `JoinCovers`, `AppendBinary`, `JoinBinary`, `JoinContent`).
`round_down_to_power_of_2` gives the largest power of two below, the halving loop ends at a
power of two that divides the bytes so far, and `popcnt` grows by one or not at all behind an
aligned subtree (`PopcntOfNextSubtree`). These are about recursive functions, and the library's
induction theorems take operators as parameters, which the provers at hand cannot
instantiate. `HashTreeProofs` therefore states induction over sets (`StrongInduction`) and proves that
recursive functions exist (`RecursiveFunctionExists`).

**Dispatch** (`LaneProofs`). `OnlySupportedInstructions`, `DegreeMatchesBackend` and `CacheStable`, for
any number of threads, from `DispatchInv`: the cache is `UNDEFINED` or what a detection finds on
this machine, and every thread past `get_cpu_features` holds what a detection finds, whoever
stored it. Two calls of one thread then choose by the same features.

**Lanes and extended output** (`LaneProofs`). `LanesCarry`: the carry by comparison, by the sign bit and by
splitting the sum all give a lane the counter plus its number, modulo two words, for every
counter; the sign bit needs lanes that number less than half a word, which is why
`LaneAssumption` asks for 32 values and sixteen lanes are the most. `CountersRight`: the counters of n
blocks in groups of 16, 8, 4 and 1 (or what a back end has) are consecutive, by induction over
what is left (`WidestFits` and the lemmas around it: the widest group that fits is one of the
back end's, so the recursion ends). From these follows `ReaderImplementsStream`: `OutputReader`, which moves by a piece of a
block, whole blocks and another piece, and `output_root_bytes`, which starts afresh at each
call, are the one stream of bytes addressed by position. The invariant `ReaderInv` is that the place within the block is
less than a block and the position no more than the last one; the byte at position p is byte
`p % BlockLen` of block `p \div BlockLen` on each of the three paths. That no counter of a block wraps is a
consequence of the last position, which `OutputAssumption` bounds.

**Packet custody** (`RmrProofs`). `TypeOK`, `CountersMatchBitmap`, `StoredIsContent` and
`OnlyGoodFragmentsCount`. The invariants are that the counter is the size
of the bitmap and that `verified_bytes` is the size of the set of the bytes of the chunks whose bit is set
(`BytesCounted`): an accepted chunk adds as many pairs of a chunk and a place as it is long (`ChunkBytes`), and none that was there. The
network is unbounded here.

**The crypto runtime** (`RmrProofs`). `ObjectsCorrect` and `ReturnCorrect`: both properties of the run
`crypto_runtime`, for every set of lengths and capacities and every `INT_MAX`. The argument has two halves. *What a right function
is* (`Right`): there are tables that say, for each place of its body, which objects
have been asked for and tested, which buffers were filled, and which lengths were
reported, such that objects are tested after they are asked for and used after they are
tested, an exit that frees nothing has nothing else to free, every object asked for is freed
once (`Careful`), and the lengths and buffers are what the tests and the caller expect
(`Exact`). `RuntimeInv` says that a call in progress is where its tables say (`Progress`), one that
is freeing still has every live object before it (`Freeing`), and one that is to return tells what
`ReturnTells` asks (`Told`); each action preserves it, whichever calls fail. *Every function is right*
(`FunctionsRight`): the tables of a body are built step by step with it (`Reaches`, with one lemma for
each kind of step), once for each of the shapes the eighteen functions have, and for the ciphers
through the four combinations of data to authenticate and payload (`HeadReaches`).

**The supervisor** (`FreestandingProofs`). `GuardInv` (in a transaction the attempts are the
retries and one) is proved of the guard alone, under any events; `BoardDrivesGuard` shows
that every behaviour with a board is one of the guard, which carries `AttemptsWithinBudget`,
`ResetBeforeResume` and `GuardTypeOK` over; `CommitConfirmed` needs the board and an invariant
of its work in progress.

**The files of Custody16** (`FreestandingProofs`). `VerifiedCorrect`: if seal, archive and digest verify together
they are of one run, for any number of runs, kills and power failures at any moment. `WrittenInv` says what
each file can hold: the bytes of some run, a torn rest of them, or nothing, and never a digest
of another run's seal or archive.

**The two scans of Custody16** (`FreestandingProofs`). `NoFalseAlarmRaised`: two scans of a tree that nothing
changes agree, for every tree, every block and read size, and however each read is cut.
`DataTwice` is why the cuts leave no trace: a byte goes to the lane and the place in a block
that its position in the file gives (`PlacedByPosition`), so hashing two pieces is hashing
them joined. The inductive invariant `ScansAgree` is that, while nothing has changed, the state is a place in the
one walk of the tree (`Walked`: the steps of `WalkStep` are a function, so two finished walks
saw the same, `WalksEndAlike`), and that an open file's context is what `Fed` gives for the bytes read so far.

**The seal of Custody16** (`FreestandingProofs`). `SealedCorrect`: two scans that agree have sealed
the whole tree as it was when the first had ended, whoever creates, extends, truncates or
removes files between any two steps of either scan, as long as no byte, length or absence that was
changed comes back (the assumption stated under Runs). `SealIsTrue` is invariant together with `ScansAgree`. It
says two things:

- of a scan, `Accounts`: every entry below a listed directory is logged or still pending, once
  and in the place the tree gives it (`Placed`); a file that is neither was absent when its directory was
  listed (`Found`); no byte logged is of a later change (`OldBytes`), and a size that was logged
  is one the file had, or the byte logged at its end is gone from the tree (`Sized`). `Later` says how the tree can differ from that at the end of
  the first scan: bytes written since are new, and are in no log that ended before.
- of the second scan, `Agreeing`: as long as its log is a prefix of the first one, that log with what
  the tree of the first scan's end has for the pending entries is the log of that tree. So at the
  end, when nothing is pending, the first log is `LogOf` it.

For a file the argument is that its second record can only repeat the first if the file then had
that size and those bytes, and what both scans saw is what it had in between. The cases are those of
a file that is being read: what is still unread (`OpenFileKnown`), the bytes read
(`OpenFileAgrees`) and the size announced before them (`SizeAgrees`). The recursion of
`LogOf` is a recursive function over the height of a finite tree (`EntryLogs`), and each change of a file has a lemma (`Changing`). This
proof needs what TLC's instances satisfy without being told: a byte is not taken for the head
of an entry. In the code the head contains the size, so that it tells where the bytes end; in the
model the bytes of a log are tagged (`logged`).

Only model-checked: `RoundsAgree`, `HashManyAgrees` and `XofManyAgrees` of `SimdKernels`,
which compare what recursive folds over seven rounds and whole lists of blocks compute, symbol by symbol, so that a
proof would be the computation itself;
and liveness (`UpdateReturns`, `EventuallyComplete`, `WaitingEnds`), which is out of the prover's reach.

## Not modelled

- The arithmetic of 32-bit words (addition, xor and rotation are symbols with their laws of
  commutation) and the assembly: register-level code, covered by the test vectors.
- What OpenSSL computes, and the two name tables of the crypto runtime.
- In Custody16: directories that are created, removed or replaced during a scan, a listing
  that takes several `getdents` calls, a path longer than `MAX_PATH`, a program that keeps
  writing to a file after its name is gone, the thermal readings (a refusal is a choice),
  the byte layout of seal and archive, and the delta, median and benchmark helpers the
  program does not use. Hashes are what they are computed from: collisions are not considered.
- A data race on the feature cache in a build without `BLAKE3_ATOMICS` is modelled as a
  read or store of a whole `int`, which is what the builds give.
- Lengths of 2^64 bytes and more; output past 2^64 bytes, which is documented as unspecified.
- `rpc_manifest_root` and the authentication of the manifest, which the code leaves to
  the caller. A digest is the tuple it is computed from: collisions are not considered.
- A board that goes on with the work of an attempt the guard ended may deliver an old
  acknowledgement as a new one, since the events name no attempt. `CommitConfirmed` is
  stated for boards that abandon such work; the contract does not decide it.
- The components listed above as not modelled, and those listed in `PROJECT.json`.

## Plan

Done, in this order: `HashTree`, `ChunkState`, `StreamHash`, `Blake3Hasher` and its proofs; `RefHasher`;
`HazmatHasher`; `SubtreeWide`; `LaneCounters`, `Dispatch`; `OutputReader`; `PacketCustody`; `Cf140Guard`
and `Cf140Board` with proofs; the kernels and `SimdKernels`; `CryptoRuntime`; `Custody16`; the proofs about
`Dispatch`, that the stack of the C hasher is binary, that the C hasher implements `StreamHash`, that
the reference does, about `SubtreeWide` and `HazmatHasher`, that `OutputReader` implements
`OutputStream`, about `CryptoRuntime`, and about the files, the two scans and the seal of `Custody16`.

To do, in order:

1. `AtaFile`: the writer with a crash at any step, the decoder as the reader after it.
2. `ScanManifest`: the walk over a tree that changes, with the errors that are dropped.
3. `CheckFile`: the lines `b3sum` writes and reads, as operators with a round trip.
4. `FileInput`: the mapping and the read loop on a file that changes.
