----------------------------- MODULE LaneProofs -----------------------------
(***************************************************************************)
(* Proofs about the lanes.  Which back end is chosen: whatever the         *)
(* interleaving of the threads, each one that has called get_cpu_features  *)
(* holds the same set of features, the one that every detection stores,    *)
(* and the back end it picks needs no others.  How the back ends count:    *)
(* in groups of lanes, with three computations of the carry, each counts   *)
(* its inputs as if they were counted one by one.  What the output reader  *)
(* makes of the blocks: the bytes of one stream.                           *)
(***************************************************************************)
EXTENDS Dispatch, OutputReader, FiniteSetTheorems, WellFoundedInduction, SequenceTheorems,
        TLAPS

\* What get_cpu_features returns to every caller.
found == IF arch = "x86" THEN detected ELSE {}

-----------------------------------------------------------------------------
(* The choice of a back end. *)

\* The first of the candidates that fits is where the tests of the code stop.
LEMMA FirstOf ==
  ASSUME NEW candidates, NEW features, NEW else, NEW n \in Nat, DOMAIN candidates = 1 .. n
  PROVE  /\ \A i \in 1 .. n :
              /\ candidates[i][1] \in built /\ candidates[i][2] \subseteq features
              /\ \A j \in 1 .. n : j < i => ~ (/\ candidates[j][1] \in built
                                             /\ candidates[j][2] \subseteq features)
              => first_of(candidates, features, else) = candidates[i][1]
         /\ (\A j \in 1 .. n : ~ (/\ candidates[j][1] \in built
                                  /\ candidates[j][2] \subseteq features))
              => first_of(candidates, features, else) = else
<1> DEFINE fit == {j \in 1 .. n : /\ candidates[j][1] \in built
                                  /\ candidates[j][2] \subseteq features}
           least == CHOOSE m \in fit : \A j \in fit : m <= j
<1>1. first_of(candidates, features, else) = IF fit = {} THEN else ELSE candidates[least][1]
  BY DEF first_of
<1>2. ASSUME NEW i \in fit, \A j \in 1 .. n : j < i => j \notin fit
      PROVE  least = i
  <2>1. \A j \in fit : i <= j
    BY <1>2, SMT
  <2>2. least \in fit /\ \A j \in fit : least <= j
    BY <2>1
  <2> HIDE DEF least
  <2>3. least \in Nat /\ i \in Nat /\ least <= i /\ i <= least
    BY <2>1, <2>2, SMT
  <2>4. QED
    BY <2>3, SMT
<1> HIDE DEF least
<1>3. QED
  BY <1>1, <1>2

\* One of three candidates that is returned fits.
LEMMA FirstOfSome ==
  ASSUME NEW candidates, NEW features, NEW else, DOMAIN candidates = 1 .. 3
  PROVE  LET first == first_of(candidates, features, else)
         IN  \/ first = else
             \/ \E i \in 1 .. 3 : first = candidates[i][1] /\ candidates[i][2] \subseteq features
<1> DEFINE fit == {j \in 1 .. 3 : /\ candidates[j][1] \in built
                                  /\ candidates[j][2] \subseteq features}
           least == CHOOSE m \in fit : \A j \in fit : m <= j
<1>1. first_of(candidates, features, else) = IF fit = {} THEN else ELSE candidates[least][1]
  BY DEF first_of
<1>2. ASSUME fit # {}
      PROVE  least \in fit
  <2>1. fit \subseteq {1, 2, 3}
    BY SMT
  <2> HIDE DEF fit
  <2>2. \E m \in fit : \A j \in fit : m <= j
    <3>1. CASE 1 \in fit
      BY <2>1, <3>1, SMT
    <3>2. CASE 1 \notin fit /\ 2 \in fit
      BY <2>1, <3>2, SMT
    <3>3. CASE 1 \notin fit /\ 2 \notin fit
      <4>1. fit = {3}
        BY <1>2, <2>1, <3>3
      <4>2. QED
        BY <4>1, SMT
    <3>4. QED
      BY <3>1, <3>2, <3>3
  <2>3. QED
    BY <2>2
<1>3. QED
  BY <1>1, <1>2

\* blake3_hash_many, test by test.
LEMMA HashManyTests ==
  ASSUME NEW features
  PROVE  hash_many_backend(features) =
           IF "avx512" \in built /\ {"AVX512F", "AVX512VL"} \subseteq features THEN "avx512"
           ELSE IF "avx2" \in built /\ "AVX2" \in features
                THEN IF "sse41" \in built THEN "avx2" ELSE "avx2_portable"
           ELSE IF "sse41" \in built /\ "SSE41" \in features THEN "sse41"
           ELSE IF "sse2" \in built /\ "SSE2" \in features THEN "sse2"
           ELSE IF arch = "neon" THEN "neon" ELSE "portable"
<1> DEFINE else == IF arch = "neon" THEN "neon" ELSE "portable"
           c == <<<<"avx512", {"AVX512F", "AVX512VL"}>>, <<"avx2", {"AVX2"}>>,
                  <<"sse41", {"SSE41"}>>, <<"sse2", {"SSE2"}>>>>
           b == first_of(c, features, else)
           fits(i) == c[i][1] \in built /\ c[i][2] \subseteq features
<1>1. hash_many_backend(features) = IF b = "avx2" /\ "sse41" \notin built THEN "avx2_portable" ELSE b
  BY DEF hash_many_backend
<1>2. DOMAIN c = 1 .. 4 /\ 1 .. 4 = {1, 2, 3, 4} /\ 4 \in Nat
  BY SMT
<1>3. /\ c[1][1] = "avx512" /\ c[2][1] = "avx2" /\ c[3][1] = "sse41" /\ c[4][1] = "sse2"
      /\ c[1][2] = {"AVX512F", "AVX512VL"} /\ c[2][2] = {"AVX2"}
      /\ c[3][2] = {"SSE41"} /\ c[4][2] = {"SSE2"}
  OBVIOUS
<1> HIDE DEF c, else
<1>4. /\ fits(1) => b = "avx512"
      /\ ~ fits(1) /\ fits(2) => b = "avx2"
      /\ ~ fits(1) /\ ~ fits(2) /\ fits(3) => b = "sse41"
      /\ ~ fits(1) /\ ~ fits(2) /\ ~ fits(3) /\ fits(4) => b = "sse2"
  <2>1. \A i \in 1 .. 4 :
          /\ c[i][1] \in built /\ c[i][2] \subseteq features
          /\ \A j \in 1 .. 4 : j < i => ~ (c[j][1] \in built /\ c[j][2] \subseteq features)
          => first_of(c, features, else) = c[i][1]
    <3>1. DOMAIN c = 1 .. 4 /\ 4 \in Nat
      BY <1>2
    <3>2. QED
      BY <3>1, FirstOf, ZenonT(30)
  <2>2. \A i \in 1 .. 4 : fits(i) /\ (\A j \in 1 .. 4 : j < i => ~ fits(j)) => b = c[i][1]
    BY <2>1
  <2> HIDE DEF fits, b
  <2>3. \A i \in 1 .. 4 :
          (i = 1 \/ (i = 2 /\ ~ fits(1)) \/ (i = 3 /\ ~ fits(1) /\ ~ fits(2))
                 \/ (i = 4 /\ ~ fits(1) /\ ~ fits(2) /\ ~ fits(3)))
            => \A j \in 1 .. 4 : j < i => ~ fits(j)
    BY <1>2, SMT
  <2>4. QED
    BY <1>2, <1>3, <2>2, <2>3
<1>5. ~ fits(1) /\ ~ fits(2) /\ ~ fits(3) /\ ~ fits(4) => b = else
  <2> SUFFICES ASSUME ~ fits(1), ~ fits(2), ~ fits(3), ~ fits(4)
               PROVE  b = else
    OBVIOUS
  <2>1. \A j \in 1 .. 4 : ~ (c[j][1] \in built /\ c[j][2] \subseteq features)
    BY <1>2
  <2>2. first_of(c, features, else) = else
    BY <1>2, <2>1, FirstOf
  <2>3. QED
    BY <2>2
<1>6. /\ fits(1) <=> "avx512" \in built /\ {"AVX512F", "AVX512VL"} \subseteq features
      /\ fits(2) <=> "avx2" \in built /\ "AVX2" \in features
      /\ fits(3) <=> "sse41" \in built /\ "SSE41" \in features
      /\ fits(4) <=> "sse2" \in built /\ "SSE2" \in features
  BY <1>3
<1> HIDE DEF fits, b
<1>7. QED
  BY <1>1, <1>4, <1>5, <1>6 DEF else

\* blake3_compress_in_place and blake3_compress_xof return one of these.
LEMMA CompressTests ==
  ASSUME NEW features
  PROVE  LET b == compress_backend(features)
         IN  \/ b = "avx512" /\ "AVX512VL" \in features
             \/ b = "sse41" /\ "SSE41" \in features
             \/ b = "sse2" /\ "SSE2" \in features
             \/ b = "portable"
<1> DEFINE c == <<<<"avx512", {"AVX512VL"}>>, <<"sse41", {"SSE41"}>>, <<"sse2", {"SSE2"}>>>>
           b == first_of(c, features, "portable")
<1>1. compress_backend(features) = b
  BY DEF compress_backend
<1>2. DOMAIN c = 1 .. 3
  BY SMT
<1>3. /\ c[1] = <<"avx512", {"AVX512VL"}>> /\ c[2] = <<"sse41", {"SSE41"}>>
      /\ c[3] = <<"sse2", {"SSE2"}>>
  OBVIOUS
<1> HIDE DEF c
<1>4. b = "portable" \/ \E i \in 1 .. 3 : b = c[i][1] /\ c[i][2] \subseteq features
  BY <1>2, FirstOfSome
<1>5. ASSUME NEW i \in 1 .. 3
      PROVE  c[i] \in {c[1], c[2], c[3]}
  BY SMT
<1> HIDE DEF b
<1>6. QED
  BY <1>1, <1>3, <1>4, <1>5

\* blake3_simd_degree makes the tests of blake3_hash_many a second time: what
\* it returns is the widest group of the back end.
LEMMA DegreeIsWidest ==
  ASSUME NEW features
  PROVE  groups(hash_many_backend(features))[1] = simd_degree(features)
<1>1. /\ groups("avx512")[1] = 16 /\ groups("avx2")[1] = 8 /\ groups("avx2_portable")[1] = 8
      /\ groups("sse41")[1] = 4 /\ groups("sse2")[1] = 4 /\ groups("neon")[1] = 4
      /\ groups("portable")[1] = 1
  BY DEF groups
<1>2. QED
  BY <1>1, HashManyTests DEF simd_degree

-----------------------------------------------------------------------------
(* The inductive invariant.  The cache holds nothing or what detection finds, *)
(* so a thread that is past get_cpu_features holds the features found, and   *)
(* one that has asked for the degree keeps the degree of those.              *)

Machine ==
  /\ arch \in {"x86", "neon", "other"}
  /\ cpu \in Generations
  /\ os \in {"sse", "avx", "avx512"}
  /\ g_cpu_features \in {UNDEFINED, detected}

Stages == {"idle", "detect", "known", "degree", "loop"}

ThreadOK(th) ==
  /\ th.pc \in Stages
  /\ th.pc = "detect" => arch = "x86"
  /\ th.pc = "known" => th.features = found
  /\ th.pc = "degree" \/ (th.pc \in {"detect", "known"} /\ th.call = "hash_many")
       => th.degree = simd_degree(found)

Calls == {"none", "simd_degree", "compress_in_place", "compress_xof", "xof_many", "hash_many"}
Records == [pc : Stages, call : Calls, features : SUBSET cpu, degree : Nat, left : Int]

DispatchInv ==
  /\ Machine
  /\ thread \in [Threads -> Records]
  /\ \A t \in Threads : ThreadOK(thread[t])
  /\ OnlySupportedInstructions
  /\ DegreeMatchesBackend

\* The features are the processor's, and none of them lacks its registers.
LEMMA FoundIsSupported ==
  ASSUME Machine
  PROVE  /\ found \subseteq cpu /\ (arch = "x86" => found = detected)
         /\ "AVX2" \in found => os # "sse"
         /\ "AVX512F" \in found \/ "AVX512VL" \in found
              => os = "avx512" /\ {"AVX512F", "AVX512VL"} \subseteq cpu
<1>1. found \subseteq cpu /\ (arch = "x86" => found = detected)
  BY DEF found, detected
<1>2. "AVX512VL" \in cpu \/ "AVX512F" \in cpu => {"AVX512F", "AVX512VL"} \subseteq cpu
  BY DEF Machine, Generations
<1>3. QED
  BY <1>1, <1>2 DEF found, detected

\* Whichever of the functions chooses a kernel, it can run.
LEMMA ChosenIsSupported ==
  ASSUME Machine, NEW chosen,
         \/ chosen \in {hash_many_backend(found), compress_backend(found), "none"}
         \/ chosen = "avx512" /\ xof_at_once(found)
  PROVE  LET b == IF chosen = "avx2_portable" THEN "avx2" ELSE chosen
         IN  b \in DOMAIN needs =>
               /\ needs[b] \subseteq cpu
               /\ b = "avx2" => os # "sse"
               /\ b = "avx512" => os = "avx512"
<1> DEFINE b == IF chosen = "avx2_portable" THEN "avx2" ELSE chosen
           Supported == b \in DOMAIN needs => /\ needs[b] \subseteq cpu
                                              /\ b = "avx2" => os # "sse"
                                              /\ b = "avx512" => os = "avx512"
<1>1. /\ found \subseteq cpu
      /\ "AVX2" \in found => os # "sse"
      /\ "AVX512F" \in found \/ "AVX512VL" \in found
           => os = "avx512" /\ {"AVX512F", "AVX512VL"} \subseteq cpu
  BY FoundIsSupported
<1>2. /\ DOMAIN needs = {"avx512", "avx2", "sse41", "sse2"}
      /\ needs["avx512"] = {"AVX512F", "AVX512VL"} /\ needs["avx2"] = {"AVX2"}
      /\ needs["sse41"] = {"SSE41"} /\ needs["sse2"] = {"SSE2"}
  BY DEF needs
<1>3. CASE chosen = hash_many_backend(found)
  <2>1. \/ b = "avx512" /\ {"AVX512F", "AVX512VL"} \subseteq found
        \/ b = "avx2" /\ "AVX2" \in found
        \/ b = "sse41" /\ "SSE41" \in found
        \/ b = "sse2" /\ "SSE2" \in found
        \/ b \in {"neon", "portable"}
    BY <1>3, HashManyTests
  <2> HIDE DEF b
  <2>2. Supported
    BY <1>1, <1>2, <2>1
  <2>3. QED
    BY <2>2 DEF b
<1>4. CASE chosen = compress_backend(found)
  <2>1. \/ b = "avx512" /\ "AVX512VL" \in found
        \/ b = "sse41" /\ "SSE41" \in found
        \/ b = "sse2" /\ "SSE2" \in found
        \/ b = "portable"
    BY <1>4, CompressTests
  <2> HIDE DEF b
  <2>2. Supported
    BY <1>1, <1>2, <2>1
  <2>3. QED
    BY <2>2 DEF b
<1>5. CASE chosen = "avx512" /\ xof_at_once(found)
  BY <1>1, <1>2, <1>5 DEF xof_at_once
<1>6. CASE chosen = "none"
  BY <1>2, <1>6
<1>7. QED
  BY <1>3, <1>4, <1>5, <1>6

LEMMA DispatchInitInv == Init => DispatchInv
<1> SUFFICES ASSUME Init
             PROVE  DispatchInv
  OBVIOUS
<1>1. Machine
  BY DEF Init, Machine
<1>2. Idle \in Records /\ ThreadOK(Idle)
  <2>1. Idle.pc = "idle"
    BY DEF Idle
  <2>2. Idle \in Records
    BY SMT DEF Idle, Records, Stages, Calls
  <2>3. QED
    BY <2>1, <2>2 DEF ThreadOK, Stages
<1>3. thread \in [Threads -> Records] /\ \A t \in Threads : ThreadOK(thread[t])
  BY <1>2 DEF Init
<1>4. ran.backend = "none" /\ ran.call = "none"
  BY DEF Init, None
<1>5. OnlySupportedInstructions
  BY <1>1, <1>4, ChosenIsSupported DEF OnlySupportedInstructions
<1>6. DegreeMatchesBackend
  BY <1>4 DEF DegreeMatchesBackend
<1>7. QED
  BY <1>1, <1>3, <1>5, <1>6 DEF DispatchInv

\* A step of one thread that leaves the machine as it is, but for the cache.
LEMMA ThreadStep ==
  ASSUME DispatchInv, NEW t \in Threads, NEW th,
         thread' = [thread EXCEPT ![t] = th], th \in Records, ThreadOK(th),
         UNCHANGED <<arch, built, cpu, os>>, g_cpu_features' \in {g_cpu_features, detected},
         \/ ran' = None
         \/ /\ ran'.backend \in {hash_many_backend(found), compress_backend(found)}
               \/ (ran'.backend = "avx512" /\ xof_at_once(found))
            /\ ran'.call = "hash_many" =>
                 ran'.backend = hash_many_backend(found) /\ ran'.degree = simd_degree(found)
  PROVE  DispatchInv'
<1>1. detected' = detected /\ found' = found
  BY DEF detected, found
<1>2. Machine'
  BY <1>1 DEF DispatchInv, Machine
<1>3. /\ \A f : simd_degree(f)' = simd_degree(f)
      /\ \A f : hash_many_backend(f)' = hash_many_backend(f)
      /\ \A f : compress_backend(f)' = compress_backend(f)
      /\ \A f : xof_at_once(f)' = xof_at_once(f)
  <2>1. \A c, f, e : first_of(c, f, e)' = first_of(c, f, e)
    BY DEF first_of
  <2>2. \A f : simd_degree(f)' = simd_degree(f)
    BY DEF simd_degree
  <2>3. \A f : hash_many_backend(f)' = hash_many_backend(f)
    BY <2>1 DEF hash_many_backend
  <2>4. \A f : compress_backend(f)' = compress_backend(f)
    BY <2>1 DEF compress_backend
  <2>5. \A f : xof_at_once(f)' = xof_at_once(f)
    BY DEF xof_at_once
  <2>6. QED
    BY <2>2, <2>3, <2>4, <2>5
<1>4. thread' \in [Threads -> Records] /\ Records' = Records
  BY DEF DispatchInv, Records
<1>5. ASSUME NEW u \in Threads
      PROVE  ThreadOK(thread[u])'
  <2>1. ThreadOK(thread'[u])
    BY DEF DispatchInv
  <2>2. QED
    BY <1>1, <1>3, <2>1 DEF ThreadOK
<1>6. OnlySupportedInstructions'
  <2>1. \/ ran'.backend \in {hash_many_backend(found), compress_backend(found), "none"}
        \/ ran'.backend = "avx512" /\ xof_at_once(found)
    BY DEF None
  <2>2. Machine
    BY DEF DispatchInv
  <2>3. QED
    BY <2>1, <2>2, ChosenIsSupported DEF OnlySupportedInstructions
<1>7. DegreeMatchesBackend'
  BY <1>3, DegreeIsWidest DEF DegreeMatchesBackend, None
<1>8. QED
  BY <1>2, <1>4, <1>5, <1>6, <1>7 DEF DispatchInv

\* What a thread knows, field by field.
Known(pc, call, features, degree, left) ==
  [pc |-> pc, call |-> call, features |-> features, degree |-> degree, left |-> left]

LEMMA RecordKnown ==
  ASSUME NEW r \in Records
  PROVE  r = Known(r.pc, r.call, r.features, r.degree, r.left)
BY DEF Records, Known

\* A call begins by reading the cache, which holds nothing or what is found.
LEMMA BeginsStep ==
  ASSUME DispatchInv, NEW t \in Threads, NEW call \in Calls \ {"none"}, NEW n \in Int,
         Begins(t, call, n), call = "hash_many" => thread[t].pc = "degree"
  PROVE  DispatchInv'
<1> DEFINE cached == g_cpu_features # UNDEFINED
           pc == IF arch = "x86" /\ ~ cached THEN "detect" ELSE "known"
           features == IF arch = "x86" /\ cached THEN g_cpu_features ELSE {}
           th == Known(pc, call, features, thread[t].degree, n)
<1>1. Machine /\ thread \in [Threads -> Records] /\ ThreadOK(thread[t])
  BY DEF DispatchInv
<1>2. thread[t] \in Records
  BY <1>1
<1>3. thread' = [thread EXCEPT ![t] = th]
  <2>1. thread' = [thread EXCEPT ![t].call = call, ![t].left = n, ![t].pc = pc,
                                 ![t].features = features]
    BY DEF Begins
  <2> DEFINE r == thread[t]
             a == [r EXCEPT !.call = call]
             b == [a EXCEPT !.left = n]
             c == [b EXCEPT !.pc = pc]
             d == [c EXCEPT !.features = features]
  <2> HIDE DEF pc, features
  <2>2. thread' = [thread EXCEPT ![t] = d]
    BY <1>1, <2>1
  <2>3. r = Known(r.pc, r.call, r.features, r.degree, r.left)
    BY <1>2, RecordKnown
  <2> HIDE DEF d, c, b, a, r
  <2>4. a = Known(r.pc, call, r.features, r.degree, r.left)
    BY <2>3, SMT DEF a, Known
  <2>5. b = Known(r.pc, call, r.features, r.degree, n)
    BY <2>4, SMT DEF b, Known
  <2>6. c = Known(pc, call, r.features, r.degree, n)
    BY <2>5, SMT DEF c, Known
  <2>7. d = Known(pc, call, features, r.degree, n)
    BY <2>6, SMT DEF d, Known
  <2>8. QED
    BY <2>2, <2>7 DEF r
<1>4. features \in SUBSET cpu /\ (pc = "known" => features = found)
  <2>1. cached => g_cpu_features = detected
    BY <1>1 DEF Machine
  <2>2. found \subseteq cpu /\ (arch = "x86" => found = detected) /\ (arch # "x86" => found = {})
    BY <1>1, FoundIsSupported DEF found
  <2>3. QED
    BY <2>1, <2>2
<1>5. th \in Records
  <2> HIDE DEF features
  <2>1. thread[t].degree \in Nat /\ pc \in Stages
    BY <1>2 DEF Records, Stages
  <2> HIDE DEF pc
  <2>2. QED
    BY <1>4, <2>1 DEF Records, Known
<1>6. ThreadOK(th)
  <2>1. th.pc = pc /\ th.call = call /\ th.features = features /\ th.degree = thread[t].degree
    BY DEF Known
  <2>2. pc \in {"detect", "known"} /\ (pc = "detect" => arch = "x86")
    OBVIOUS
  <2>3. call = "hash_many" => thread[t].degree = simd_degree(found)
    BY <1>1 DEF ThreadOK
  <2> HIDE DEF th, pc, features
  <2>4. QED
    BY <1>4, <2>1, <2>2, <2>3 DEF ThreadOK, Stages
<1>7. UNCHANGED <<arch, built, cpu, os>> /\ g_cpu_features' = g_cpu_features /\ ran' = None
  BY DEF Begins
<1> HIDE DEF th
<1>8. QED
  BY <1>3, <1>5, <1>6, <1>7, ThreadStep

LEMMA DispatchStepInv == DispatchInv /\ [Next]_vars => DispatchInv'
<1> SUFFICES ASSUME DispatchInv, [Next]_vars
             PROVE  DispatchInv'
  OBVIOUS
<1>0. Machine /\ thread \in [Threads -> Records] /\ \A t \in Threads : ThreadOK(thread[t])
  BY DEF DispatchInv
<1>i. Idle \in Records /\ ThreadOK(Idle)
  <2>1. Idle.pc = "idle"
    BY DEF Idle
  <2>2. Idle \in Records
    BY SMT DEF Idle, Records, Stages, Calls
  <2>3. QED
    BY <2>1, <2>2 DEF ThreadOK, Stages
<1>l. ASSUME NEW n \in Int
      PROVE  [Idle EXCEPT !.pc = "loop", !.left = n] \in Records
             /\ ThreadOK([Idle EXCEPT !.pc = "loop", !.left = n])
  <2> DEFINE a == [Idle EXCEPT !.pc = "loop"]
             b == [a EXCEPT !.left = n]
  <2>1. Idle = Known("idle", "none", {}, 0, 0) /\ [Idle EXCEPT !.pc = "loop", !.left = n] = b
    BY DEF Idle, Known
  <2> HIDE DEF a, b
  <2>2. a = Known("loop", "none", {}, 0, 0)
    BY <2>1, SMT DEF a, Known
  <2>3. b = Known("loop", "none", {}, 0, n)
    BY <2>2, SMT DEF b, Known
  <2>4. b \in Records
    BY <2>3 DEF Known, Records, Stages, Calls
  <2>5. b.pc = "loop"
    BY <2>3 DEF Known
  <2>6. ThreadOK(b)
    BY <2>5 DEF ThreadOK, Stages
  <2>7. QED
    BY <2>1, <2>4, <2>6
<1>1. ASSUME NEW t \in Threads, Enter(t)
      PROVE  DispatchInv'
  <2>1. ASSUME NEW call \in {"simd_degree", "compress_in_place", "compress_xof"}, Begins(t, call, 1)
        PROVE  DispatchInv'
    BY <2>1, BeginsStep DEF Calls
  <2>2. ASSUME NEW n \in 1 .. MaxOutblocks, Begins(t, "xof_many", n)
        PROVE  DispatchInv'
    <3>1. n \in Int
      BY DispatchAssumption, SMT
    <3>2. QED
      BY <2>2, <3>1, BeginsStep DEF Calls
  <2>3. ASSUME thread[t].pc = "degree", Begins(t, "hash_many", 0)
        PROVE  DispatchInv'
    BY <2>3, BeginsStep DEF Calls
  <2>4. ASSUME Begins(t, "compress_xof", thread[t].left)
        PROVE  DispatchInv'
    <3>1. thread[t].left \in Int
      BY <1>0 DEF Records
    <3>2. QED
      BY <2>4, <3>1, BeginsStep DEF Calls
  <2>5. QED
    BY <1>1, <2>1, <2>2, <2>3, <2>4 DEF Enter
<1>2. ASSUME NEW t \in Threads, Detect(t)
      PROVE  DispatchInv'
  <2> DEFINE th == Known("known", thread[t].call, detected, thread[t].degree, thread[t].left)
  <2>1. /\ thread[t].pc = "detect" /\ g_cpu_features' = detected /\ ran' = None
        /\ thread' = [thread EXCEPT ![t].pc = "known", ![t].features = detected]
        /\ UNCHANGED <<arch, built, cpu, os>>
    BY <1>2 DEF Detect
  <2>2. thread[t] \in Records /\ ThreadOK(thread[t])
    BY <1>0
  <2>3. arch = "x86" /\ found = detected /\ detected \in SUBSET cpu
    BY <1>0, <2>1, <2>2, FoundIsSupported DEF ThreadOK
  <2>4. thread' = [thread EXCEPT ![t] = th]
    <3> DEFINE r == thread[t]
               a == [r EXCEPT !.pc = "known"]
               b == [a EXCEPT !.features = detected]
    <3>1. thread' = [thread EXCEPT ![t] = b]
      BY <1>0, <2>1
    <3>2. r = Known(r.pc, r.call, r.features, r.degree, r.left)
      BY <2>2, RecordKnown
    <3> HIDE DEF b, a, r
    <3>3. a = Known("known", r.call, r.features, r.degree, r.left)
      BY <3>2, SMT DEF a, Known
    <3>4. b = Known("known", r.call, detected, r.degree, r.left)
      BY <3>3, SMT DEF b, Known
    <3>5. QED
      BY <3>1, <3>4 DEF r
  <2>5. th \in Records
    BY <2>2, <2>3 DEF Records, Stages, Known
  <2>6. ThreadOK(th)
    BY <2>1, <2>2, <2>3 DEF ThreadOK, Stages, Known
  <2> HIDE DEF th
  <2>7. QED
    BY <2>1, <2>4, <2>5, <2>6, ThreadStep
<1>3. ASSUME NEW t \in Threads, ReturnDegree(t)
      PROVE  DispatchInv'
  <2> DEFINE degree == simd_degree(thread[t].features)
             th == Known("degree", thread[t].call, thread[t].features, degree, thread[t].left)
  <2>1. /\ thread[t].pc = "known" /\ ran' = None
        /\ thread' = [thread EXCEPT ![t].pc = "degree", ![t].degree = degree]
        /\ UNCHANGED <<arch, built, cpu, os, g_cpu_features>>
    BY <1>3 DEF ReturnDegree, Knows
  <2>2. thread[t] \in Records /\ thread[t].features = found
    BY <1>0, <2>1 DEF ThreadOK
  <2>3. degree \in Nat /\ degree = simd_degree(found)
    BY <2>2 DEF simd_degree
  <2> HIDE DEF degree
  <2>4. thread' = [thread EXCEPT ![t] = th]
    <3> DEFINE r == thread[t]
               a == [r EXCEPT !.pc = "degree"]
               b == [a EXCEPT !.degree = degree]
    <3>1. thread' = [thread EXCEPT ![t] = b]
      BY <1>0, <2>1
    <3>2. r = Known(r.pc, r.call, r.features, r.degree, r.left)
      BY <2>2, RecordKnown
    <3> HIDE DEF b, a, r
    <3>3. a = Known("degree", r.call, r.features, r.degree, r.left)
      BY <3>2, SMT DEF a, Known
    <3>4. b = Known("degree", r.call, r.features, degree, r.left)
      BY <3>3, SMT DEF b, Known
    <3>5. QED
      BY <3>1, <3>4 DEF r
  <2>5. th \in Records
    BY <2>2, <2>3 DEF Records, Stages, Known
  <2>6. ThreadOK(th)
    BY <2>3 DEF ThreadOK, Stages, Known
  <2> HIDE DEF th
  <2>7. QED
    BY <2>1, <2>4, <2>5, <2>6, ThreadStep
<1>4. ASSUME NEW t \in Threads, HashMany(t)
      PROVE  DispatchInv'
  <2>1. /\ thread[t].pc = "known" /\ thread[t].call = "hash_many"
        /\ ran' = [call |-> "hash_many", degree |-> thread[t].degree,
                   backend |-> hash_many_backend(thread[t].features)]
        /\ thread' = [thread EXCEPT ![t] = Idle]
        /\ UNCHANGED <<arch, built, cpu, os, g_cpu_features>>
    BY <1>4 DEF HashMany, Knows
  <2>2. thread[t].features = found /\ thread[t].degree = simd_degree(found)
    BY <1>0, <2>1 DEF ThreadOK
  <2>3. ran'.backend = hash_many_backend(found) /\ ran'.degree = simd_degree(found)
    BY <2>1, <2>2
  <2>4. QED
    BY <1>i, <2>1, <2>3, ThreadStep
<1>5. ASSUME NEW t \in Threads, Compress(t)
      PROVE  DispatchInv'
  <2> DEFINE th == IF thread[t].left = 1 THEN Idle
                   ELSE [Idle EXCEPT !.pc = "loop", !.left = thread[t].left - 1]
  <2>1. /\ thread[t].pc = "known" /\ thread[t].call \in {"compress_in_place", "compress_xof"}
        /\ ran' = [call |-> thread[t].call, degree |-> 1,
                   backend |-> compress_backend(thread[t].features)]
        /\ thread' = [thread EXCEPT ![t] = th]
        /\ UNCHANGED <<arch, built, cpu, os, g_cpu_features>>
    BY <1>5 DEF Compress, Knows
  <2>2. thread[t].features = found /\ thread[t].left - 1 \in Int
    BY <1>0, <2>1, SMT DEF ThreadOK, Records
  <2>3. ran'.backend = compress_backend(found) /\ ran'.call # "hash_many"
    BY <2>1, <2>2
  <2>4. th \in Records /\ ThreadOK(th)
    BY <1>i, <1>l, <2>2
  <2> HIDE DEF th
  <2>5. QED
    BY <2>1, <2>3, <2>4, ThreadStep
<1>6. ASSUME NEW t \in Threads, XofMany(t)
      PROVE  DispatchInv'
  <2>1. /\ thread[t].pc = "known" /\ UNCHANGED <<arch, built, cpu, os, g_cpu_features>>
    BY <1>6 DEF XofMany, Knows
  <2>2. thread[t].features = found /\ thread[t].left \in Int
    BY <1>0, <2>1 DEF ThreadOK, Records
  <2>3. CASE xof_at_once(found)
    <3>1. /\ ran' = [call |-> "xof_many", degree |-> thread[t].left, backend |-> "avx512"]
          /\ thread' = [thread EXCEPT ![t] = Idle]
      BY <1>6, <2>2, <2>3 DEF XofMany
    <3>2. ran'.backend = "avx512" /\ ran'.call # "hash_many"
      BY <3>1
    <3>3. QED
      BY <1>i, <2>1, <2>3, <3>1, <3>2, ThreadStep
  <2>4. CASE ~ xof_at_once(found)
    <3> DEFINE th == [Idle EXCEPT !.pc = "loop", !.left = thread[t].left]
    <3>1. ran' = None /\ thread' = [thread EXCEPT ![t] = th]
      BY <1>6, <2>2, <2>4 DEF XofMany
    <3>2. th \in Records /\ ThreadOK(th)
      BY <1>l, <2>2
    <3> HIDE DEF th
    <3>3. QED
      BY <2>1, <3>1, <3>2, ThreadStep
  <2>5. QED
    BY <2>3, <2>4
<1>7. CASE UNCHANGED vars
  <2>1. UNCHANGED <<arch, built, cpu, os, g_cpu_features, thread, ran>>
    BY <1>7 DEF vars
  <2>2. detected' = detected /\ found' = found
    BY <2>1 DEF detected, found
  <2>3. simd_degree(found)' = simd_degree(found)
    BY <2>1, <2>2 DEF simd_degree
  <2>4. Machine' /\ Records' = Records
    BY <1>0, <2>1, <2>2 DEF Machine, Records
  <2>5. \A t \in Threads : ThreadOK(thread[t])'
    BY <1>0, <2>1, <2>2, <2>3 DEF ThreadOK
  <2>6. OnlySupportedInstructions' /\ DegreeMatchesBackend'
    BY <2>1 DEF DispatchInv, OnlySupportedInstructions, DegreeMatchesBackend
  <2>7. QED
    BY <1>0, <2>1, <2>4, <2>5, <2>6 DEF DispatchInv
<1>8. QED
  BY <1>1, <1>2, <1>3, <1>4, <1>5, <1>6, <1>7 DEF Next

\* In every interleaving the cache of get_cpu_features holds UNDEFINED or what a
\* detection finds, and a thread that has read it holds the same.
THEOREM DispatchInvariant == Spec => []DispatchInv
BY DispatchInitInv, DispatchStepInv, PTL DEF Spec

-----------------------------------------------------------------------------
(* What follows from the invariant. *)

\* No thread runs a kernel of instructions that the processor, or the
\* operating system, does not support, in any interleaving of detections.
THEOREM SupportedCorrect == Spec => []OnlySupportedInstructions
<1>1. DispatchInv => OnlySupportedInstructions
  BY DEF DispatchInv
<1>2. QED
  BY <1>1, DispatchInvariant, PTL

\* blake3_hash_many hashes side by side what blake3_simd_degree promised, though
\* the two read the cache at different times and test the features separately.
THEOREM DegreeCorrect == Spec => []DegreeMatchesBackend
<1>1. DispatchInv => DegreeMatchesBackend
  BY DEF DispatchInv
<1>2. QED
  BY <1>1, DispatchInvariant, PTL

\* A thread that detects late stores again what is in the cache already.
THEOREM CacheCorrect == Spec => CacheStable
<1>1. DispatchInv /\ [Next]_vars
        => [g_cpu_features # UNDEFINED => g_cpu_features' = g_cpu_features]_vars
  <2> SUFFICES ASSUME DispatchInv, [Next]_vars, g_cpu_features # UNDEFINED
               PROVE  g_cpu_features' = g_cpu_features
    OBVIOUS
  <2>1. g_cpu_features = detected
    BY DEF DispatchInv, Machine
  <2>2. ASSUME NEW t \in Threads, Detect(t)
        PROVE  g_cpu_features' = g_cpu_features
    BY <2>1, <2>2 DEF Detect
  <2>3. ASSUME NEW t \in Threads,
               Enter(t) \/ ReturnDegree(t) \/ HashMany(t) \/ Compress(t) \/ XofMany(t)
        PROVE  g_cpu_features' = g_cpu_features
    BY <2>3 DEF Enter, Begins, ReturnDegree, HashMany, Compress, XofMany, Knows
  <2>4. CASE UNCHANGED vars
    BY <2>4 DEF vars
  <2>5. QED
    BY <2>2, <2>3, <2>4 DEF Next
<1>2. QED
  BY <1>1, DispatchInvariant, PTL DEF Spec, CacheStable

-----------------------------------------------------------------------------
(* The counters of the lanes. *)

\* Quotient and remainder.
LEMMA Division ==
  ASSUME NEW b \in Nat \ {0}, NEW x \in Nat
  PROVE  /\ x \div b \in Nat /\ x % b \in 0 .. b - 1
         /\ x = b * (x \div b) + (x % b)
         /\ b * (x \div b) \in Nat
<1>1. x \div b \in Nat /\ x % b \in 0 .. b - 1
  BY SMT
<1>2. x % b = x - b * (x \div b)
  BY SMT
<1> DEFINE q == x \div b
<1>4. q \in Nat
  BY <1>1
<1> HIDE DEF q
<1>5. b * q \in Nat
  BY <1>4, SMT
<1>6. x % b = x - b * q /\ x % b \in Nat
  BY <1>1, <1>2, SMT DEF q
<1>7. x = b * q + (x % b)
  BY <1>5, <1>6, SMT
<1>8. QED
  BY <1>1, <1>5, <1>7 DEF q

\* A number is divided in one way only.
LEMMA Divided ==
  ASSUME NEW b \in Nat \ {0}, NEW q \in Nat, NEW r \in 0 .. b - 1
  PROVE  (b * q + r) \div b = q /\ (b * q + r) % b = r
BY SMT

\* Multiplication is monotonic.
LEMMA Monotonic ==
  ASSUME NEW a \in Nat, NEW b \in Nat, NEW c \in Nat, a <= b
  PROVE  c * a \in Nat /\ c * b \in Nat /\ c * a <= c * b
<1> DEFINE k == b - a
<1>1. k \in Nat /\ b = a + k
  BY SMT
<1> HIDE DEF k
<1>2. c * a \in Nat /\ c * k \in Nat
  BY <1>1, SMT
<1>3. c * (a + k) = c * a + c * k
  BY <1>1, SMT
<1>4. QED
  BY <1>1, <1>2, <1>3, SMT

\* A number below the divisor is its own remainder.
LEMMA SmallRemainder ==
  ASSUME NEW b \in Nat \ {0}, NEW x \in 0 .. b - 1
  PROVE  x \div b = 0 /\ x % b = x
BY SMT

\* A number of two digits to the base b.
LEMMA TwoDigits ==
  ASSUME NEW b \in Nat \ {0}, NEW h \in 0 .. b - 1, NEW x \in 0 .. b - 1
  PROVE  /\ b * b \in Nat \ {0}
         /\ b * h + x \in 0 .. b * b - 1
         /\ (b * h + x) % (b * b) = b * h + x
<1>1. b - 1 \in Nat /\ h \in Nat /\ h <= b - 1 /\ b \in Nat
  BY SMT
<1>2. b * h \in Nat /\ b * h <= b * (b - 1)
  BY <1>1, Monotonic
<1>3. b * (b - 1) = b * b - b
  BY SMT
<1>4. b * b \in Nat /\ b <= b * b
  <2>1. 1 \in Nat /\ 1 <= b /\ b * 1 = b
    BY SMT
  <2>2. b * 1 \in Nat /\ b * b \in Nat /\ b * 1 <= b * b
    BY <1>1, <2>1, Monotonic
  <2>3. QED
    BY <2>1, <2>2
<1> DEFINE m == b * b
           p == b * h
           y == p + x
<1>5. m \in Nat \ {0} /\ p \in Nat /\ p <= m - b
  BY <1>2, <1>3, <1>4, SMT
<1> HIDE DEF m, p
<1>6. y \in 0 .. m - 1
  BY <1>5, SMT
<1> HIDE DEF y
<1>7. y % m = y
  BY <1>5, <1>6, SmallRemainder
<1>8. QED
  BY <1>5, <1>6, <1>7 DEF m, p, y

\* The next number of the high digit, and the wrap.
LEMMA NextDigit ==
  ASSUME NEW b \in Nat \ {0}, NEW h \in 0 .. b - 1, NEW x \in 0 .. b - 1
  PROVE  (b * (h + 1) + x) % (b * b) = b * ((h + 1) % b) + x
<1>1. CASE h + 1 < b
  <2> DEFINE g == h + 1
  <2>1. g \in 0 .. b - 1
    BY <1>1, SMT
  <2> HIDE DEF g
  <2>2. g % b = g
    BY <2>1, SmallRemainder
  <2>3. (b * g + x) % (b * b) = b * g + x
    BY <2>1, TwoDigits
  <2>4. (b * g + x) % (b * b) = b * (g % b) + x
    BY <2>2, <2>3
  <2>5. QED
    BY <2>4 DEF g
<1>2. CASE h + 1 = b
  <2> DEFINE m == b * b
  <2>1. m \in Nat \ {0} /\ 0 \in 0 .. b - 1
    BY TwoDigits, SMT
  <2>2. b * 0 + x \in 0 .. m - 1 /\ b * 0 + x = x
    <3>1. b * 0 + x \in 0 .. m - 1
      BY <2>1, TwoDigits
    <3>2. QED
      BY <3>1, SMT
  <2> HIDE DEF m
  <2>3. x \in 0 .. m - 1 /\ 1 \in Nat /\ m * 1 + x = m + x
    BY <2>1, <2>2, SMT
  <2>4. (m * 1 + x) % m = x
    BY <2>1, <2>3, Divided
  <2>5. b % b = 0
    BY SMT
  <2>6. (m + x) % m = b * (b % b) + x
    BY <2>2, <2>3, <2>4, <2>5
  <2>7. QED
    BY <1>2, <2>6 DEF m
<1>3. h + 1 < b \/ h + 1 = b
  BY SMT
<1>4. QED
  BY <1>1, <1>2, <1>3

\* A counter is made of its two words.
LEMMA WordsOfCounter ==
  ASSUME NEW c \in Counters
  PROVE  /\ counter_low(c) \in 0 .. Word - 1 /\ counter_high(c) \in 0 .. Word - 1
         /\ c = Word * counter_high(c) + counter_low(c)
<1> DEFINE q == c \div Word
           W == Word
<1>1. W \in Nat \ {0} /\ c \in 0 .. W * W - 1
  <2>1. W \in Nat \ {0}
    BY LaneAssumption, SMT
  <2>2. QED
    BY <2>1 DEF Counters
<1>2. W * W \in Nat
  BY <1>1, Monotonic
<1>3. c \in Nat
  BY <1>1, <1>2, SMT
<1>4. q \in Nat /\ c % Word \in 0 .. W - 1 /\ c = W * q + (c % Word) /\ W * q \in Nat
  BY <1>1, <1>3, Division
<1>5. counter_low(c) = c % Word /\ counter_high(c) = q % W
  BY DEF counter_low, counter_high
<1> HIDE DEF q, W
<1>6. q < W
  <2>1. ASSUME W <= q
        PROVE  FALSE
    <3>1. W * W <= W * q
      BY <1>1, <1>4, <2>1, Monotonic
    <3> DEFINE r == c % Word
               p == W * q
               m == W * W
    <3>2. r \in Nat /\ p \in Nat /\ c = p + r /\ m <= p /\ m \in Nat
      BY <1>1, <1>2, <1>4, <3>1, SMT
    <3>4. c \in 0 .. m - 1
      BY <1>1
    <3> HIDE DEF r, p, m
    <3>3. QED
      BY <3>2, <3>4, SMT
  <2>2. QED
    BY <1>1, <1>4, <2>1, SMT
<1>7. q \in 0 .. W - 1 /\ q % W = q
  <2>1. q \in 0 .. W - 1
    BY <1>1, <1>4, <1>6, SMT
  <2>2. QED
    BY <1>1, <2>1, SmallRemainder
<1>8. QED
  BY <1>4, <1>5, <1>7 DEF W, q

\* Adding a lane's number to a counter: the low word, and the carry.
LEMMA LaneSum ==
  ASSUME NEW c \in Counters, NEW d \in 0 .. 15
  PROVE  LET l == counter_low(c)
             h == counter_high(c)
         IN  /\ l + d < Word => /\ (l + d) % Word = l + d
                                /\ advance(c, d) = Word * h + (l + d)
             /\ l + d >= Word => /\ (l + d) % Word = l + d - Word
                                 /\ advance(c, d) = Word * ((h + 1) % Word) + (l + d - Word)
             /\ advance(c, d) \in Counters
<1> DEFINE l == counter_low(c)
           h == counter_high(c)
           W == Word
<1>1. W \in Nat \ {0} /\ W >= 32 /\ l \in 0 .. W - 1 /\ h \in 0 .. W - 1 /\ c = W * h + l
      /\ d \in 0 .. 15
  BY LaneAssumption, WordsOfCounter, SMT
<1>2. advance(c, d) = (c + d) % (W * W) /\ Counters = 0 .. W * W - 1
  BY DEF advance, Counters
<1> HIDE DEF l, h, W
<1>3. W * h \in Nat
  <2>1. W \in Nat /\ h \in Nat
    BY <1>1, SMT
  <2>2. QED
    BY <2>1, Monotonic, SMT
<1>4. ASSUME l + d < W
      PROVE  /\ (l + d) % W = l + d /\ advance(c, d) = W * h + (l + d)
             /\ advance(c, d) \in Counters
  <2> DEFINE x == l + d
  <2>1. x \in 0 .. W - 1 /\ c + d = W * h + x
    BY <1>1, <1>3, <1>4, SMT
  <2> HIDE DEF x
  <2>2. x % W = x /\ (W * h + x) % (W * W) = W * h + x /\ W * h + x \in 0 .. W * W - 1
    BY <1>1, <2>1, SmallRemainder, TwoDigits
  <2>3. QED
    BY <1>2, <2>1, <2>2 DEF x
<1>5. ASSUME l + d >= W
      PROVE  /\ (l + d) % W = l + d - W /\ advance(c, d) = W * ((h + 1) % W) + (l + d - W)
             /\ advance(c, d) \in Counters
  <2> DEFINE x == l + d - W
             g == (h + 1) % W
  <2>1. x \in 0 .. W - 1 /\ l + d = W * 1 + x /\ 1 \in Nat
    BY <1>1, <1>5, SMT
  <2>2. c + d = W * (h + 1) + x
    BY <1>1, <1>3, <2>1, SMT
  <2>3. g \in 0 .. W - 1
    BY <1>1, SMT
  <2> HIDE DEF x
  <2>4. (W * 1 + x) % W = x
    BY <1>1, <2>1, Divided
  <2>5. (W * (h + 1) + x) % (W * W) = W * g + x
    BY <1>1, <2>1, NextDigit
  <2> HIDE DEF g
  <2>6. W * g + x \in 0 .. W * W - 1
    BY <1>1, <2>1, <2>3, TwoDigits
  <2>7. (l + d) % W = x
    BY <2>1, <2>4
  <2>8. advance(c, d) = W * g + x /\ advance(c, d) \in Counters
    BY <1>2, <2>2, <2>5, <2>6
  <2>9. QED
    BY <2>7, <2>8 DEF x, g
<1>6. l + d < W \/ l + d >= W
  BY <1>1, SMT
<1>7. QED
  BY <1>4, <1>5, <1>6 DEF l, h, W

\* However a lane's counter is computed, the carry is right: from the borrow of
\* a comparison, from the sign bits, or by adding to the whole counter.
THEOREM LanesCarry ==
  ASSUME NEW c \in Counters, NEW d \in 0 .. 15
  PROVE  /\ lane_by_compare(c, d) = advance(c, d)
         /\ lane_by_sign(c, d) = advance(c, d)
         /\ lane_by_split(c, d) = advance(c, d)
         /\ advance(c, d) \in Counters
<1> DEFINE l == counter_low(c)
           h == counter_high(c)
           W == Word
           H == W \div 2
           low == (l + d) % W
<1>1. W \in Nat \ {0} /\ W >= 32 /\ l \in 0 .. W - 1 /\ h \in 0 .. W - 1 /\ d \in 0 .. 15
      /\ H \in Nat \ {0} /\ W = 2 * H /\ H >= 16
  BY LaneAssumption, WordsOfCounter, SMT
<1>2. /\ l + d < W => low = l + d /\ advance(c, d) = W * h + (l + d)
      /\ l + d >= W => low = l + d - W /\ advance(c, d) = W * ((h + 1) % W) + (l + d - W)
      /\ advance(c, d) \in Counters
  BY LaneSum
<1>3. /\ lane_by_compare(c, d) = low + W * ((h + (IF d > low THEN 1 ELSE 0)) % W)
      /\ lane_by_sign(c, d) = low + W * ((h + (l \div H) * (1 - (low \div H))) % W)
  BY DEF lane_by_compare, lane_by_sign, lane, high_bit
<1>4. lane_by_split(c, d) = advance(c, d)
  <2> DEFINE s == advance(c, d)
  <2>1. /\ counter_low(s) \in 0 .. W - 1 /\ counter_high(s) \in 0 .. W - 1
        /\ s = W * counter_high(s) + counter_low(s)
    BY <1>2, WordsOfCounter
  <2>2. lane_by_split(c, d) = counter_low(s) + W * (counter_high(s) % W)
    BY DEF lane_by_split, lane
  <2> DEFINE a == counter_low(s)
             b == counter_high(s)
  <2> HIDE DEF s, a, b, W
  <2>3. b % W = b
    BY <1>1, <2>1, SmallRemainder DEF a, b
  <2>4. a \in Nat /\ b \in Nat /\ W \in Nat
    BY <1>1, <2>1, SMT DEF a, b
  <2>5. W * b \in Nat
    BY <2>4, Monotonic, SMT
  <2>6. a + W * b = W * b + a
    BY <2>4, <2>5, SMT
  <2>7. QED
    BY <2>1, <2>2, <2>3, <2>6 DEF a, b, s
<1> DEFINE carry == IF l + d < W THEN 0 ELSE 1
<1>5. (IF d > low THEN 1 ELSE 0) = carry
  <2>1. CASE l + d < W
    <3>1. low = l + d
      BY <1>2, <2>1
    <3> HIDE DEF low, l, W
    <3>2. ~ (d > low)
      BY <1>1, <3>1, SMT
    <3>3. QED
      BY <2>1, <3>2
  <2>2. CASE ~ (l + d < W)
    <3>1. low = l + d - W
      BY <1>1, <1>2, <2>2, SMT
    <3> HIDE DEF low, l, W
    <3>2. d > low
      BY <1>1, <3>1, SMT
    <3>3. QED
      BY <2>2, <3>2
  <2>3. QED
    BY <2>1, <2>2
<1>6. (l \div H) * (1 - (low \div H)) = carry
  <2>0. \A x \in 0 .. W - 1 : x \div H = IF x < H THEN 0 ELSE 1
    <3> HIDE DEF H, W
    <3>1. ASSUME NEW x \in 0 .. W - 1
          PROVE  x \div H = IF x < H THEN 0 ELSE 1
      <4>1. CASE x < H
        <5>1. x \in 0 .. H - 1
          BY <1>1, <4>1, SMT
        <5>2. QED
          BY <1>1, <4>1, <5>1, SmallRemainder
      <4>2. CASE ~ (x < H)
        <5>1. x - H \in 0 .. H - 1 /\ 1 \in Nat /\ H * 1 + (x - H) = x
          BY <1>1, <4>2, SMT
        <5>2. (H * 1 + (x - H)) \div H = 1
          BY <1>1, <5>1, Divided
        <5>3. QED
          BY <4>2, <5>1, <5>2
      <4>3. QED
        BY <4>1, <4>2
    <3>2. QED
      BY <3>1
  <2>1. low \in 0 .. W - 1
    BY <1>1, SMT
  <2>2. /\ l \div H = IF l < H THEN 0 ELSE 1
        /\ low \div H = IF low < H THEN 0 ELSE 1
    BY <1>1, <2>0, <2>1
  <2>3. CASE l + d < W
    <3>1. low = l + d
      BY <1>2, <2>3
    <3> HIDE DEF low, l, W, H
    <3>2. l < H \/ ~ (low < H)
      BY <1>1, <3>1, SMT
    <3>3. QED
      BY <2>2, <2>3, <3>2, SMT
  <2>4. CASE ~ (l + d < W)
    <3>1. low = l + d - W
      BY <1>1, <1>2, <2>4, SMT
    <3> HIDE DEF low, l, W, H
    <3>2. ~ (l < H) /\ low < H
      BY <1>1, <2>4, <3>1, SMT
    <3>3. QED
      BY <2>2, <2>4, <3>2, SMT
  <2>5. QED
    BY <2>3, <2>4
<1>7. low + W * ((h + carry) % W) = advance(c, d)
  <2>1. CASE l + d < W
    <3>1. low = l + d /\ advance(c, d) = W * h + (l + d) /\ carry = 0
      BY <1>2, <2>1
    <3> HIDE DEF low, l, W, h
    <3>2. h % W = h /\ h + 0 = h
      BY <1>1, SmallRemainder, SMT
    <3>3. h \in Nat /\ W \in Nat /\ l + d \in Nat
      BY <1>1, SMT
    <3>4. W * h \in Nat
      BY <3>3, Monotonic, SMT
    <3>5. (l + d) + W * h = W * h + (l + d)
      BY <3>3, <3>4, SMT
    <3>6. QED
      BY <3>1, <3>2, <3>5
  <2>2. CASE ~ (l + d < W)
    <3> DEFINE g == (h + 1) % W
    <3>1. l + d >= W
      BY <1>1, <2>2, SMT
    <3>2. low = l + d - W /\ advance(c, d) = W * g + (l + d - W) /\ carry = 1
      BY <1>2, <2>2, <3>1
    <3>3. g \in Nat /\ W \in Nat /\ l + d - W \in Nat
      BY <1>1, <3>1, SMT
    <3> HIDE DEF low, l, W, g
    <3>4. W * g \in Nat
      BY <3>3, Monotonic, SMT
    <3>5. (l + d - W) + W * g = W * g + (l + d - W)
      BY <3>3, <3>4, SMT
    <3>6. QED
      BY <3>2, <3>5 DEF g
  <2>3. QED
    BY <2>1, <2>2
<1>8. lane_by_compare(c, d) = advance(c, d) /\ lane_by_sign(c, d) = advance(c, d)
  <2> HIDE DEF low, l, W, H, h, carry
  <2>1. QED
    BY <1>3, <1>5, <1>6, <1>7
<1>9. QED
  BY <1>2, <1>4, <1>8

\* Counting on from a counter, in one step or in two.
LEMMA AdvanceTwice ==
  ASSUME NEW c \in Nat, NEW a \in Nat, NEW b \in Nat
  PROVE  advance(advance(c, a), b) = advance(c, a + b)
<1> DEFINE M == Word * Word
           r == (c + a) % M
           q == (c + a) \div M
           r2 == (r + b) % M
           q2 == (r + b) \div M
<1>1. M \in Nat \ {0}
  <2>1. Word \in Nat \ {0} /\ 0 \in 0 .. Word - 1
    BY LaneAssumption, SMT
  <2>2. QED
    BY <2>1, TwoDigits
<1>2. advance(advance(c, a), b) = r2 /\ advance(c, a + b) = (c + (a + b)) % M
  BY DEF advance
<1> HIDE DEF M
<1>3. c + a \in Nat
  BY SMT
<1>4. q \in Nat /\ r \in 0 .. M - 1 /\ c + a = M * q + r /\ M * q \in Nat
  BY <1>1, <1>3, Division
<1> HIDE DEF q, r
<1>5. r + b \in Nat
  BY <1>1, <1>4, SMT
<1>6. q2 \in Nat /\ r2 \in 0 .. M - 1 /\ r + b = M * q2 + r2 /\ M * q2 \in Nat
  BY <1>1, <1>5, Division
<1> HIDE DEF q2, r2
<1>7. c + (a + b) = (M * q + M * q2) + r2
  BY <1>1, <1>4, <1>6, SMT
<1>8. M * q + M * q2 = M * (q + q2) /\ q + q2 \in Nat
  BY <1>1, <1>4, <1>6, SMT
<1>9. (M * (q + q2) + r2) % M = r2
  BY <1>1, <1>6, <1>8, Divided
<1>10. QED
  BY <1>2, <1>7, <1>8, <1>9

\* Counting on stays within the counters, and by nothing changes nothing.
LEMMA AdvanceNothing ==
  ASSUME NEW c \in Counters, NEW a \in Nat
  PROVE  advance(c, 0) = c /\ c \in Nat /\ advance(c, a) \in Counters
<1> DEFINE M == Word * Word
<1>1. M \in Nat \ {0}
  <2>1. Word \in Nat \ {0} /\ 0 \in 0 .. Word - 1
    BY LaneAssumption, SMT
  <2>2. QED
    BY <2>1, TwoDigits
<1>2. advance(c, 0) = (c + 0) % M /\ advance(c, a) = (c + a) % M /\ Counters = 0 .. M - 1
  BY DEF advance, Counters
<1> HIDE DEF M
<1>3. c \in 0 .. M - 1 /\ c \in Nat /\ c + 0 = c /\ c + a \in Nat
  BY <1>1, <1>2, SMT
<1>4. c % M = c /\ (c + a) % M \in 0 .. M - 1
  BY <1>1, <1>3, SmallRemainder, Division
<1>5. QED
  BY <1>2, <1>3, <1>4

Backends == {"avx512", "avx2", "avx2_portable", "sse41", "sse2", "neon", "portable"}

\* The widest group that fits is one of the back end's, and fits.
LEMMA WidestFits ==
  ASSUME NEW b \in Backends, NEW left \in Nat \ {0}
  PROVE  widest(b, left) \in {1, 4, 8, 16} /\ widest(b, left) <= left
<1> DEFINE widths == groups(b)
           fit == {i \in DOMAIN widths : widths[i] <= left}
           k == CHOOSE i \in fit : \A j \in fit : i <= j
<1>1. widest(b, left) = widths[k]
  BY DEF widest
<1>2. \E m \in 1 .. 4 : /\ DOMAIN widths = 1 .. m /\ widths[m] = 1
                        /\ \A i \in 1 .. m : widths[i] \in {1, 4, 8, 16}
  <2>1. CASE b = "avx512"
    <3>1. widths = <<16, 8, 4, 1>>
      BY <2>1 DEF groups
    <3>2. DOMAIN widths = 1 .. 4 /\ widths[1] = 16 /\ widths[2] = 8 /\ widths[3] = 4 /\ widths[4] = 1
      BY <3>1
    <3> HIDE DEF widths
    <3>3. QED
      BY <3>2, SMT
  <2>2. CASE b = "avx2"
    <3>1. widths = <<8, 4, 1>>
      BY <2>2 DEF groups
    <3>2. DOMAIN widths = 1 .. 3 /\ widths[1] = 8 /\ widths[2] = 4 /\ widths[3] = 1
      BY <3>1
    <3> HIDE DEF widths
    <3>3. QED
      BY <3>2, SMT
  <2>3. CASE b = "avx2_portable"
    <3>1. widths = <<8, 1>>
      BY <2>3 DEF groups
    <3>2. DOMAIN widths = 1 .. 2 /\ widths[1] = 8 /\ widths[2] = 1
      BY <3>1
    <3> HIDE DEF widths
    <3>3. QED
      BY <3>2, SMT
  <2>4. CASE b \in {"sse41", "sse2", "neon"}
    <3>1. widths = <<4, 1>>
      BY <2>4 DEF groups
    <3>2. DOMAIN widths = 1 .. 2 /\ widths[1] = 4 /\ widths[2] = 1
      BY <3>1
    <3> HIDE DEF widths
    <3>3. QED
      BY <3>2, SMT
  <2>5. CASE b = "portable"
    <3>1. widths = <<1>>
      BY <2>5 DEF groups
    <3>2. DOMAIN widths = 1 .. 1 /\ widths[1] = 1
      BY <3>1
    <3> HIDE DEF widths
    <3>3. QED
      BY <3>2, SMT
  <2>6. QED
    BY <2>1, <2>2, <2>3, <2>4, <2>5 DEF Backends
<1> HIDE DEF widths
<1>3. \E i \in fit : \A j \in fit : i <= j
  <2>1. PICK m \in 1 .. 4 : DOMAIN widths = 1 .. m /\ widths[m] = 1
    BY <1>2
  <2>2. m \in fit /\ fit \subseteq {1, 2, 3, 4}
    BY <2>1, SMT
  <2> HIDE DEF fit
  <2>3. CASE 1 \in fit
    BY <2>2, <2>3, SMT
  <2>4. CASE 1 \notin fit /\ 2 \in fit
    BY <2>2, <2>4, SMT
  <2>5. CASE 1 \notin fit /\ 2 \notin fit /\ 3 \in fit
    BY <2>2, <2>5, SMT
  <2>6. CASE 1 \notin fit /\ 2 \notin fit /\ 3 \notin fit
    <3>1. fit = {4}
      BY <2>2, <2>6
    <3>2. QED
      BY <3>1, SMT
  <2>7. QED
    BY <2>3, <2>4, <2>5, <2>6
<1>4. k \in fit
  BY <1>3
<1> HIDE DEF k
<1>5. QED
  BY <1>1, <1>2, <1>4

\* What a lane adds to the counter of its group.
Delta(increment, i) == IF increment THEN i ELSE 0

LEMMA LaneIsNext ==
  ASSUME NEW b \in Backends, NEW w \in {1, 4, 8, 16}, NEW c \in Counters,
         NEW increment \in BOOLEAN, NEW i \in 0 .. w - 1
  PROVE  lane_counter(b, w, c, Delta(increment, i)) = advance(c, Delta(increment, i))
<1> DEFINE d == Delta(increment, i)
<1>1. d \in 0 .. 15 /\ (w = 1 => d = 0)
  BY SMT DEF Delta
<1> HIDE DEF d
<1>2. /\ lane_by_compare(c, d) = advance(c, d) /\ lane_by_sign(c, d) = advance(c, d)
      /\ lane_by_split(c, d) = advance(c, d) /\ advance(c, 0) = c
  BY <1>1, LanesCarry, AdvanceNothing
<1>3. lane_counter(b, w, c, d) \in {c, lane_by_compare(c, d), lane_by_sign(c, d), lane_by_split(c, d)}
      /\ (w = 1 => lane_counter(b, w, c, d) = c) /\ (w # 1 => lane_counter(b, w, c, d) # c \/
      lane_counter(b, w, c, d) \in {lane_by_compare(c, d), lane_by_sign(c, d), lane_by_split(c, d)})
  BY DEF lane_counter
<1>4. w # 1 => lane_counter(b, w, c, d) \in {lane_by_compare(c, d), lane_by_sign(c, d), lane_by_split(c, d)}
  BY DEF lane_counter
<1>5. QED
  BY <1>1, <1>2, <1>3, <1>4 DEF d

\* A function on the first k numbers.
Listed(s, k) == s = [i \in 1 .. k |-> s[i]]

\* A function on the first numbers is a sequence.
LEMMA FunctionIsSequence ==
  ASSUME NEW S, NEW k \in Nat, NEW s, Listed(s, k), \A i \in 1 .. k : s[i] \in S
  PROVE  s \in Seq(S) /\ Len(s) = k
<1>1. s \in [1 .. k -> S]
  BY Zenon DEF Listed
<1>2. s \in Seq(S)
  BY <1>1, SMT
<1>3. DOMAIN s = 1 .. k
  BY <1>1
<1>4. QED
  BY <1>2, <1>3, SMT

\* Concatenation, element by element.
LEMMA ConcatElements ==
  ASSUME NEW S, NEW s \in Seq(S), NEW t \in Seq(S), NEW k \in Nat, NEW m \in Nat,
         Len(s) = k, Len(t) = m
  PROVE  /\ s \o t \in Seq(S) /\ Len(s \o t) = k + m
         /\ \A i \in 1 .. k + m : (s \o t)[i] = IF i <= k THEN s[i] ELSE t[i - k]
BY ConcatProperties

\* Two sequences put behind each other.
LEMMA Joined ==
  ASSUME NEW s, NEW t, NEW u, NEW k \in Nat, NEW m \in Nat, NEW n \in Nat, n = k + m,
         Listed(s, k), Listed(t, m), Listed(u, n),
         \A i \in 1 .. k : u[i] = s[i], \A i \in 1 .. m : u[k + i] = t[i]
  PROVE  s \o t = u
<1> DEFINE S == {u[i] : i \in 1 .. n}
<1>1. \A i \in 1 .. k : s[i] \in S
  <2>1. \A i \in 1 .. k : i \in 1 .. n
    BY SMT
  <2>2. QED
    BY <2>1
<1>2. \A i \in 1 .. m : t[i] \in S
  <2>1. \A i \in 1 .. m : k + i \in 1 .. n
    BY SMT
  <2>2. QED
    BY <2>1
<1>3. \A i \in 1 .. n : u[i] \in S
  OBVIOUS
<1> HIDE DEF S
<1>4. s \in Seq(S) /\ Len(s) = k
  BY <1>1, FunctionIsSequence
<1>5. t \in Seq(S) /\ Len(t) = m
  BY <1>2, FunctionIsSequence
<1>6. u \in Seq(S) /\ Len(u) = n
  BY <1>3, FunctionIsSequence
<1>7. s \o t \in Seq(S) /\ Len(s \o t) = n
      /\ \A i \in 1 .. n : (s \o t)[i] = IF i <= k THEN s[i] ELSE t[i - k]
  BY <1>4, <1>5, ConcatElements
<1>8. \A i \in 1 .. n : (s \o t)[i] = u[i]
  <2>1. ASSUME NEW i \in 1 .. n
        PROVE  (s \o t)[i] = u[i]
    <3>1. CASE i <= k
      <4>1. i \in 1 .. k
        BY <3>1, SMT
      <4>2. QED
        BY <1>7, <3>1, <4>1
    <3>2. CASE ~ (i <= k)
      <4> DEFINE j == i - k
      <4>1. j \in 1 .. m /\ i = k + j
        BY <3>2, SMT
      <4>2. (s \o t)[i] = t[j]
        BY <1>7, <3>2
      <4> HIDE DEF j
      <4>3. QED
        BY <4>1, <4>2
    <3>3. QED
      BY <3>1, <3>2
  <2>2. QED
    BY <2>1
<1>9. QED
  BY <1>6, <1>7, <1>8, SeqEqual

\* A set of natural numbers that is not empty has a least element.
LEMMA LeastElement ==
  ASSUME NEW T \in SUBSET Nat, T # {}
  PROVE  \E m \in T : \A k \in T : m <= k
<1> DEFINE UpTo == {0 .. m : m \in T}
<1>1. UpTo # {}
  OBVIOUS
<1>2. UpTo \subseteq FiniteSubsetsOf(Nat)
  <2>1. ASSUME NEW m \in T
        PROVE  0 .. m \in FiniteSubsetsOf(Nat)
    <3>1. 0 \in Int /\ m \in Int /\ 0 .. m \subseteq Nat
      BY SMT
    <3>2. IsFiniteSet(0 .. m)
      BY <3>1, FS_Interval
    <3>3. QED
      BY <3>1, <3>2 DEF FiniteSubsetsOf
  <2>2. QED
    BY <2>1
<1>3. PICK s \in UpTo : \A t \in UpTo : ~ (<<t, s>> \in StrictSubsetOrdering(Nat))
  <2>1. IsWellFoundedOn(StrictSubsetOrdering(Nat), FiniteSubsetsOf(Nat))
    BY FS_StrictSubsetOrderingWellFounded
  <2>2. QED
    BY <1>1, <1>2, <2>1, WFMin
<1>4. PICK m \in T : s = 0 .. m
  OBVIOUS
<1>5. ASSUME NEW k \in T, k < m
      PROVE  FALSE
  <2>1. 0 .. k \subseteq Nat /\ 0 .. m \subseteq Nat /\ 0 .. k \subseteq 0 .. m /\ 0 .. k # 0 .. m
    <3>1. m \in 0 .. m /\ m \notin 0 .. k
      BY <1>5, SMT
    <3>2. 0 .. k \subseteq 0 .. m
      BY <1>5, SMT
    <3>3. QED
      BY <3>1, <3>2, SMT
  <2>2. <<0 .. k, 0 .. m>> \in StrictSubsetOrdering(Nat)
    BY <2>1 DEF StrictSubsetOrdering
  <2>3. QED
    BY <1>3, <1>4, <2>2
<1>6. QED
  BY <1>5, SMT

\* The body of the recursive function of many_counters: a group of lanes, and
\* what f says of the rest.
Grouped(b, c, n, increment, f, done) ==
  LET w == widest(b, n - done)
  IN  IF done = n THEN <<>>
      ELSE [i \in 1 .. w |-> lane_counter(b, w, advance(c, Delta(increment, done)),
                                          Delta(increment, i - 1))]
           \o f[done + w]

\* The counters that are left once some inputs are done.
CountersFrom(c, n, increment, done) ==
  [i \in 1 .. n - done |-> advance(c, Delta(increment, done + (i - 1)))]

\* A group of lanes takes the next counters.
LEMMA GroupedCounters ==
  ASSUME NEW b \in Backends, NEW c \in Counters, NEW n \in Nat, NEW increment \in BOOLEAN,
         NEW f, NEW done \in 0 .. n,
         \A k \in done + 1 .. n : f[k] = CountersFrom(c, n, increment, k)
  PROVE  Grouped(b, c, n, increment, f, done) = CountersFrom(c, n, increment, done)
<1>1. CASE done = n
  <2>1. 1 .. n - done = {}
    BY <1>1, SMT
  <2>2. CountersFrom(c, n, increment, done) = <<>>
    BY <2>1 DEF CountersFrom
  <2>3. QED
    BY <1>1, <2>2 DEF Grouped
<1>2. CASE done # n
  <2> DEFINE w == widest(b, n - done)
             at == advance(c, Delta(increment, done))
             s == [i \in 1 .. w |-> lane_counter(b, w, at, Delta(increment, i - 1))]
             t == CountersFrom(c, n, increment, done + w)
             u == CountersFrom(c, n, increment, done)
  <2>1. n - done \in Nat \ {0}
    BY <1>2, SMT
  <2>2. w \in {1, 4, 8, 16} /\ w <= n - done
    BY <2>1, WidestFits
  <2>3. w \in Nat \ {0} /\ done + w \in done + 1 .. n /\ n - (done + w) \in Nat
        /\ n - done = w + (n - (done + w))
    BY <2>1, <2>2, SMT
  <2>4. Grouped(b, c, n, increment, f, done) = s \o t
    BY <1>2, <2>3 DEF Grouped
  <2>5. Delta(increment, done) \in Nat /\ at \in Counters /\ c \in Nat
    BY AdvanceNothing, SMT DEF Delta
  <2>6. ASSUME NEW i \in 1 .. w
        PROVE  u[i] = s[i]
    <3>1. i - 1 \in 0 .. w - 1 /\ i \in 1 .. n - done /\ Delta(increment, i - 1) \in Nat
          /\ Delta(increment, done) + Delta(increment, i - 1) = Delta(increment, done + (i - 1))
      BY <2>2, <2>3, SMT DEF Delta
    <3>2. s[i] = lane_counter(b, w, at, Delta(increment, i - 1))
      OBVIOUS
    <3>3. lane_counter(b, w, at, Delta(increment, i - 1)) = advance(at, Delta(increment, i - 1))
      <4> HIDE DEF w, at
      <4>1. QED
        BY <2>2, <2>5, <3>1, LaneIsNext
    <3>4. advance(at, Delta(increment, i - 1)) = advance(c, Delta(increment, done + (i - 1)))
      BY <2>5, <3>1, AdvanceTwice
    <3>5. u[i] = advance(c, Delta(increment, done + (i - 1)))
      BY <3>1 DEF CountersFrom
    <3>6. QED
      BY <3>2, <3>3, <3>4, <3>5
  <2>7. ASSUME NEW i \in 1 .. n - (done + w)
        PROVE  u[w + i] = t[i]
    <3>1. w + i \in 1 .. n - done /\ done + ((w + i) - 1) = (done + w) + (i - 1)
      BY <2>2, <2>3, SMT
    <3> HIDE DEF w
    <3>2. u[w + i] = advance(c, Delta(increment, done + ((w + i) - 1)))
      BY <3>1 DEF CountersFrom
    <3>3. t[i] = advance(c, Delta(increment, (done + w) + (i - 1)))
      BY DEF CountersFrom
    <3>4. QED
      BY <3>1, <3>2, <3>3
  <2>8. Listed(s, w) /\ Listed(t, n - (done + w)) /\ Listed(u, n - done)
    BY DEF Listed, CountersFrom
  <2> HIDE DEF s, t, u, w
  <2>9. s \o t = u
    <3> DEFINE m == n - (done + w)
               k == n - done
    <3>1. w \in Nat /\ m \in Nat /\ k \in Nat /\ k = w + m
      BY <2>1, <2>3
    <3>2. Listed(s, w) /\ Listed(t, m) /\ Listed(u, k)
      BY <2>8
    <3>3. (\A i \in 1 .. w : u[i] = s[i]) /\ (\A i \in 1 .. m : u[w + i] = t[i])
      BY <2>6, <2>7
    <3> HIDE DEF m, k
    <3>4. QED
      BY <3>1, <3>2, <3>3, Joined
  <2>10. QED
    BY <2>4, <2>9 DEF u
<1>3. QED
  BY <1>1, <1>2

\* Whatever the back end and the groups it makes, the counters of its inputs
\* are those of inputs counted one by one.
THEOREM CountersRight ==
  ASSUME NEW b \in Backends, NEW c \in Counters, NEW n \in Nat, NEW increment \in BOOLEAN
  PROVE  many_counters(b, c, n, increment) = [i \in 1 .. n |-> advance(c, Delta(increment, i - 1))]
<1> DEFINE G(f) == [done \in 0 .. n |-> Grouped(b, c, n, increment, f, done)]
           from == CHOOSE f : f = G(f)
           g == [done \in 0 .. n |-> CountersFrom(c, n, increment, done)]
<1>1. many_counters(b, c, n, increment) = from[0]
  BY DEF many_counters, Grouped, Delta
<1>2. g = G(g)
  <2>1. ASSUME NEW done \in 0 .. n
        PROVE  g[done] = Grouped(b, c, n, increment, g, done)
    <3>1. ASSUME NEW k \in done + 1 .. n
          PROVE  g[k] = CountersFrom(c, n, increment, k)
      <4>1. k \in 0 .. n
        BY SMT
      <4>2. QED
        BY <4>1
    <3>2. g[done] = CountersFrom(c, n, increment, done)
      OBVIOUS
    <3> HIDE DEF g
    <3>3. Grouped(b, c, n, increment, g, done) = CountersFrom(c, n, increment, done)
      BY <3>1, GroupedCounters
    <3>4. QED
      BY <3>2, <3>3
  <2>2. QED
    BY <2>1, Zenon
<1> HIDE DEF g
<1>3. from = G(from)
  BY <1>2, Zenon
<1> HIDE DEF from
<1>4. \A done \in 0 .. n : from[done] = Grouped(b, c, n, increment, from, done)
  BY <1>3
<1>5. \A done \in 0 .. n : from[done] = CountersFrom(c, n, increment, done)
  <2> DEFINE Wrong == {k \in 0 .. n : from[n - k] # CountersFrom(c, n, increment, n - k)}
  <2>1. CASE Wrong = {}
    <3>1. ASSUME NEW done \in 0 .. n
          PROVE  from[done] = CountersFrom(c, n, increment, done)
      <4> DEFINE k == n - done
      <4>1. k \in 0 .. n /\ n - k = done
        BY SMT
      <4> HIDE DEF k
      <4>2. k \notin Wrong
        BY <2>1
      <4>3. QED
        BY <4>1, <4>2
    <3>2. QED
      BY <3>1
  <2>2. CASE Wrong # {}
    <3>1. Wrong \in SUBSET Nat
      BY SMT
    <3> HIDE DEF Wrong
    <3>2. PICK k \in Wrong : \A j \in Wrong : k <= j
      BY <2>2, <3>1, LeastElement
    <3> DEFINE done == n - k
    <3>3. k \in 0 .. n /\ done \in 0 .. n /\ from[done] # CountersFrom(c, n, increment, done)
      <4>1. k \in 0 .. n /\ from[n - k] # CountersFrom(c, n, increment, n - k)
        BY DEF Wrong
      <4>2. QED
        BY <4>1, SMT
    <3>4. ASSUME NEW m \in done + 1 .. n
          PROVE  from[m] = CountersFrom(c, n, increment, m)
      <4> DEFINE j == n - m
      <4>1. j \in 0 .. n /\ ~ (k <= j) /\ n - j = m
        BY <3>3, SMT
      <4> HIDE DEF j
      <4>2. j \notin Wrong
        BY <3>2, <4>1
      <4>3. QED
        BY <4>1, <4>2 DEF Wrong
    <3> HIDE DEF done
    <3>5. Grouped(b, c, n, increment, from, done) = CountersFrom(c, n, increment, done)
      BY <3>3, <3>4, GroupedCounters
    <3>6. QED
      BY <1>4, <3>3, <3>5
  <2>3. QED
    BY <2>1, <2>2
<1>6. from[0] = CountersFrom(c, n, increment, 0)
  <2>1. 0 \in 0 .. n
    BY SMT
  <2>2. QED
    BY <1>5, <2>1
<1>7. CountersFrom(c, n, increment, 0) = [i \in 1 .. n |-> advance(c, Delta(increment, i - 1))]
  <2>1. n - 0 = n /\ \A i \in 1 .. n : 0 + (i - 1) = i - 1
    BY SMT
  <2>2. QED
    BY <2>1 DEF CountersFrom
<1>8. QED
  BY <1>1, <1>6, <1>7

-----------------------------------------------------------------------------
(* The bytes of a read. *)

\* The bytes of the stream from a position on.
Bytes(p, n) == Stream!StreamBytes(p, n)

LEMMA BytesListed ==
  ASSUME NEW p \in Nat, NEW n \in Nat
  PROVE  /\ Listed(Bytes(p, n), n)
         /\ \A i \in 1 .. n : Bytes(p, n)[i] = Stream!StreamByte(p + i - 1)
         /\ Len(Bytes(p, n)) = n
         /\ (n = 0 => Bytes(p, n) = <<>>)
<1> DEFINE s == Bytes(p, n)
           S == {s[i] : i \in 1 .. n}
<1>1. s = [i \in 1 .. n |-> Stream!StreamByte(p + i - 1)]
  BY DEF Bytes, Stream!StreamBytes
<1>2. Listed(s, n) /\ \A i \in 1 .. n : s[i] = Stream!StreamByte(p + i - 1)
  BY <1>1 DEF Listed
<1>3. \A i \in 1 .. n : s[i] \in S
  OBVIOUS
<1>4. n = 0 => s = <<>>
  <2>1. 1 .. 0 = {}
    BY SMT
  <2>2. QED
    BY <1>1, <2>1
<1> HIDE DEF s, S
<1>5. Len(s) = n
  BY <1>2, <1>3, FunctionIsSequence
<1>6. QED
  BY <1>2, <1>4, <1>5 DEF s

\* Two reads in a row.
LEMMA BytesJoined ==
  ASSUME NEW p \in Nat, NEW a \in Nat, NEW b \in Nat
  PROVE  Bytes(p, a) \o Bytes(p + a, b) = Bytes(p, a + b)
<1> DEFINE s == Bytes(p, a)
           t == Bytes(p + a, b)
           u == Bytes(p, a + b)
           n == a + b
<1>1. n \in Nat /\ n = a + b /\ p + a \in Nat
  BY SMT
<1>2. /\ Listed(s, a) /\ Listed(t, b) /\ Listed(u, n)
      /\ \A i \in 1 .. a : s[i] = Stream!StreamByte(p + i - 1)
      /\ \A i \in 1 .. b : t[i] = Stream!StreamByte((p + a) + i - 1)
      /\ \A i \in 1 .. n : u[i] = Stream!StreamByte(p + i - 1)
  BY <1>1, BytesListed
<1> HIDE DEF s, t, u, n
<1>3. \A i \in 1 .. a : u[i] = s[i]
  <2>1. \A i \in 1 .. a : i \in 1 .. n
    BY <1>1, SMT
  <2>2. QED
    BY <1>2, <2>1
<1>4. \A i \in 1 .. b : u[a + i] = t[i]
  <2>1. \A i \in 1 .. b : a + i \in 1 .. n /\ p + (a + i) - 1 = (p + a) + i - 1
    BY <1>1, SMT
  <2>2. QED
    BY <1>2, <2>1
<1>5. s \o t = u
  BY <1>1, <1>2, <1>3, <1>4, Joined
<1>6. QED
  BY <1>5 DEF s, t, u, n

\* Bytes of one block.
LEMMA BlockIsBytes ==
  ASSUME NEW c \in Nat, NEW first \in Nat, NEW m \in Nat, first + m <= BlockLen
  PROVE  block_bytes(c, first, m) = Bytes(BlockLen * c + first, m)
<1>1. BlockLen \in Nat \ {0}
  BY OutputAssumption
<1>2. ASSUME NEW i \in 1 .. m
      PROVE  Stream!StreamByte((BlockLen * c + first) + i - 1) = <<c, first + i - 1>>
  <2> DEFINE r == first + i - 1
             q == BlockLen * c
  <2>1. r \in 0 .. BlockLen - 1
    BY <1>1, SMT
  <2>2. q \in Nat
    BY <1>1, Monotonic, SMT
  <2>3. (BlockLen * c + r) \div BlockLen = c /\ (BlockLen * c + r) % BlockLen = r
    <3> HIDE DEF r
    <3>1. QED
      BY <1>1, <2>1, Divided
  <2> HIDE DEF q
  <2>4. (q + first) + i - 1 = q + r
    BY <2>2, SMT
  <2> HIDE DEF r
  <2>5. Stream!StreamByte((q + first) + i - 1) = <<c, r>>
    BY <2>3, <2>4 DEF Stream!StreamByte, q
  <2>6. QED
    BY <2>5 DEF q, r
<1>3. block_bytes(c, first, m) = [i \in 1 .. m |-> <<c, first + i - 1>>]
  BY DEF block_bytes
<1>4. Bytes(BlockLen * c + first, m)
        = [i \in 1 .. m |-> Stream!StreamByte((BlockLen * c + first) + i - 1)]
  BY DEF Bytes, Stream!StreamBytes
<1>5. QED
  BY <1>2, <1>3, <1>4

\* Below the last position no counter wraps.
LEMMA NoWrap ==
  ASSUME NEW c \in Nat, BlockLen * c <= MaxPosition
  PROVE  c \in Counters
<1> DEFINE m == Word * Word
<1>1. BlockLen \in Nat \ {0} /\ BlockLen \in Nat /\ MaxPosition \in Nat
  BY OutputAssumption
<1>2. m \in Nat \ {0} /\ m \in Nat
  <2>1. Word \in Nat \ {0} /\ 0 \in 0 .. Word - 1
    BY LaneAssumption, SMT
  <2>2. QED
    BY <2>1, TwoDigits, SMT
<1>3. MaxPosition + 1 <= BlockLen * m
  <2>1. BlockLen * Word * Word = BlockLen * (Word * Word)
    BY <1>1, LaneAssumption, SMT
  <2>2. MaxPosition + 1 <= BlockLen * Word * Word
    BY OutputAssumption
  <2>3. QED
    BY <2>1, <2>2
<1>4. Counters = 0 .. m - 1
  BY DEF Counters
<1> HIDE DEF m
<1>5. c < m
  <2>1. ASSUME m <= c
        PROVE  FALSE
    <3> DEFINE x == BlockLen * m
               y == BlockLen * c
    <3>1. x \in Nat /\ y \in Nat /\ x <= y
      BY <1>1, <1>2, <2>1, Monotonic
    <3>2. y <= MaxPosition /\ MaxPosition + 1 <= x
      BY <1>3
    <3> HIDE DEF x, y
    <3>3. QED
      BY <1>1, <3>1, <3>2, SMT
  <2>2. QED
    BY <1>2, <2>1, SMT
<1>6. QED
  BY <1>2, <1>4, <1>5, SMT

\* Whole blocks, in any groups.
LEMMA BlocksAreBytes ==
  ASSUME NEW c \in Nat, NEW k \in Nat, BlockLen * (c + k) <= MaxPosition, backend \in Backends
  PROVE  xof_many(c, k) = Bytes(BlockLen * c, k * BlockLen)
<1>1. BlockLen \in Nat \ {0} /\ BlockLen \in Nat
  BY OutputAssumption
<1>2. c + k \in Nat /\ c <= c + k
  BY SMT
<1>3. BlockLen * c \in Nat /\ BlockLen * c <= MaxPosition
  <2> DEFINE x == BlockLen * c
             y == BlockLen * (c + k)
  <2>1. x \in Nat /\ y \in Nat /\ x <= y /\ y <= MaxPosition
    BY <1>1, <1>2, Monotonic
  <2> HIDE DEF x, y
  <2>2. x \in Nat /\ x <= MaxPosition
    BY <2>1, OutputAssumption, SMT
  <2>3. QED
    BY <2>2 DEF x
<1>4. c \in Counters /\ c + k \in Counters
  BY <1>2, <1>3, NoWrap
<1>5. \A j \in 0 .. k : advance(c, j) = c + j
  <2> DEFINE m == Word * Word
  <2>1. ASSUME NEW j \in 0 .. k
        PROVE  advance(c, j) = c + j
    <3>1. Counters = 0 .. m - 1 /\ advance(c, j) = (c + j) % m
      BY DEF Counters, advance
    <3>2. m \in Nat \ {0}
      <4>1. Word \in Nat \ {0} /\ 0 \in 0 .. Word - 1
        BY LaneAssumption, SMT
      <4>2. QED
        BY <4>1, TwoDigits
    <3> HIDE DEF m
    <3>3. c + j \in 0 .. m - 1
      BY <1>4, <3>1, <3>2, SMT
    <3>4. QED
      BY <3>1, <3>2, <3>3, SmallRemainder
  <2>2. QED
    BY <2>1
<1> DEFINE counters == many_counters(backend, c, k, TRUE)
           n == k * BlockLen
<1>6. counters = [i \in 1 .. k |-> advance(c, i - 1)]
  <2>1. counters = [i \in 1 .. k |-> advance(c, Delta(TRUE, i - 1))]
    BY <1>4, CountersRight
  <2>2. QED
    BY <2>1 DEF Delta
<1>7. xof_many(c, k) = [i \in 1 .. n |-> <<counters[((i - 1) \div BlockLen) + 1], (i - 1) % BlockLen>>]
  BY DEF xof_many
<1>8. Bytes(BlockLen * c, n) = [i \in 1 .. n |-> Stream!StreamByte(BlockLen * c + i - 1)]
  BY DEF Bytes, Stream!StreamBytes
<1> HIDE DEF counters
<1>9. ASSUME NEW i \in 1 .. n
      PROVE  <<counters[((i - 1) \div BlockLen) + 1], (i - 1) % BlockLen>>
               = Stream!StreamByte(BlockLen * c + i - 1)
  <2> DEFINE x == i - 1
             q == x \div BlockLen
             r == x % BlockLen
  <2>1. n \in Nat /\ n = BlockLen * k
    BY <1>1, SMT
  <2>2. x \in Nat /\ x < n
    BY <2>1, SMT
  <2> HIDE DEF x
  <2>3. q \in Nat /\ r \in 0 .. BlockLen - 1 /\ x = BlockLen * q + r /\ BlockLen * q \in Nat
    BY <1>1, <2>2, Division
  <2> HIDE DEF q, r
  <2>4. q < k
    <3>1. ASSUME k <= q
          PROVE  FALSE
      <4> DEFINE y == BlockLen * q
      <4>1. y \in Nat /\ n <= y
        BY <1>1, <2>1, <2>3, <3>1, Monotonic
      <4>2. x = y + r /\ r \in Nat
        BY <1>1, <2>3, SMT
      <4> HIDE DEF n, y
      <4>3. QED
        BY <2>1, <2>2, <4>1, <4>2, SMT
    <3>2. QED
      BY <2>3, <3>1, SMT
  <2>5. q + 1 \in 1 .. k /\ (q + 1) - 1 = q /\ q \in 0 .. k
    BY <2>3, <2>4, SMT
  <2>6. counters[q + 1] = c + q
    BY <1>5, <1>6, <2>5
  <2>7. BlockLen * c + i - 1 = BlockLen * (c + q) + r
    <3>1. BlockLen * (c + q) = BlockLen * c + BlockLen * q
      BY <1>1, <2>3, SMT
    <3>2. i \in Nat /\ i - 1 = BlockLen * q + r
      BY <2>1, <2>3, SMT DEF x
    <3> DEFINE y == BlockLen * q
               z == BlockLen * c
    <3>3. y \in Nat /\ z \in Nat /\ r \in Nat
      BY <1>1, <1>3, <2>3, SMT
    <3> HIDE DEF y, z
    <3>4. z + i - 1 = (z + y) + r
      BY <3>2, <3>3, SMT DEF y
    <3>5. QED
      BY <3>1, <3>4 DEF y, z
  <2>8. c + q \in Nat
    BY <2>3, SMT
  <2>9. (BlockLen * (c + q) + r) \div BlockLen = c + q /\ (BlockLen * (c + q) + r) % BlockLen = r
    BY <1>1, <2>3, <2>8, Divided
  <2>10. Stream!StreamByte(BlockLen * c + i - 1) = <<c + q, r>>
    BY <2>7, <2>9 DEF Stream!StreamByte
  <2>11. QED
    BY <2>6, <2>10 DEF q, r, x
<1>10. QED
  BY <1>7, <1>8, <1>9

-----------------------------------------------------------------------------
(* The reader.  A reader r that started at position p has read n bytes: it  *)
(* stands n bytes further, and they are the bytes of the stream.            *)

Reading(r, p, n) ==
  /\ r.counter \in Nat
  /\ r.within \in 0 .. BlockLen - 1
  /\ BlockLen * r.counter + r.within = p + n
  /\ r.out = Bytes(p, n)

\* fill_one_block reads up to the end of the block.
LEMMA OneBlockRead ==
  ASSUME NEW p \in Nat, NEW read \in Nat, NEW n \in Nat, NEW r, Reading(r, p, read),
         NEW take, take = AtMost(n, BlockLen - r.within)
  PROVE  /\ take \in 0 .. n
         /\ Reading(fill_one_block(r, n), p, read + take)
         /\ take = n \/ fill_one_block(r, n).within = 0
<1> DEFINE c == r.counter
           w == r.within
           q == BlockLen * c
           full == w + take = BlockLen
           s == fill_one_block(r, n)
<1>1. BlockLen \in Nat /\ BlockLen > 0 /\ c \in Nat /\ w \in 0 .. BlockLen - 1
  BY OutputAssumption DEF Reading
<1>2. q \in Nat /\ q + w = p + read /\ r.out = Bytes(p, read)
  <2>1. q \in Nat
    BY <1>1, Monotonic
  <2>2. QED
    BY <2>1 DEF Reading
<1>3. take = AtMost(n, BlockLen - w)
  OBVIOUS
<1>4. /\ s.counter = IF full THEN c + 1 ELSE c
      /\ s.within = IF full THEN 0 ELSE w + take
      /\ s.out = r.out \o block_bytes(c, w, take)
  BY <1>3, Zenon DEF fill_one_block
<1>5. BlockLen * (c + 1) = q + BlockLen
  BY <1>1, SMT
<1>6. block_bytes(c, w, take) = Bytes(q + w, take)
  <2>1. take \in Nat /\ w \in Nat /\ w + take <= BlockLen
    <3> HIDE DEF w
    <3>1. QED
      BY <1>1, <1>3, SMT DEF AtMost
  <2> HIDE DEF w, c
  <2>2. QED
    BY <1>1, <2>1, BlockIsBytes DEF q
<1> HIDE DEF c, w, q, s
<1>7. /\ take \in 0 .. n
      /\ s.counter \in Nat /\ s.within \in 0 .. BlockLen - 1
      /\ take = n \/ s.within = 0
  BY <1>1, <1>3, <1>4, SMT DEF AtMost
<1>8. BlockLen * s.counter + s.within = p + (read + take)
  <2>1. CASE full
    <3>1. BlockLen * s.counter = q + BlockLen /\ s.within = 0
      BY <1>4, <1>5, <2>1
    <3>2. (q + BlockLen) + 0 = p + (read + take)
      BY <1>1, <1>2, <1>7, <2>1, SMT
    <3>3. QED
      BY <3>1, <3>2
  <2>2. CASE ~ full
    <3>1. BlockLen * s.counter = q /\ s.within = w + take
      BY <1>4, <2>2 DEF q
    <3>2. q + (w + take) = p + (read + take)
      BY <1>1, <1>2, <1>7, SMT
    <3>3. QED
      BY <3>1, <3>2
  <2>3. QED
    BY <2>1, <2>2
<1>9. s.out = Bytes(p, read + take)
  <2>1. take \in Nat
    BY <1>7, SMT
  <2>2. Bytes(p, read) \o Bytes(p + read, take) = Bytes(p, read + take)
    BY <2>1, BytesJoined
  <2>3. QED
    BY <1>2, <1>4, <1>6, <2>2
<1>10. QED
  BY <1>7, <1>8, <1>9 DEF Reading, s

\* The reader after the blocks of xof_many, and what fill ends with.
Moved(r, blocks) ==
  [r EXCEPT !.counter = @ + blocks, !.out = @ \o xof_many(r.counter, blocks)]
Edge(start, n) == IF n > 0 /\ start.within # 0 THEN fill_one_block(start, n) ELSE start
Filled(start, n) ==
  LET edge   == Edge(start, n)
      blocks == (n - Len(edge.out)) \div BlockLen
      many   == Moved(edge, blocks)
      left   == n - Len(many.out)
  IN  IF left > 0 THEN fill_one_block(many, left) ELSE many

\* A reader's fields.
Fields(r) == \E c, w, out : r = [counter |-> c, within |-> w, out |-> out]

LEMMA BlocksRead ==
  ASSUME NEW p \in Nat, NEW read \in Nat, NEW k \in Nat, NEW r, Fields(r), Reading(r, p, read),
         backend \in Backends, r.within = 0 \/ k = 0,
         p + read + k * BlockLen <= MaxPosition
  PROVE  /\ Reading(Moved(r, k), p, read + k * BlockLen)
         /\ Moved(r, k).within = r.within
<1> DEFINE c == r.counter
           w == r.within
           q == BlockLen * c
           s == Moved(r, k)
           m == k * BlockLen
<1>1. /\ BlockLen \in Nat /\ BlockLen > 0 /\ c \in Nat /\ w \in 0 .. BlockLen - 1
      /\ MaxPosition \in Nat
  BY OutputAssumption DEF Reading
<1>2. q \in Nat /\ q + w = p + read /\ r.out = Bytes(p, read)
  <2>1. q \in Nat
    BY <1>1, Monotonic
  <2>2. QED
    BY <2>1 DEF Reading
<1>3. s.counter = c + k /\ s.within = w /\ s.out = r.out \o xof_many(c, k)
  BY SMT DEF Moved, Fields
<1>4. m \in Nat /\ BlockLen * (c + k) = q + m
  <2>1. m = BlockLen * k /\ BlockLen * k \in Nat
    BY <1>1, Monotonic, SMT
  <2>2. BlockLen * (c + k) = q + BlockLen * k
    BY <1>1, SMT
  <2>3. QED
    BY <2>1, <2>2
<1>5. w = 0 \/ (k = 0 /\ m = 0)
  BY <1>1, SMT
<1> HIDE DEF w
<1>6. Bytes(p, read) \o xof_many(c, k) = Bytes(p, read + m)
  <2>1. xof_many(c, k) = Bytes(q, m)
    <3>1. BlockLen * (c + k) <= MaxPosition
      <4>1. q + m <= MaxPosition
        <5> HIDE DEF q, m
        <5>1. q <= p + read /\ p + read + m <= MaxPosition
          BY <1>1, <1>2, SMT DEF m
        <5>2. QED
          BY <1>1, <1>2, <1>4, <5>1, SMT
      <4>2. QED
        BY <1>4, <4>1
    <3> HIDE DEF c
    <3>2. QED
      BY <1>1, <3>1, BlocksAreBytes DEF q, m
  <2> HIDE DEF q, m, c
  <2>2. xof_many(c, k) = Bytes(p + read, m)
    <3>1. CASE w = 0
      <4>1. q = p + read
        BY <1>2, <3>1, SMT
      <4>2. QED
        BY <2>1, <4>1
    <3>2. CASE w # 0
      <4>1. m = 0 /\ p + read \in Nat
        BY <1>5, <3>2, SMT
      <4>2. Bytes(q, m) = <<>> /\ Bytes(p + read, m) = <<>>
        BY <1>2, <1>4, <4>1, BytesListed
      <4>3. QED
        BY <2>1, <4>2
    <3>3. QED
      BY <3>1, <3>2
  <2>3. Bytes(p, read) \o Bytes(p + read, m) = Bytes(p, read + m)
    <3>1. m \in Nat
      BY <1>4
    <3>2. QED
      BY <3>1, BytesJoined
  <2>4. QED
    BY <2>2, <2>3
<1> HIDE DEF c, q, m, s
<1>7. BlockLen * s.counter + s.within = p + (read + m)
  <2>1. (q + m) + w = p + (read + m)
    BY <1>1, <1>2, <1>4, SMT
  <2>2. QED
    BY <1>3, <1>4, <2>1
<1>8. s.counter \in Nat /\ s.within \in 0 .. BlockLen - 1 /\ s.out = Bytes(p, read + m)
  <2>1. c + k \in Nat
    BY <1>1, SMT
  <2>2. QED
    BY <1>1, <1>2, <1>3, <1>6, <2>1
<1>9. QED
  BY <1>3, <1>7, <1>8 DEF Reading, s, m, w

\* fill reads what it was asked for.
LEMMA AllRead ==
  ASSUME NEW p \in Nat, NEW n \in Nat, NEW start, Fields(start), Reading(start, p, 0),
         backend \in Backends, p + n <= MaxPosition
  PROVE  Reading(Filled(start, n), p, n)
<1> DEFINE edge == Edge(start, n)
           e == Len(edge.out)
           blocks == (n - e) \div BlockLen
           many == Moved(edge, blocks)
           left == n - Len(many.out)
           done == IF left > 0 THEN fill_one_block(many, left) ELSE many
<1>1. BlockLen \in Nat \ {0} /\ BlockLen \in Nat /\ MaxPosition \in Nat
  BY OutputAssumption
<1>2. \E x \in 0 .. n : Fields(edge) /\ Reading(edge, p, x) /\ (x = n \/ edge.within = 0)
  <2>1. CASE n > 0 /\ start.within # 0
    <3> DEFINE take == AtMost(n, BlockLen - start.within)
    <3>1. edge = fill_one_block(start, n)
      BY <2>1 DEF Edge
    <3>2. /\ take \in 0 .. n
          /\ Reading(fill_one_block(start, n), p, 0 + take)
          /\ take = n \/ fill_one_block(start, n).within = 0
      BY OneBlockRead
    <3>3. Fields(fill_one_block(start, n))
      BY DEF Fields, fill_one_block
    <3> HIDE DEF take
    <3>4. 0 + take = take
      BY <3>2, SMT
    <3>5. QED
      BY <3>1, <3>2, <3>3, <3>4
  <2>2. CASE ~ (n > 0 /\ start.within # 0)
    <3>1. edge = start
      BY <2>2 DEF Edge
    <3>2. 0 \in 0 .. n /\ (0 = n \/ start.within = 0)
      BY <2>2, SMT
    <3>3. QED
      BY <3>1, <3>2
  <2>3. QED
    BY <2>1, <2>2
<1> HIDE DEF edge
<1>3. /\ e \in 0 .. n /\ e \in Nat /\ n - e \in Nat
      /\ Fields(edge) /\ Reading(edge, p, e) /\ (e = n \/ edge.within = 0)
  <2>1. PICK x \in 0 .. n : Fields(edge) /\ Reading(edge, p, x) /\ (x = n \/ edge.within = 0)
    BY <1>2
  <2>2. x \in Nat /\ n - x \in Nat
    BY <2>1, SMT
  <2>3. e = x
    BY <2>1, <2>2, BytesListed DEF Reading
  <2>4. QED
    BY <2>1, <2>2, <2>3
<1> DEFINE rest == (n - e) % BlockLen
<1>4. /\ blocks \in Nat /\ rest \in 0 .. BlockLen - 1 /\ BlockLen * blocks \in Nat
      /\ n - e = BlockLen * blocks + rest
  BY <1>1, <1>3, Division
<1>5. e = n => (blocks = 0 /\ rest = 0)
  <2>1. SUFFICES ASSUME e = n PROVE blocks = 0 /\ rest = 0
    OBVIOUS
  <2>2. n - e = 0 /\ 0 \in 0 .. BlockLen - 1
    BY <1>1, <2>1, SMT
  <2>3. BlockLen * 0 + 0 = 0
    BY <1>1, SMT
  <2>4. (BlockLen * 0 + 0) \div BlockLen = 0 /\ (BlockLen * 0 + 0) % BlockLen = 0
    BY <1>1, <2>2, Divided
  <2>5. QED
    BY <2>2, <2>3, <2>4
<1> HIDE DEF e, blocks, rest
<1> DEFINE m == blocks * BlockLen
<1>6. m \in Nat /\ e + m \in Nat /\ n = (e + m) + rest /\ p + e + m <= MaxPosition
  <2>1. m = BlockLen * blocks /\ m \in Nat
    BY <1>1, <1>4, SMT
  <2>2. n - e = m + rest
    BY <1>4, <2>1
  <2> HIDE DEF m
  <2>3. QED
    BY <1>1, <1>3, <1>4, <2>1, <2>2, SMT
<1>7. Reading(many, p, e + m) /\ many.within = edge.within
  BY <1>3, <1>4, <1>5, <1>6, BlocksRead
<1> HIDE DEF m, many
<1>8. Len(many.out) = e + m
  BY <1>6, <1>7, BytesListed DEF Reading
<1>9. left = rest /\ rest \in Nat /\ rest < BlockLen
  BY <1>1, <1>4, <1>6, <1>8, SMT
<1> HIDE DEF left
<1>10. Reading(done, p, n)
  <2>1. CASE left = 0
    <3>1. done = many /\ e + m = n
      BY <1>6, <1>9, <2>1, SMT
    <3>2. QED
      BY <1>7, <3>1
  <2>2. CASE left # 0
    <3>1. done = fill_one_block(many, left)
      BY <1>9, <2>2, SMT
    <3>2. many.within = 0
      BY <1>3, <1>5, <1>7, <1>9, <2>2
    <3> DEFINE take == AtMost(left, BlockLen - many.within)
    <3>3. take = left
      BY <1>1, <1>9, <3>2, SMT DEF AtMost
    <3>4. Reading(fill_one_block(many, left), p, (e + m) + take)
      <4> HIDE DEF take
      <4>1. take = AtMost(left, BlockLen - many.within)
        BY DEF take
      <4>2. QED
        BY <1>6, <1>7, <1>9, <4>1, OneBlockRead
    <3>5. QED
      BY <1>6, <1>9, <3>1, <3>3, <3>4
  <2>3. QED
    BY <2>1, <2>2
<1>11. done = Filled(start, n)
  BY Zenon DEF Filled, left, many, blocks, e, edge
<1>12. QED
  BY <1>10, <1>11

-----------------------------------------------------------------------------
(* The calls. *)

ReaderInv ==
  /\ counter \in Nat
  /\ within \in 0 .. BlockLen - 1
  /\ backend \in Backends
  /\ position <= MaxPosition

\* Where the reader stands.
LEMMA Position ==
  ASSUME ReaderInv
  PROVE  position \in Nat /\ position = BlockLen * counter + within
<1>1. BlockLen \in Nat /\ BlockLen > 0
  BY OutputAssumption
<1> DEFINE q == BlockLen * counter
<1>2. q \in Nat /\ counter * BlockLen = q
  BY <1>1, Monotonic, SMT DEF ReaderInv
<1>3. position = q + within
  BY <1>2 DEF position
<1> HIDE DEF q
<1>4. position \in Nat
  BY <1>1, <1>2, <1>3, SMT DEF ReaderInv
<1>5. QED
  BY <1>3, <1>4 DEF q

LEMMA FillStep ==
  ASSUME ReaderInv, NEW n \in 0 .. MaxRead, Fill(n)
  PROVE  ReaderInv' /\ Stream!Read(n)
<1> DEFINE p == position
           start == [counter |-> counter, within |-> within, out |-> <<>>]
           done == Filled(start, n)
<1>1. BlockLen \in Nat /\ BlockLen > 0 /\ MaxPosition \in Nat /\ n \in Nat
  BY OutputAssumption, SMT
<1>2. counter' = done.counter /\ within' = done.within /\ returned' = done.out
  <2> DEFINE edge == IF n > 0 /\ within # 0 THEN fill_one_block(start, n) ELSE start
             blocks == (n - Len(edge.out)) \div BlockLen
             many == [edge EXCEPT !.counter = @ + blocks, !.out = @ \o xof_many(edge.counter, blocks)]
             left == n - Len(many.out)
             final == IF left > 0 THEN fill_one_block(many, left) ELSE many
  <2>1. counter' = final.counter /\ within' = final.within /\ returned' = final.out
    BY Zenon DEF Fill
  <2>2. edge = Edge(start, n)
    BY DEF Edge
  <2> HIDE DEF edge
  <2>3. many = Moved(edge, blocks)
    BY Zenon DEF Moved
  <2> HIDE DEF many
  <2>4. final = done
    BY <2>2, <2>3, Zenon DEF Filled
  <2>5. QED
    BY <2>1, <2>4
<1>3. /\ returned = <<>> /\ p + n <= MaxPosition /\ backend' = backend
  BY DEF Fill
<1>4. p \in Nat /\ p = BlockLen * counter + within
  BY Position
<1>5. Bytes(p, 0) = <<>>
  <2> HIDE DEF p
  <2>1. QED
    BY <1>4, BytesListed
<1>6. Fields(start) /\ Reading(start, p, 0)
  <2>1. p + 0 = p
    <3> HIDE DEF p
    <3>1. QED
      BY <1>4, SMT
  <2>2. Fields(start)
    BY DEF Fields
  <2>3. start.counter = counter /\ start.within = within /\ start.out = <<>>
    OBVIOUS
  <2>4. QED
    BY <1>4, <1>5, <2>1, <2>2, <2>3 DEF Reading, ReaderInv
<1>7. Reading(done, p, n)
  <2> HIDE DEF p, start
  <2>1. QED
    BY <1>1, <1>3, <1>4, <1>6, AllRead DEF ReaderInv
<1> HIDE DEF done, p
<1>8. /\ counter' \in Nat /\ within' \in 0 .. BlockLen - 1
      /\ BlockLen * counter' + within' = p + n
      /\ returned' = Bytes(p, n)
  BY <1>2, <1>7 DEF Reading
<1>9. position' = p + n
  <2>1. position' = BlockLen * counter' + within'
    <3>1. counter' * BlockLen = BlockLen * counter'
      BY <1>1, <1>8, SMT
    <3>2. position' = counter' * BlockLen + within'
      BY DEF position
    <3>3. QED
      BY <3>1, <3>2
  <2>2. QED
    BY <1>8, <2>1
<1>10. ReaderInv'
  BY <1>3, <1>8, <1>9 DEF ReaderInv
<1>11. Stream!Read(n)
  BY <1>3, <1>8, <1>9 DEF Stream!Read, Stream!Nothing, Bytes, p
<1>12. QED
  BY <1>10, <1>11

LEMMA SeekStep ==
  ASSUME ReaderInv, NEW target \in Int, SeekTo(target)
  PROVE  ReaderInv' /\ Stream!Seek(target)
<1>1. BlockLen \in Nat \ {0} /\ MaxPosition \in Nat
  BY OutputAssumption
<1>2. backend' = backend /\ returned = <<>> /\ returned' = returned
  BY DEF SeekTo
<1>3. CASE target < 0
  <2>1. counter' = counter /\ within' = within
    BY <1>3 DEF SeekTo
  <2>2. position' = position
    BY <2>1 DEF position
  <2>3. QED
    BY <1>2, <1>3, <2>1, <2>2 DEF ReaderInv, Stream!Seek, Stream!Nothing
<1>4. CASE ~ (target < 0)
  <2> DEFINE p == AtMost(target, MaxPosition)
             q == p \div BlockLen
             r == p % BlockLen
  <2>1. counter' = q /\ within' = r
    BY <1>4 DEF SeekTo
  <2>2. p \in Nat /\ p <= MaxPosition
        /\ p = IF target > MaxPosition THEN MaxPosition ELSE target
    BY <1>1, <1>4, SMT DEF AtMost
  <2> HIDE DEF p
  <2>3. q \in Nat /\ r \in 0 .. BlockLen - 1 /\ p = BlockLen * q + r
    BY <1>1, <2>2, Division
  <2> HIDE DEF q, r
  <2>4. position' = p
    <3>1. counter' * BlockLen = BlockLen * q
      BY <1>1, <2>1, <2>3, SMT
    <3>2. position' = counter' * BlockLen + within'
      BY DEF position
    <3>3. QED
      BY <2>1, <2>3, <3>1, <3>2
  <2>5. ReaderInv'
    BY <1>2, <2>1, <2>2, <2>3, <2>4 DEF ReaderInv
  <2>6. Stream!Seek(target)
    BY <1>2, <1>4, <2>2, <2>4 DEF Stream!Seek, Stream!Nothing
  <2>7. QED
    BY <2>5, <2>6
<1>5. QED
  BY <1>3, <1>4

\* The C function: the end of a block, whole blocks, the beginning of one.
LEMMA RootBytesStep ==
  ASSUME ReaderInv, NEW p \in 0 .. MaxPosition, NEW n \in 0 .. MaxRead, output_root_bytes(p, n)
  PROVE  ReaderInv' /\ Stream!ReadAt(p, n)
<1> DEFINE c == p \div BlockLen
           offset == p % BlockLen
           edge == IF offset > 0 THEN AtMost(n, BlockLen - offset) ELSE 0
           c1 == IF n > 0 /\ offset > 0 THEN c + 1 ELSE c
           d == n - edge
           blocks == d \div BlockLen
           left == d % BlockLen
           first == block_bytes(c, offset, edge)
           middle == xof_many(c1, blocks)
           last == block_bytes(c1 + blocks, 0, left)
<1>1. BlockLen \in Nat \ {0} /\ BlockLen \in Nat /\ BlockLen > 0 /\ MaxPosition \in Nat /\ n \in Nat /\ p \in Nat
  BY OutputAssumption, SMT
<1>2. /\ returned = <<>> /\ p + n <= MaxPosition
      /\ returned' = first \o middle \o last
      /\ UNCHANGED <<counter, within, library, backend>>
  BY Zenon DEF output_root_bytes
<1> HIDE DEF first, middle, last
<1>3. c \in Nat /\ offset \in 0 .. BlockLen - 1 /\ BlockLen * c \in Nat /\ p = BlockLen * c + offset
  BY <1>1, Division
<1> HIDE DEF c, offset
<1>4. /\ edge \in Nat /\ d \in Nat /\ n = edge + d /\ offset + edge <= BlockLen
      /\ c1 \in Nat
  BY <1>1, <1>3, SMT DEF AtMost
\* the whole blocks begin at a boundary, or there is nothing after the edge
<1>5. d = 0 \/ p + edge = BlockLen * c1
  <2>1. BlockLen * (c + 1) = BlockLen * c + BlockLen
    BY <1>1, <1>3, SMT
  <2>2. CASE offset > 0 /\ n > 0
    <3>1. c1 = c + 1 /\ (edge = n \/ edge = BlockLen - offset)
      BY <2>2, Zenon DEF AtMost
    <3> HIDE DEF edge
    <3>2. d = 0 \/ edge = BlockLen - offset
      BY <1>1, <1>4, <3>1, SMT
    <3> DEFINE y == BlockLen * c
    <3>3. y \in Nat /\ p = y + offset
      BY <1>3
    <3> HIDE DEF y
    <3>4. edge = BlockLen - offset => p + edge = y + BlockLen
      BY <1>1, <1>3, <3>3, SMT
    <3>5. QED
      BY <2>1, <3>1, <3>2, <3>4 DEF y
  <2>3. CASE offset > 0 /\ ~ (n > 0)
    <3>1. d = 0
      BY <1>1, <1>4, <2>3, SMT
    <3>2. QED
      BY <3>1
  <2>4. CASE ~ (offset > 0)
    <3>1. edge = 0 /\ c1 = c /\ offset = 0
      BY <1>1, <1>3, <2>4, SMT
    <3> DEFINE y == BlockLen * c
    <3>2. y \in Nat /\ p = y + offset
      BY <1>3
    <3> HIDE DEF y
    <3>3. p + 0 = y
      BY <3>1, <3>2, SMT
    <3>4. QED
      BY <3>1, <3>3 DEF y
  <2>5. QED
    BY <2>2, <2>3, <2>4
<1> HIDE DEF edge, d, c1
<1>6. blocks \in Nat /\ left \in 0 .. BlockLen - 1 /\ BlockLen * blocks \in Nat
      /\ d = BlockLen * blocks + left
  BY <1>1, <1>4, Division
<1>7. d = 0 => (blocks = 0 /\ left = 0)
  <2>1. SUFFICES ASSUME d = 0 PROVE blocks = 0 /\ left = 0
    OBVIOUS
  <2>2. 0 \in Nat /\ 0 \in 0 .. BlockLen - 1 /\ BlockLen * 0 + 0 = 0
    BY <1>1, SMT
  <2>3. (BlockLen * 0 + 0) \div BlockLen = 0 /\ (BlockLen * 0 + 0) % BlockLen = 0
    BY <1>1, <2>2, Divided
  <2>4. QED
    BY <2>1, <2>2, <2>3
<1> HIDE DEF blocks, left
<1> DEFINE m == blocks * BlockLen
<1>8. m \in Nat /\ left \in Nat /\ left <= BlockLen /\ d = m + left /\ (blocks = 0 => m = 0)
      /\ BlockLen * (c1 + blocks) = BlockLen * c1 + m
  <2>1. m = BlockLen * blocks
    BY <1>1, <1>6, SMT
  <2>2. BlockLen * (c1 + blocks) = BlockLen * c1 + BlockLen * blocks
    BY <1>1, <1>4, <1>6, SMT
  <2>3. blocks = 0 => m = 0
    BY <1>1, SMT
  <2> HIDE DEF m
  <2>4. left \in Nat /\ left <= BlockLen
    BY <1>1, <1>6, SMT
  <2>5. QED
    BY <1>6, <2>1, <2>2, <2>3, <2>4
<1> HIDE DEF m
<1>9. /\ p + edge \in Nat /\ (p + edge) + m \in Nat /\ edge + m \in Nat
      /\ (p + edge) + m = p + (edge + m)
      /\ (p + edge) + m <= MaxPosition /\ n = (edge + m) + left
  BY <1>1, <1>2, <1>4, <1>8, SMT
<1>10. first = Bytes(p, edge)
  <2>1. offset \in Nat
    BY <1>1, <1>3, SMT
  <2>2. QED
    BY <1>3, <1>4, <2>1, BlockIsBytes DEF first
<1>11. middle = Bytes(p + edge, m) /\ last = Bytes((p + edge) + m, left)
  <2>1. CASE d = 0
    <3>1. blocks = 0 /\ m = 0 /\ left = 0
      BY <1>7, <1>8, <2>1
    <3>2. middle = <<>>
      <4>1. Delta(TRUE, 0) = 0
        BY DEF Delta
      <4> DEFINE counters == many_counters(backend, c1, 0, TRUE)
      <4>2. middle = [i \in 1 .. 0 * BlockLen |->
                        <<counters[((i - 1) \div BlockLen) + 1], (i - 1) % BlockLen>>]
        BY <3>1 DEF middle, xof_many
      <4> HIDE DEF counters
      <4>3. 1 .. 0 * BlockLen = {}
        BY <1>1, SMT
      <4>4. QED
        BY <4>2, <4>3
    <3>3. last = <<>>
      <4>1. last = [i \in 1 .. 0 |-> <<c1 + blocks, 0 + i - 1>>]
        BY <3>1 DEF last, block_bytes
      <4>2. 1 .. 0 = {}
        BY SMT
      <4>3. QED
        BY <4>1, <4>2
    <3>4. Bytes(p + edge, m) = <<>> /\ Bytes((p + edge) + m, left) = <<>>
      BY <1>8, <1>9, <3>1, BytesListed
    <3>5. QED
      BY <3>2, <3>3, <3>4
  <2>2. CASE d # 0
    <3>1. p + edge = BlockLen * c1
      BY <1>5, <2>2
    <3>2. BlockLen * (c1 + blocks) = (p + edge) + m
      BY <1>8, <3>1
    <3>3. middle = Bytes(p + edge, m)
      <4>1. BlockLen * (c1 + blocks) <= MaxPosition
        BY <1>9, <3>2
      <4>2. middle = Bytes(BlockLen * c1, blocks * BlockLen)
        BY <1>4, <1>6, <4>1, BlocksAreBytes DEF middle, ReaderInv
      <4>3. QED
        BY <3>1, <4>2 DEF m
    <3>4. last = Bytes((p + edge) + m, left)
      <4> DEFINE k == c1 + blocks
      <4>1. k \in Nat /\ 0 \in Nat /\ 0 + left <= BlockLen
        BY <1>4, <1>6, <1>8, SMT
      <4>2. last = Bytes(BlockLen * k + 0, left)
        <5>1. last = block_bytes(k, 0, left)
          BY DEF last
        <5> HIDE DEF k
        <5>2. QED
          BY <1>8, <4>1, <5>1, BlockIsBytes
      <4>3. BlockLen * k + 0 = (p + edge) + m
        <5>1. BlockLen * k = (p + edge) + m
          BY <3>2
        <5> HIDE DEF k
        <5>2. QED
          BY <1>9, <5>1, SMT
      <4>4. QED
        BY <4>2, <4>3
    <3>5. QED
      BY <3>3, <3>4
  <2>3. QED
    BY <2>1, <2>2
<1>12. returned' = Bytes(p, n)
  <2>1. Bytes(p, edge) \o Bytes(p + edge, m) = Bytes(p, edge + m)
    BY <1>1, <1>4, <1>8, BytesJoined
  <2>2. Bytes(p, edge + m) \o Bytes(p + (edge + m), left) = Bytes(p, (edge + m) + left)
    BY <1>1, <1>8, <1>9, BytesJoined
  <2>3. QED
    BY <1>2, <1>9, <1>10, <1>11, <2>1, <2>2
<1>13. ReaderInv' /\ position' = position
  BY <1>2 DEF ReaderInv, position
<1>14. Stream!ReadAt(p, n)
  BY <1>2, <1>12, <1>13 DEF Stream!ReadAt, Stream!Nothing, Bytes
<1>15. QED
  BY <1>13, <1>14

\* Whatever reads and seeks a caller makes, and whichever back end computes
\* the blocks, the reader of the crate and the function of the C library
\* return the bytes of the one stream.
THEOREM ReaderImplementsStream == ReaderSpec => StreamSpec
<1>1. ReaderInit => ReaderInv /\ Stream!Init
  <2>1. SUFFICES ASSUME ReaderInit PROVE ReaderInv /\ Stream!Init
    OBVIOUS
  <2>2. counter = 0 /\ within = 0 /\ returned = <<>> /\ backend \in Backends
    BY <2>1 DEF ReaderInit, Backends
  <2>3. BlockLen \in Nat \ {0} /\ MaxPosition \in Nat
    BY OutputAssumption
  <2>4. position = 0
    BY <2>2, <2>3, SMT DEF position
  <2>5. QED
    BY <2>2, <2>3, <2>4, SMT DEF ReaderInv, Stream!Init, Stream!Nothing
<1>2. ReaderInv /\ [ReaderNext]_reader => ReaderInv' /\ [Stream!Next]_(Stream!vars)
  <2>1. SUFFICES ASSUME ReaderInv, [ReaderNext]_reader
                 PROVE  ReaderInv' /\ [Stream!Next]_(Stream!vars)
    OBVIOUS
  <2>2. CASE Use
    <3>1. returned' = <<>> /\ UNCHANGED <<counter, within, library, backend>>
      BY <2>2 DEF Use
    <3>2. ReaderInv' /\ position' = position
      BY <2>1, <3>1 DEF ReaderInv, position
    <3>3. Stream!Use
      BY <3>1, <3>2 DEF Stream!Use, Stream!Nothing
    <3>4. QED
      BY <3>2, <3>3 DEF Stream!Next
  <2>3. ASSUME NEW n \in 0 .. MaxRead, Fill(n)
        PROVE  ReaderInv' /\ [Stream!Next]_(Stream!vars)
    BY <2>1, <2>3, FillStep DEF Stream!Next
  <2>4. ASSUME NEW p \in SeekPositions, SeekTo(p)
        PROVE  ReaderInv' /\ [Stream!Next]_(Stream!vars)
    <3>1. p \in Int
      BY OutputAssumption
    <3>2. ReaderInv' /\ Stream!Seek(p)
      BY <2>1, <2>4, <3>1, SeekStep
    <3>3. QED
      BY <3>2 DEF Stream!Next
  <2>5. ASSUME NEW d \in SeekOffsets, SeekTo(position + d)
        PROVE  ReaderInv' /\ [Stream!Next]_(Stream!vars)
    <3>1. position \in Nat /\ d \in Int
      BY <2>1, Position, OutputAssumption
    <3>2. position + d \in Int
      <4> DEFINE x == position
      <4> HIDE DEF x
      <4>1. x \in Nat => x + d \in Int
        BY <3>1, SMT
      <4>2. QED
        BY <3>1, <4>1 DEF x
    <3>3. ReaderInv' /\ Stream!Seek(position + d)
      BY <2>1, <2>5, <3>2, SeekStep
    <3>4. QED
      BY <3>3 DEF Stream!Next
  <2>6. ASSUME NEW p \in 0 .. MaxPosition, NEW n \in 0 .. MaxRead, output_root_bytes(p, n)
        PROVE  ReaderInv' /\ [Stream!Next]_(Stream!vars)
    BY <2>1, <2>6, RootBytesStep DEF Stream!Next
  <2>7. CASE UNCHANGED reader
    BY <2>1, <2>7 DEF reader, ReaderInv, position, Stream!vars
  <2>8. QED
    BY <2>1, <2>2, <2>3, <2>4, <2>5, <2>6, <2>7 DEF ReaderNext
<1>3. QED
  BY <1>1, <1>2, PTL DEF ReaderSpec, StreamSpec, Stream!Spec
=============================================================================
