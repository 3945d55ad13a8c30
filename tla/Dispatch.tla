------------------------------ MODULE Dispatch ------------------------------
(***************************************************************************)
(* Run-time dispatch of c/blake3_dispatch.c: threads that hash at the same *)
(* time, each finding out what the processor can do or reading what        *)
(* another thread found out.  They compress single blocks, write extended  *)
(* output, or ask how many inputs to hash side by side and hash them.      *)
(***************************************************************************)
EXTENDS LaneCounters, FiniteSets

CONSTANTS Threads,      \* threads that hash
          MaxOutblocks  \* most output blocks of one call of blake3_xof_many

ASSUME DispatchAssumption == MaxOutblocks \in Nat

VARIABLES arch,      \* "x86", "neon" or "other": IS_X86 and BLAKE3_USE_NEON
          built,     \* back ends not excluded by BLAKE3_NO_...
          cpu,       \* features of the processor
          os,        \* the registers the operating system saves: xgetbv()
          g_cpu_features,  \* the cache, shared by all threads
          thread,    \* what each thread is doing
          ran        \* the kernel just run, or none

vars == <<arch, built, cpu, os, g_cpu_features, thread, ran>>

UNDEFINED == {"UNDEFINED"}

\* Processors of the x86 line: each generation has the features before it.
Generations == {{"SSE2"}, {"SSE2", "SSE41"}, {"SSE2", "SSE41", "AVX2"},
                {"SSE2", "SSE41", "AVX2", "AVX512F", "AVX512VL"}}

needs == [avx512 |-> {"AVX512F", "AVX512VL"}, avx2 |-> {"AVX2"},
          sse41 |-> {"SSE41"}, sse2 |-> {"SSE2"}]

\* Builds with every back end, without one of them, without AVX-512's
\* xof_many (Windows), and without any.
Builds == LET all == DOMAIN needs
          IN  {all, {}, all \cup {"avx512_xof"}} \cup {all \ {b} : b \in all}

\* What a thread knows between two calls of the hasher.
Idle == [pc |-> "idle", call |-> "none", features |-> {}, degree |-> 0, left |-> 0]
None == [call |-> "none", backend |-> "none", degree |-> 0]

Init ==
  /\ arch \in {"x86", "neon", "other"}
  /\ cpu \in Generations
  /\ os \in {"sse", "avx", "avx512"}
  /\ built \in Builds
  /\ arch # "x86" => built = {} /\ cpu = {"SSE2"} /\ os = "sse"
  /\ g_cpu_features = UNDEFINED
  /\ thread = [t \in Threads |-> Idle]
  /\ ran = None

-----------------------------------------------------------------------------
\* Mutant of detected: whatever the operating system saves.
detected_on_cpu == cpu

\* What get_cpu_features finds: the features of the processor, without those
\* whose registers the operating system does not save.
detected ==
  {f \in cpu : /\ f = "AVX2" => os \in {"avx", "avx512"}
               /\ f \in {"AVX512F", "AVX512VL"} => os = "avx512"}

\* The first of the candidates that was built and whose features are there.
first_of(candidates, features, else) ==
  LET fit == {i \in DOMAIN candidates : /\ candidates[i][1] \in built
                                        /\ candidates[i][2] \subseteq features}
  IN  IF fit = {} THEN else
      ELSE candidates[CHOOSE i \in fit : \A j \in fit : i <= j][1]

hash_many_backend(features) ==
  LET b == first_of(<<<<"avx512", {"AVX512F", "AVX512VL"}>>, <<"avx2", {"AVX2"}>>,
                      <<"sse41", {"SSE41"}>>, <<"sse2", {"SSE2"}>>>>,
                    features, IF arch = "neon" THEN "neon" ELSE "portable")
  IN  IF b = "avx2" /\ "sse41" \notin built THEN "avx2_portable" ELSE b

\* Mutant of simd_degree: whatever was built.
simd_degree_of_cpu(features) ==
  IF {"AVX512F", "AVX512VL"} \subseteq features THEN 16
  ELSE IF "AVX2" \in features THEN 8
  ELSE IF "SSE2" \in features \/ arch = "neon" THEN 4 ELSE 1

\* blake3_simd_degree, which makes the same tests on its own.
simd_degree(features) ==
  IF "avx512" \in built /\ {"AVX512F", "AVX512VL"} \subseteq features THEN 16
  ELSE IF "avx2" \in built /\ "AVX2" \in features THEN 8
  ELSE IF "sse41" \in built /\ "SSE41" \in features THEN 4
  ELSE IF "sse2" \in built /\ "SSE2" \in features THEN 4
  ELSE IF arch = "neon" THEN 4 ELSE 1

\* Single blocks: one of the two features of AVX-512 is tested, and there is
\* neither an AVX2 nor a NEON kernel.
compress_backend(features) ==
  first_of(<<<<"avx512", {"AVX512VL"}>>, <<"sse41", {"SSE41"}>>, <<"sse2", {"SSE2"}>>>>,
           features, "portable")

xof_at_once(features) == "avx512_xof" \in built /\ "AVX512VL" \in features

-----------------------------------------------------------------------------
\* A thread enters a function of this file.  On x86 each begins with
\* get_cpu_features, which reads the cache once.
Begins(t, call, outblocks) ==
  LET cached == g_cpu_features # UNDEFINED
  IN  /\ thread' = [thread EXCEPT
           ![t].call = call,
           ![t].left = outblocks,
           ![t].pc = IF arch = "x86" /\ ~ cached THEN "detect" ELSE "known",
           ![t].features = IF arch = "x86" /\ cached THEN g_cpu_features ELSE {}]
      /\ ran' = None
      /\ UNCHANGED <<arch, built, cpu, os, g_cpu_features>>

\* The hasher asks for the degree before it hashes; blake3_xof_many returns at
\* once when asked for nothing.
Enter(t) ==
  \/ /\ thread[t].pc = "idle"
     /\ \E call \in {"simd_degree", "compress_in_place", "compress_xof"} : Begins(t, call, 1)
  \/ thread[t].pc = "idle" /\ \E n \in 1 .. MaxOutblocks : Begins(t, "xof_many", n)
  \/ thread[t].pc = "degree" /\ Begins(t, "hash_many", 0)
  \/ thread[t].pc = "loop" /\ Begins(t, "compress_xof", thread[t].left)

\* Mutant of Detect: the features are gathered in the cache itself.
DetectInPlace(t) ==
  /\ thread[t].pc = "detect"
  /\ IF g_cpu_features = UNDEFINED
     THEN g_cpu_features' = {} /\ UNCHANGED thread
     ELSE /\ g_cpu_features' = detected
          /\ thread' = [thread EXCEPT ![t].pc = "known", ![t].features = detected]
  /\ ran' = None
  /\ UNCHANGED <<arch, built, cpu, os>>

\* The rest of get_cpu_features: the features are gathered in a local, and
\* stored in the cache when complete, whether or not another thread has.
Detect(t) ==
  /\ thread[t].pc = "detect"
  /\ g_cpu_features' = detected
  /\ thread' = [thread EXCEPT ![t].pc = "known", ![t].features = detected]
  /\ ran' = None
  /\ UNCHANGED <<arch, built, cpu, os>>

Knows(t, calls) ==
  /\ thread[t].pc = "known" /\ thread[t].call \in calls
  /\ UNCHANGED <<arch, built, cpu, os, g_cpu_features>>

ReturnDegree(t) ==
  /\ Knows(t, {"simd_degree"})
  /\ thread' = [thread EXCEPT ![t].pc = "degree", ![t].degree = simd_degree(thread[t].features)]
  /\ ran' = None

\* Hash inputs, at most as many as the degree promised.
HashMany(t) ==
  /\ Knows(t, {"hash_many"})
  /\ ran' = [call |-> "hash_many", degree |-> thread[t].degree,
             backend |-> hash_many_backend(thread[t].features)]
  /\ thread' = [thread EXCEPT ![t] = Idle]

\* Compress a block, alone or as one of the loop of blake3_xof_many.
Compress(t) ==
  /\ Knows(t, {"compress_in_place", "compress_xof"})
  /\ ran' = [call |-> thread[t].call, degree |-> 1,
             backend |-> compress_backend(thread[t].features)]
  /\ thread' = [thread EXCEPT ![t] =
       IF thread[t].left = 1 THEN Idle
       ELSE [Idle EXCEPT !.pc = "loop", !.left = thread[t].left - 1]]

\* All output blocks at once, or a call of blake3_compress_xof for each.
XofMany(t) ==
  /\ Knows(t, {"xof_many"})
  /\ IF xof_at_once(thread[t].features)
     THEN /\ ran' = [call |-> "xof_many", degree |-> thread[t].left, backend |-> "avx512"]
          /\ thread' = [thread EXCEPT ![t] = Idle]
     ELSE /\ ran' = None
          /\ thread' = [thread EXCEPT ![t] = [Idle EXCEPT !.pc = "loop", !.left = thread[t].left]]

Next == \E t \in Threads : Enter(t) \/ Detect(t) \/ ReturnDegree(t)
                            \/ HashMany(t) \/ Compress(t) \/ XofMany(t)

Spec == Init /\ [][Next]_vars

-----------------------------------------------------------------------------
\* No kernel runs on a processor, or under an operating system, that does not
\* support its instructions, whichever thread did the detection and whichever
\* function tested for it.
OnlySupportedInstructions ==
  LET b == IF ran.backend = "avx2_portable" THEN "avx2" ELSE ran.backend
  IN  b \in DOMAIN needs =>
        /\ needs[b] \subseteq cpu
        /\ b = "avx2" => os # "sse"
        /\ b = "avx512" => os = "avx512"

\* The degree that sizes the arrays and the back end that hashes are chosen by
\* two calls that read the cache at different times: they agree, for the
\* degree is the widest group of the back end.
DegreeMatchesBackend ==
  ran.call = "hash_many" => groups(ran.backend)[1] = ran.degree

\* A result of the detection, once visible, is complete and never changes.
CacheStable ==
  [][ g_cpu_features # UNDEFINED => g_cpu_features' = g_cpu_features ]_vars
=============================================================================
