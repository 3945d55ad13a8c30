---------------------------- MODULE CryptoRuntime ----------------------------
(***************************************************************************)
(* The crypto runtime of rmr/crypto/runtime: each function checks its      *)
(* arguments, asks OpenSSL for objects, makes a few calls with them, each  *)
(* of which may fail, frees what it got and returns a code: 0 for done, -1 *)
(* for an error, 1 for a signature or a tag that does not fit.             *)
(*                                                                         *)
(* A function is a sequence of steps.  What OpenSSL computes is not        *)
(* modelled: only whether a call works, which of the caller's buffers it   *)
(* fills, and the lengths it reports where the code computes with them.    *)
(***************************************************************************)
EXTENDS Integers, Sequences, FiniteSets

CONSTANTS Lengths,   \* lengths, and numbers of iterations, a caller may pass
          IntMax,    \* INT_MAX
          Capacities \* values of out_cap

ASSUME CryptoAssumption == Lengths \subseteq Nat /\ IntMax \in Nat /\ Capacities \subseteq Nat

VARIABLES call,    \* the function called and its arguments
          phase,   \* "idle", "body", "done" (freeing) or "returned"
          pc,      \* the step of the body
          object,  \* the objects asked for: "none", "null", "live" or "freed"
          frees,   \* the objects still to be freed
          n, total,\* lengths OpenSSL reported
          filled,  \* the caller's buffers that were written
          failed,  \* whether an OpenSSL call of this function failed
          rc       \* the code to be returned

runtime == <<call, phase, pc, object, frees, n, total, filled, failed, rc>>

-----------------------------------------------------------------------------
\* The functions: pointers that may not be NULL, pointers that may be NULL if
\* their length is 0, and other numbers.
parameters ==
  LET p(needs, sized, numbers) == [needs |-> needs, sized |-> sized, numbers |-> numbers]
      edwards == [public |-> p({"seed", "public_key"}, {}, {}),
                  sign |-> p({"seed", "signature"}, {"message"}, {}),
                  verify |-> p({"public_key", "signature"}, {"message"}, {})]
      montgomery == [public |-> p({"private_key", "public_key"}, {}, {}),
                     shared |-> p({"private_key", "peer_public_key", "shared_secret"}, {}, {})]
  IN  [digest |-> p({"out", "out_len"}, {"input"}, {}),
       xof |-> p({"out"}, {"input"}, {}),
       hmac_sha256 |-> p({"out"}, {"key", "input"}, {}),
       hmac_sha512 |-> p({"out"}, {"key", "input"}, {}),
       hkdf_sha256 |-> p({"out"}, {"ikm", "salt", "info"}, {}),
       ed25519_public_from_seed |-> edwards.public,
       ed25519_sign |-> edwards.sign,
       ed25519_verify |-> edwards.verify,
       ed448_public_from_seed |-> edwards.public,
       ed448_sign |-> edwards.sign,
       ed448_verify |-> edwards.verify,
       x25519_public_from_private |-> montgomery.public,
       x25519_shared_secret |-> montgomery.shared,
       x448_public_from_private |-> montgomery.public,
       x448_shared_secret |-> montgomery.shared,
       pbkdf2_hmac_sha256 |-> p({"out"}, {"password", "salt"}, {"iterations", "out_len"}),
       aead_encrypt |-> p({"key", "nonce", "ciphertext", "tag"}, {"aad", "plaintext"}, {}),
       aead_decrypt |-> p({"key", "nonce", "plaintext", "tag"}, {"aad", "ciphertext"}, {})]

\* Bytes of each digest.
digest_for ==
  [MD5 |-> 16, SHA1 |-> 20, SHA256 |-> 32, SHA512 |-> 64, SHA3_256 |-> 32, BLAKE2B_512 |-> 64,
   SHA224 |-> 28, SHA384 |-> 48, SHA3_512 |-> 64, BLAKE2S_256 |-> 32, SHA512_224 |-> 28,
   SHA512_256 |-> 32, SHA3_224 |-> 28, SHA3_384 |-> 48, SM3 |-> 32]
xof_for == {"SHAKE128", "SHAKE256"}
cipher_for == {"CHACHA20_POLY1305", "AES_256_GCM"}
Algorithms == DOMAIN digest_for \cup xof_for \cup cipher_for \cup {"BLAKE3"}

\* The capacity of out that a digest needs; BLAKE3's adapter has its own test.
digest_size(algorithm) == IF algorithm = "BLAKE3" THEN 32 ELSE digest_for[algorithm]

supported(a) ==
  CASE a.fn = "digest" -> a.algorithm \in DOMAIN digest_for \cup {"BLAKE3"}
                          /\ a.out_cap >= digest_size(a.algorithm)
    [] a.fn = "xof" -> a.algorithm \in xof_for
    [] a.fn \in {"aead_encrypt", "aead_decrypt"} -> a.algorithm \in cipher_for
    [] OTHER -> TRUE

\* The lengths that are passed on as an int.
fits_int(a) ==
  a.fn \in {"aead_encrypt", "aead_decrypt", "pbkdf2_hmac_sha256"} =>
    \A p \in DOMAIN a.len : a.len[p] <= IntMax

\* The tests at the head of each function.
accepted(a) ==
  /\ supported(a) /\ fits_int(a)
  /\ a.null \cap parameters[a.fn].needs = {}
  /\ \A p \in a.null : a.len[p] = 0
  /\ a.fn = "pbkdf2_hmac_sha256" => a.len["iterations"] # 0

-----------------------------------------------------------------------------
\* The steps.  New asks for an object; Test leaves the function, to the label
\* done or at once, if one it got is NULL; Do makes a call with objects, leaves
\* if it fails or reports another length than expected, and fills buffers.
New(makes, uses) == [does |-> "new", makes |-> makes, uses |-> uses]
Test(objects, exit) == [does |-> "test", objects |-> objects, exit |-> exit, uses |-> {}]
Do(uses, fills) == [does |-> "call", uses |-> uses, fills |-> fills, n |-> -1]
\* A call that reports the length it processed, whatever it does with it.
Update(fills, length) == [does |-> "call", uses |-> {"ctx"}, fills |-> fills, n |-> length]
\* The final call of an encryption, which adds to the length so far.
Final == [does |-> "final", uses |-> {"ctx"}]
\* The test of the length so far.
Whole(length) == [does |-> "whole", length |-> length, uses |-> {}]
\* A call that decides about a signature or a tag.
Decide(uses, length) == [does |-> "decide", uses |-> uses, length |-> length]

If(condition, steps) == IF condition THEN steps ELSE <<>>
Function(body, freed) == [body |-> body, freed |-> freed]

blake3_digest == Function(<<[does |-> "sure", fills |-> {"out", "out_len"}, uses |-> {}]>>, <<>>)
digest(a) == IF a.algorithm = "BLAKE3" THEN blake3_digest
             ELSE Function(<<Do({}, {"out", "out_len"})>>, <<>>)

xof ==
  Function(<<New("ctx", {}), Test({"ctx"}, "return"),
             Do({"ctx"}, {}), Do({"ctx"}, {}), Do({"ctx"}, {"out"})>>, <<"ctx">>)

hmac_named(a) ==
  Function(<<New("mac", {}), Test({"mac"}, "done"),
             New("ctx", {"mac"}), Test({"ctx"}, "done"), Do({"ctx"}, {})>>
           \o If(a.len["input"] # 0, <<Do({"ctx"}, {})>>)
           \o <<Do({"ctx"}, {"out"})>>, <<"ctx", "mac">>)

hkdf_sha256 ==
  Function(<<New("kdf", {}), Test({"kdf"}, "done"),
             New("ctx", {"kdf"}), Test({"ctx"}, "done"), Do({"ctx"}, {"out"})>>, <<"ctx", "kdf">>)

\* The public key of a private one, for each of the four curves.
public_key ==
  Function(<<New("pkey", {}), Test({"pkey"}, "return"), Do({"pkey"}, {"public_key"})>>, <<"pkey">>)
ed25519_public_from_seed == public_key
ed448_public_from_seed == public_key
x25519_public_from_private == public_key
x448_public_from_private == public_key

\* Both objects are asked for before either is tested.
signing ==
  Function(<<New("pkey", {}), New("ctx", {}), Test({"pkey", "ctx"}, "done"),
             Do({"ctx", "pkey"}, {}), Do({"ctx", "pkey"}, {"signature"})>>, <<"ctx", "pkey">>)
ed25519_sign == signing
ed448_sign == signing

\* Mutant of verifying: the first exit forgets to free.
verifying_leaking ==
  Function(<<New("pkey", {}), New("ctx", {}), Test({"pkey", "ctx"}, "return"),
             Do({"ctx", "pkey"}, {}), Decide({"ctx", "pkey"}, 0)>>, <<"ctx", "pkey">>)

verifying ==
  Function(<<New("pkey", {}), New("ctx", {}), Test({"pkey", "ctx"}, "done"),
             Do({"ctx", "pkey"}, {}), Decide({"ctx", "pkey"}, 0)>>, <<"ctx", "pkey">>)
ed25519_verify == verifying
ed448_verify == verifying

agreement ==
  Function(<<New("priv", {}), New("peer", {}), Test({"priv", "peer"}, "done"),
             New("ctx", {"priv"}), Test({"ctx"}, "done"),
             Do({"ctx"}, {}), Do({"ctx", "peer"}, {}), Do({"ctx"}, {"shared_secret"})>>,
           <<"ctx", "peer", "priv">>)
x25519_shared_secret == agreement
x448_shared_secret == agreement

pbkdf2_hmac_sha256 == Function(<<Do({}, {"out"})>>, <<>>)

\* The cipher, the length of the nonce, the key, the data that is only
\* authenticated, if any, and the payload, if any.
aead_head(a, input, output) ==
  <<New("ctx", {}), Test({"ctx"}, "return"),
    Do({"ctx"}, {}), Do({"ctx"}, {}), Do({"ctx"}, {})>>
  \o If(a.len["aad"] # 0, <<Update({}, a.len["aad"])>>)
  \o If(a.len[input] # 0, <<Update({output}, a.len[input])>>)

\* Mutant of aead_encrypt: the tag is fetched before the length is tested.
aead_encrypt_tag_early(a) ==
  Function(aead_head(a, "plaintext", "ciphertext")
           \o <<Final, Do({"ctx"}, {"tag"}), Whole(a.len["plaintext"])>>, <<"ctx">>)

aead_encrypt(a) ==
  Function(aead_head(a, "plaintext", "ciphertext")
           \o <<Final, Whole(a.len["plaintext"]), Do({"ctx"}, {"tag"})>>, <<"ctx">>)

\* The tag is set before the final call, which checks it.
aead_decrypt(a) ==
  Function(aead_head(a, "ciphertext", "plaintext")
           \o <<Do({"ctx"}, {}), Decide({"ctx"}, a.len["ciphertext"])>>, <<"ctx">>)

function(a) ==
  CASE a.fn = "digest" -> digest(a)
    [] a.fn = "xof" -> xof
    [] a.fn \in {"hmac_sha256", "hmac_sha512"} -> hmac_named(a)
    [] a.fn = "hkdf_sha256" -> hkdf_sha256
    [] a.fn = "ed25519_public_from_seed" -> ed25519_public_from_seed
    [] a.fn = "ed25519_sign" -> ed25519_sign
    [] a.fn = "ed25519_verify" -> ed25519_verify
    [] a.fn = "ed448_public_from_seed" -> ed448_public_from_seed
    [] a.fn = "ed448_sign" -> ed448_sign
    [] a.fn = "ed448_verify" -> ed448_verify
    [] a.fn = "x25519_public_from_private" -> x25519_public_from_private
    [] a.fn = "x25519_shared_secret" -> x25519_shared_secret
    [] a.fn = "x448_public_from_private" -> x448_public_from_private
    [] a.fn = "x448_shared_secret" -> x448_shared_secret
    [] a.fn = "pbkdf2_hmac_sha256" -> pbkdf2_hmac_sha256
    [] a.fn = "aead_encrypt" -> aead_encrypt(a)
    [] a.fn = "aead_decrypt" -> aead_decrypt(a)

-----------------------------------------------------------------------------
Objects == {"ctx", "mac", "kdf", "pkey", "priv", "peer"}
Idle == [fn |-> "none"]

RuntimeInit ==
  /\ call = Idle /\ phase = "idle" /\ pc = 1
  /\ object = [o \in Objects |-> "none"] /\ frees = <<>>
  /\ n = 0 /\ total = 0 /\ filled = {} /\ failed = FALSE /\ rc = -1

\* The arguments of a call; genuine tells whether the signature, or the
\* ciphertext and its tag, fit the rest.
Arguments(fn) ==
  LET p == parameters[fn]
  IN  [fn : {fn}, null : {s \in SUBSET (p.needs \cup p.sized) : Cardinality(s) <= 1},
       len : [p.sized \cup p.numbers -> Lengths],
       algorithm : IF fn \in {"digest", "xof", "aead_encrypt", "aead_decrypt"}
                   THEN Algorithms ELSE {"given"},
       out_cap : IF fn = "digest" THEN Capacities ELSE {0},
       genuine : IF fn \in {"ed25519_verify", "ed448_verify", "aead_decrypt"}
                 THEN BOOLEAN ELSE {TRUE}]

Call ==
  /\ phase = "idle"
  /\ \E fn \in DOMAIN parameters : \E a \in Arguments(fn) :
       /\ call' = a
       /\ phase' = IF accepted(a) THEN "body" ELSE "returned"
  /\ UNCHANGED <<pc, object, frees, n, total, filled, failed, rc>>

body == function(call).body
step == body[pc]
At(does) == phase = "body" /\ pc <= Len(body) /\ step.does = does

\* Leave the body with a code, through the label done or at once.
Leave(code, exit) ==
  /\ rc' = code
  /\ IF exit = "done" THEN phase' = "done" /\ frees' = function(call).freed
     ELSE phase' = "returned" /\ UNCHANGED frees

GoOn == pc' = pc + 1 /\ UNCHANGED <<phase, frees, rc>>

Allocate ==
  /\ At("new")
  /\ \E got \in {"live", "null"} :
       object' = [object EXCEPT ![step.makes] = got] /\ failed' = (failed \/ got = "null")
  /\ GoOn
  /\ UNCHANGED <<call, n, total, filled>>

TestObjects ==
  /\ At("test")
  /\ IF \E o \in step.objects : object[o] = "null"
     THEN Leave(-1, step.exit) /\ UNCHANGED pc ELSE GoOn
  /\ UNCHANGED <<call, object, n, total, filled, failed>>

\* A call that worked may have written its buffer; one that failed leaves the
\* function.
MakeCall ==
  /\ At("call")
  /\ \/ /\ filled' = filled \cup step.fills
        /\ n' = IF step.n = -1 THEN n ELSE step.n
        /\ GoOn /\ UNCHANGED failed
     \/ failed' = TRUE /\ Leave(-1, "done") /\ UNCHANGED <<pc, n, filled>>
  /\ UNCHANGED <<call, object, total>>

HashWithBlake3 ==
  /\ At("sure")
  /\ filled' = filled \cup step.fills
  /\ GoOn
  /\ UNCHANGED <<call, object, n, total, failed>>

\* An AEAD cipher has nothing left to write at the end.
Finish ==
  /\ At("final")
  /\ \/ total' = n + 0 /\ n' = 0 /\ GoOn /\ UNCHANGED failed
     \/ total' = n /\ failed' = TRUE /\ Leave(-1, "done") /\ UNCHANGED <<pc, n>>
  /\ UNCHANGED <<call, object, filled>>

TestLength ==
  /\ At("whole")
  /\ IF total # step.length THEN Leave(-1, "done") /\ UNCHANGED pc ELSE GoOn
  /\ UNCHANGED <<call, object, n, total, filled, failed>>

\* What the deciding call finds is returned once the objects are freed.  The
\* verification tells an error from a refusal; the decryption takes whatever
\* is not a success for a refusal, and tests the length of a success.
Verdict ==
  /\ At("decide")
  /\ n' = 0 /\ total' = n
  /\ \/ /\ Leave(IF ~ call.genuine THEN 1 ELSE IF total' = step.length THEN 0 ELSE -1, "done")
        /\ UNCHANGED failed
     \/ failed' = TRUE /\ Leave(IF call.fn = "aead_decrypt" THEN 1 ELSE -1, "done")
  /\ UNCHANGED <<call, pc, object, filled>>

EndOfBody ==
  /\ phase = "body" /\ pc > Len(body)
  /\ Leave(0, "done")
  /\ UNCHANGED <<call, pc, object, n, total, filled, failed>>

\* Freeing NULL does nothing.
Free ==
  /\ phase = "done" /\ frees # <<>>
  /\ object' = [object EXCEPT ![Head(frees)] = IF @ = "live" THEN "freed" ELSE @]
  /\ frees' = Tail(frees)
  /\ UNCHANGED <<call, phase, pc, n, total, filled, failed, rc>>

Return ==
  /\ phase = "done" /\ frees = <<>>
  /\ phase' = "returned"
  /\ UNCHANGED <<call, pc, object, frees, n, total, filled, failed, rc>>

\* The caller takes the code; the next call starts afresh.
Take ==
  /\ phase = "returned"
  /\ call' = Idle /\ phase' = "idle" /\ pc' = 1
  /\ object' = [o \in Objects |-> "none"]
  /\ n' = 0 /\ total' = 0 /\ filled' = {} /\ failed' = FALSE /\ rc' = -1
  /\ UNCHANGED frees

RuntimeNext == Call \/ Allocate \/ TestObjects \/ MakeCall \/ HashWithBlake3 \/ Finish \/ TestLength
        \/ Verdict \/ EndOfBody \/ Free \/ Return \/ Take

RuntimeSpec == RuntimeInit /\ [][RuntimeNext]_runtime

-----------------------------------------------------------------------------
\* On every path, whichever calls fail, each function uses only objects it got
\* and has not freed, frees none twice, and returns with none left.
ObjectsReleased ==
  /\ phase = "body" /\ pc <= Len(body) => \A o \in step.uses : object[o] = "live"
  /\ phase = "done" /\ frees # <<>> => object[Head(frees)] # "freed"
  /\ phase = "returned" => \A o \in Objects : object[o] # "live"

outputs(a) ==
  CASE a.fn = "digest" -> {"out", "out_len"}
    [] a.fn = "aead_encrypt" -> {"tag"} \cup (IF a.len["plaintext"] = 0 THEN {} ELSE {"ciphertext"})
    [] a.fn = "aead_decrypt" -> IF a.len["ciphertext"] = 0 THEN {} ELSE {"plaintext"}
    [] OTHER -> parameters[a.fn].needs \cap {"out", "public_key", "signature", "shared_secret"}

\* Data to authenticate and no payload: the length of the data is left in n,
\* is taken for that of the payload, and the call is refused at the end.
OnlyAad(a) ==
  a.fn \in {"aead_encrypt", "aead_decrypt"} /\ a.len["aad"] # 0
  /\ \A p \in {"plaintext", "ciphertext"} \cap DOMAIN a.len : a.len[p] = 0

\* The code tells what happened: 0 if and only if the arguments were good,
\* every call worked and what was checked fits, and then every output is
\* there; 1 only for a signature or tag that does not fit, or where the last
\* call of a decryption failed, never for an earlier error.  A message without
\* payload but with data to authenticate is never served.  An encryption that
\* fails has not given out a tag.
ReturnTells ==
  phase = "returned" =>
    LET verifies == call.fn \in {"ed25519_verify", "ed448_verify"}
        decrypts == call.fn = "aead_decrypt"
        worked == accepted(call) /\ ~ failed
        refused == worked /\ ~ call.genuine
    IN  /\ rc = 0 <=> worked /\ call.genuine /\ ~ OnlyAad(call)
        /\ rc = 1 <=> \/ (verifies \/ decrypts) /\ refused
                      \/ decrypts /\ failed /\ pc = Len(body)
        /\ rc = 0 /\ ~ verifies => filled = outputs(call)
        /\ rc # 0 => "tag" \notin filled
=============================================================================
