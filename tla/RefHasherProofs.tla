-------------------------- MODULE RefHasherProofs ---------------------------
(***************************************************************************)
(* The reference hasher of reference_impl.rs: its stack is a binary        *)
(* counter of the complete chunks and never outgrows its slots, and it     *)
(* implements StreamHash.                                                  *)
(*                                                                         *)
(* It merges where the hasher of c/blake3.c waits: a chunk that is known   *)
(* not to be the last is merged with one entry for each trailing 0 bit of  *)
(* the number of chunks.  That this leaves one entry for each 1 bit is the *)
(* arithmetic below; what the entries then stand for, and how the root is  *)
(* made from them, is what HashTreeProofs says of stacks of subtrees.      *)
(***************************************************************************)
EXTENDS RefHasher, HashTreeProofs

-----------------------------------------------------------------------------
(* Trailing zeros. *)

\* The recursive definition of trailing_zeros defines a function.
LEMMA ZerosDef ==
  \A n \in Nat \ {0} :
    /\ trailing_zeros[n] \in Nat
    /\ trailing_zeros[n] = IF n % 2 = 0 THEN 1 + trailing_zeros[n \div 2] ELSE 0
<1> DEFINE D == [p \in Nat \X [Nat -> Nat] |->
                   IF p[1] = 0 THEN 0
                   ELSE IF p[1] % 2 = 0 THEN 1 + p[2][p[1] \div 2] ELSE 0]
<1>1. D \in [Nat \X [Nat -> Nat] -> Nat]
  BY Halving, SMT
<1>2. ASSUME NEW n \in Nat, NEW f \in [Nat -> Nat]
      PROVE  D[<<n, f>>] = IF n = 0 THEN 0 ELSE IF n % 2 = 0 THEN 1 + f[n \div 2] ELSE 0
  BY SMT
<1>3. ASSUME NEW n \in Nat, NEW f \in [Nat -> Nat], NEW g \in [Nat -> Nat],
             \A i \in 0 .. n - 1 : f[i] = g[i]
      PROVE  D[<<n, f>>] = D[<<n, g>>]
  <2>1. CASE n = 0
    BY <1>2, <2>1
  <2>2. CASE n # 0
    BY <1>2, <1>3, <2>2, Halving, SMT
  <2>3. QED
    BY <2>1, <2>2
<1> HIDE DEF D
<1>4. PICK f \in [Nat -> Nat] : DefinedBy(D, f)
  <2>1. Recursor(Nat, D)
    BY <1>1, <1>3 DEF Recursor
  <2>2. 0 \in Nat
    OBVIOUS
  <2>3. QED
    BY <2>1, <2>2, RecursiveFunctionExists
<1> DEFINE g == [n \in Nat \ {0} |-> f[n]]
<1>5. \A n \in Nat \ {0} : n \in Nat /\ n # 0 /\ n \div 2 \in Nat /\ (n % 2 = 0 => n \div 2 \in Nat \ {0})
  BY SMT
<1>6. \A n \in Nat \ {0} : f[n] = IF n % 2 = 0 THEN 1 + g[n \div 2] ELSE 0
  BY <1>2, <1>4, <1>5 DEF DefinedBy
<1>7. g = [n \in Nat \ {0} |-> IF n % 2 = 0 THEN 1 + g[n \div 2] ELSE 0]
  BY <1>6
<1> HIDE DEF g
<1>8. trailing_zeros = [n \in Nat \ {0} |-> IF n % 2 = 0 THEN 1 + trailing_zeros[n \div 2] ELSE 0]
  BY <1>7 DEF trailing_zeros
<1> DEFINE P == {n \in Nat : n # 0 => trailing_zeros[n] \in Nat}
<1>9. ASSUME NEW n \in Nat, \A k \in 0 .. n - 1 : k \in P
      PROVE  n \in P
  <2> SUFFICES ASSUME n # 0
               PROVE  trailing_zeros[n] \in Nat
    OBVIOUS
  <2>1. trailing_zeros[n] = IF n % 2 = 0 THEN 1 + trailing_zeros[n \div 2] ELSE 0
    BY <1>8
  <2>2. n % 2 = 0 => n \div 2 # 0 /\ n \div 2 \in 0 .. n - 1
    BY SMT
  <2>3. n % 2 = 0 => trailing_zeros[n \div 2] \in Nat
    BY <1>9, <2>2
  <2>4. QED
    BY <2>1, <2>3, SMT
<1>10. \A n \in Nat : n \in P
  <2> HIDE DEF P
  <2>1. QED
    BY <1>9, StrongInduction
<1>11. QED
  BY <1>8, <1>10

\* Counting on sets one bit and clears the ones that become trailing zeros.
THEOREM ZerosCount ==
  ASSUME NEW x \in Nat
  PROVE  /\ trailing_zeros[x + 1] \in Nat
         /\ popcnt[x + 1] + trailing_zeros[x + 1] = popcnt[x] + 1
<1> DEFINE Counts(y) == popcnt[y + 1] + trailing_zeros[y + 1] = popcnt[y] + 1
           P == {y \in Nat : Counts(y)}
<1>1. ASSUME NEW n \in Nat, \A k \in 0 .. n - 1 : k \in P
      PROVE  n \in P
  <2> DEFINE h == n \div 2
  <2>1. h \in Nat /\ h + 1 \in Nat \ {0} /\ n + 1 \in Nat \ {0}
    BY Halving, SMT
  <2>2. /\ popcnt[h] \in Nat /\ popcnt[h + 1] \in Nat /\ popcnt[n] \in Nat
        /\ popcnt[n + 1] \in Nat /\ trailing_zeros[h + 1] \in Nat
    BY <2>1, PopcntDef, ZerosDef
  <2>3. CASE n % 2 = 0
    <3>1. (n + 1) % 2 # 0
      BY <2>3, SMT
    <3>2. trailing_zeros[n + 1] = 0
      BY <2>1, <3>1, ZerosDef
    <3>3. popcnt[n + 1] = popcnt[n] + 1
      BY <2>3, PopcntNext
    <3>4. QED
      BY <2>2, <3>2, <3>3, SMT
  <2>4. CASE n % 2 # 0
    <3>1. n = 2 * h + 1 /\ n + 1 = 2 * (h + 1) /\ h \in 0 .. n - 1 /\ (n + 1) % 2 = 0
          /\ (n + 1) \div 2 = h + 1
      BY <2>4, SMT
    <3>2. Counts(h)
      BY <1>1, <3>1
    <3>3. popcnt[n] = popcnt[h] + 1 /\ popcnt[n + 1] = popcnt[h + 1]
      <4>1. popcnt[2 * h + 1] = popcnt[h] + 1 /\ popcnt[2 * (h + 1)] = popcnt[h + 1]
        BY <2>1, PopcntDoubled
      <4> HIDE DEF h
      <4>2. QED
        BY <3>1, <4>1
    <3>4. trailing_zeros[n + 1] = 1 + trailing_zeros[h + 1]
      BY <2>1, <3>1, ZerosDef
    <3>5. QED
      BY <2>2, <3>2, <3>3, <3>4, SMT
  <2>5. QED
    BY <2>3, <2>4
<1>2. \A n \in Nat : n \in P
  <2> HIDE DEF P
  <2>1. QED
    BY <1>1, StrongInduction
<1>3. x + 1 \in Nat \ {0}
  BY SMT
<1>4. QED
  BY <1>2, <1>3, ZerosDef

-----------------------------------------------------------------------------
(* The chunk state.  The loop of ChunkState::update leaves the chunk state  *)
(* that absorbing the same bytes one by one would.                          *)

\* A turn of the loop, and the state before turn i from the ones before.
CopyOnce(from, n, st) ==
  LET c == IF st.ch.buf.len = BlockLen
           THEN after_blocks(st.ch, st.ch.buf.from, 1) ELSE st.ch
      take == AtMost(BlockLen - c.buf.len, n - st.taken)
  IN  [ch |-> chunk_state_fill_buf(c, from + st.taken, take), taken |-> st.taken + take]

Turn(ch, from, n, g, i) ==
  IF i = 0 THEN [ch |-> ch, taken |-> 0]
  ELSE IF g[i - 1].taken = n THEN g[i - 1] ELSE CopyOnce(from, n, g[i - 1])

\* Taken bytes of a call are in the chunk state.
Took(k, fl, c, len, t) == [ch |-> Holding(k, fl, c, len + t), taken |-> t]

\* With space in the buffer, bytes are copied behind the ones it holds.
LEMMA CopyFills ==
  ASSUME NEW k, NEW fl, NEW c \in Nat, NEW b \in Nat, NEW l \in 0 .. BlockLen - 1,
         NEW at, at = Position(c, b) + l, NEW take \in 1 .. BlockLen, l + take <= BlockLen,
         NEW from, l # 0 => from = Position(c, b)
  PROVE  chunk_state_fill_buf(After(k, fl, c, b, DataBlock(from, l)), at, take)
           = Holding(k, fl, c, b * BlockLen + (l + take))
<1> DEFINE p == Position(c, b)
           m == l + take
           first == IF l = 0 THEN at ELSE from
<1>1. BlockLen \in Nat \ {0} /\ ChunkLen \in Nat
  BY HashTreeAssumption
<1>2. p \in Nat
  BY <1>1, SMT DEF Position
<1>3. l \in 0 .. BlockLen /\ take \in Nat /\ m \in 1 .. BlockLen
  BY <1>1, SMT
<1>4. first = p
  <2> HIDE DEF p
  <2>1. l = 0 => at = p
    BY <1>2, SMT DEF p
  <2>2. QED
    BY <2>1 DEF p
<1>5. chunk_state_fill_buf(After(k, fl, c, b, DataBlock(from, l)), at, take)
        = After(k, fl, c, b, DataBlock(first, m))
  BY <1>3, FilledAfter
<1> DEFINE len == b * BlockLen + m
<1> HIDE DEF m, first, len
<1>6. Holding(k, fl, c, len) = After(k, fl, c, b, DataBlock(Position(c, b), m))
  BY <1>3, HoldingBlock DEF len
<1>7. QED
  BY <1>4, <1>5, <1>6 DEF len, m

\* A chunk state of len bytes that has room for another one in its buffer.
HasRoom(k, fl, c, len, ch) ==
  \E from : \E b \in Nat, l \in 0 .. BlockLen - 1 :
    /\ ch = After(k, fl, c, b, DataBlock(from, l))
    /\ len = b * BlockLen + l
    /\ l # 0 => from = Position(c, b)

\* Before a turn the buffer may be full; then its block is compressed first.
LEMMA FlushedIfFull ==
  ASSUME NEW k, NEW fl, NEW c \in Nat, NEW len \in Nat
  PROVE  LET ch == Holding(k, fl, c, len)
         IN  HasRoom(k, fl, c, len,
                     IF ch.buf.len = BlockLen THEN after_blocks(ch, ch.buf.from, 1) ELSE ch)
<1> DEFINE ch == Holding(k, fl, c, len)
           flushed == IF ch.buf.len = BlockLen THEN after_blocks(ch, ch.buf.from, 1) ELSE ch
<1>1. BlockLen \in Nat \ {0}
  BY HashTreeAssumption
<1>2. CASE len = 0
  <2>1. ch = After(k, fl, c, 0, DataBlock(0, 0))
    BY <1>2 DEF Holding, EmptyBuf
  <2>2. ch.buf.len = 0
    BY <2>1 DEF After, DataBlock
  <2> HIDE DEF ch
  <2>3. flushed = ch
    BY <1>1, <2>2
  <2>4. 0 \in Nat /\ 0 \in 0 .. BlockLen - 1 /\ len = 0 * BlockLen + 0
    BY <1>1, <1>2, SMT
  <2>5. QED
    BY <2>1, <2>3, <2>4 DEF ch, HasRoom
<1>3. CASE len # 0
  <2>1. PICK b \in Nat : \E l \in 1 .. BlockLen : len = b * BlockLen + l
    BY <1>3, LastBlockExists
  <2>2. PICK l \in 1 .. BlockLen : len = b * BlockLen + l
    BY <2>1
  <2> DEFINE p == Position(c, b)
  <2>3. ch = After(k, fl, c, b, DataBlock(p, l))
    BY <2>2, HoldingBlock
  <2>4. ch.buf.len = l /\ ch.buf.from = p
    BY <2>3 DEF After, DataBlock
  <2> HIDE DEF ch
  <2>5. CASE l = BlockLen
    <3>1. flushed = after_blocks(After(k, fl, c, b, DataBlock(p, l)), Position(c, b), 1)
      BY <2>3, <2>4, <2>5
    <3>2. flushed = After(k, fl, c, b + 1, EmptyBuf)
      <4> DEFINE buf == DataBlock(p, l)
                 j == 1
      <4>1. j \in Nat
        OBVIOUS
      <4> HIDE DEF buf, flushed, j, p
      <4>2. after_blocks(After(k, fl, c, b, buf), Position(c, b), j)
              = After(k, fl, c, b + j, EmptyBuf)
        BY <4>1, AfterBlocks
      <4>3. QED
        BY <3>1, <4>2 DEF buf, j
    <3>3. flushed = After(k, fl, c, b + 1, DataBlock(0, 0))
      BY <3>2 DEF EmptyBuf
    <3>4. b + 1 \in Nat /\ 0 \in 0 .. BlockLen - 1
      BY <1>1, SMT
    <3>5. len = (b + 1) * BlockLen + 0
      BY <1>1, <2>2, <2>5, SMT
    <3> HIDE DEF flushed
    <3>6. QED
      BY <3>3, <3>4, <3>5 DEF flushed, ch, HasRoom
  <2>6. CASE l # BlockLen
    <3>1. flushed = After(k, fl, c, b, DataBlock(p, l))
      BY <2>3, <2>4, <2>6
    <3>2. l \in 0 .. BlockLen - 1
      BY <1>1, <2>6, SMT
    <3> HIDE DEF flushed
    <3>3. QED
      BY <2>2, <3>1, <3>2 DEF flushed, ch, p, HasRoom
  <2>7. QED
    BY <2>5, <2>6
<1>4. QED
  BY <1>2, <1>3

\* A turn takes at least a byte and at most what is left.
LEMMA CopyTakes ==
  ASSUME NEW k, NEW fl, NEW c \in Nat, NEW len \in Nat, NEW n \in Nat, NEW t \in 0 .. n - 1
  PROVE  \E u \in t + 1 .. n :
           CopyOnce(c * ChunkLen + len, n, Took(k, fl, c, len, t)) = Took(k, fl, c, len, u)
<1> DEFINE base == c * ChunkLen
           from == base + len
           m == len + t
           ch == Holding(k, fl, c, m)
           full == IF ch.buf.len = BlockLen THEN after_blocks(ch, ch.buf.from, 1) ELSE ch
<1>1. BlockLen \in Nat \ {0} /\ base \in Nat /\ m \in Nat /\ t \in Nat
  BY HashTreeAssumption, SMT
<1>a. PICK x : \E b \in Nat, l \in 0 .. BlockLen - 1 :
        /\ full = After(k, fl, c, b, DataBlock(x, l))
        /\ m = b * BlockLen + l
        /\ l # 0 => x = Position(c, b)
  <2> HIDE DEF m
  <2>1. HasRoom(k, fl, c, m, full)
    BY <1>1, FlushedIfFull
  <2> HIDE DEF full
  <2>2. QED
    BY <2>1 DEF HasRoom
<1>2. PICK b \in Nat, l \in 0 .. BlockLen - 1 :
        /\ full = After(k, fl, c, b, DataBlock(x, l))
        /\ m = b * BlockLen + l
        /\ l # 0 => x = Position(c, b)
  BY <1>a
<1> DEFINE take == AtMost(BlockLen - l, n - t)
<1>3. take \in 1 .. BlockLen /\ l + take <= BlockLen /\ t + take \in t + 1 .. n
  BY <1>1, SMT DEF AtMost
<1>4. full.buf.len = l
  BY <1>2 DEF After, DataBlock
<1>5. from + t = Position(c, b) + l
  <2> DEFINE y == b * BlockLen
  <2>1. y \in Nat
    BY <1>1, MultipleDivided
  <2>2. m = y + l /\ Position(c, b) = base + y
    BY <1>2 DEF Position
  <2> HIDE DEF y, base
  <2>3. QED
    BY <1>1, <2>1, <2>2, SMT
<1>6. Took(k, fl, c, len, t).ch = ch /\ Took(k, fl, c, len, t).taken = t
  BY DEF Took
<1> HIDE DEF ch
<1>7. CopyOnce(from, n, Took(k, fl, c, len, t))
        = [ch |-> chunk_state_fill_buf(full, from + t, take), taken |-> t + take]
  <2> DEFINE st == Took(k, fl, c, len, t)
  <2>1. st.ch = ch /\ st.taken = t
    BY <1>6
  <2> HIDE DEF st, from
  <2>2. QED
    BY <1>4, <2>1 DEF CopyOnce, st
<1> HIDE DEF take, full, from
<1> DEFINE at == from + t
<1> HIDE DEF at
<1>8. chunk_state_fill_buf(full, at, take) = Holding(k, fl, c, b * BlockLen + (l + take))
  <2>1. at = Position(c, b) + l
    BY <1>5 DEF at
  <2>2. QED
    BY <1>2, <1>3, <2>1, CopyFills
<1>9. b * BlockLen + (l + take) = len + (t + take)
  <2> DEFINE y == b * BlockLen
  <2>1. y \in Nat /\ m = y + l
    BY <1>1, <1>2, MultipleDivided
  <2> HIDE DEF y
  <2>2. y + (l + take) = len + (t + take)
    BY <1>1, <1>3, <2>1, SMT
  <2>3. QED
    BY <2>2 DEF y
<1>10. CopyOnce(from, n, Took(k, fl, c, len, t)) = Took(k, fl, c, len, t + take)
  BY <1>7, <1>8, <1>9 DEF Took, at
<1>11. QED
  BY <1>3, <1>10 DEF from

\* The recursion of update_chunk defines a function.
LEMMA TurnsExist ==
  ASSUME NEW ch, NEW from, NEW n \in Nat, NEW m \in Nat
  PROVE  \E g : g = [i \in 0 .. m |-> Turn(ch, from, n, g, i)]
<1> DEFINE P == {p \in Nat : \E f : f = [i \in 0 .. p |-> Turn(ch, from, n, f, i)]}
<1>1. ASSUME NEW p \in Nat, \A k \in 0 .. p - 1 : k \in P
      PROVE  p \in P
  <2>1. \E f : \A i \in 0 .. p - 1 : f[i] = Turn(ch, from, n, f, i)
    <3>1. CASE p = 0
      <4>1. 0 .. p - 1 = {}
        BY <3>1, SMT
      <4>2. QED
        BY <4>1
    <3>2. CASE p # 0
      <4>1. p - 1 \in 0 .. p - 1
        BY <3>2, SMT
      <4>2. PICK f : f = [i \in 0 .. p - 1 |-> Turn(ch, from, n, f, i)]
        BY <1>1, <4>1
      <4>3. ASSUME NEW i \in 0 .. p - 1
            PROVE  f[i] = Turn(ch, from, n, f, i)
        BY <4>2
      <4>4. QED
        BY <4>3
    <3>3. QED
      BY <3>1, <3>2
  <2>2. PICK f : \A i \in 0 .. p - 1 : f[i] = Turn(ch, from, n, f, i)
    BY <2>1
  <2> DEFINE g == [i \in 0 .. p |-> Turn(ch, from, n, f, i)]
  <2>3. ASSUME NEW i \in 0 .. p
        PROVE  Turn(ch, from, n, g, i) = Turn(ch, from, n, f, i)
    <3>1. CASE i = 0
      BY <3>1 DEF Turn
    <3>2. CASE i # 0
      <4>1. i - 1 \in 0 .. p - 1 /\ i - 1 \in 0 .. p
        BY <3>2, SMT
      <4>2. g[i - 1] = f[i - 1]
        BY <2>2, <4>1
      <4> HIDE DEF g
      <4>3. QED
        BY <3>2, <4>2, Zenon DEF Turn
    <3>3. QED
      BY <3>1, <3>2
  <2>4. g = [i \in 0 .. p |-> Turn(ch, from, n, g, i)]
    <3> DEFINE a(i) == Turn(ch, from, n, g, i)
               b(i) == Turn(ch, from, n, f, i)
    <3>1. \A i \in 0 .. p : a(i) = b(i)
      BY <2>3
    <3>2. g = [i \in 0 .. p |-> b(i)]
      OBVIOUS
    <3> HIDE DEF a, b, g
    <3>3. g = [i \in 0 .. p |-> a(i)]
      BY <3>1, <3>2
    <3>4. QED
      BY <3>3 DEF a
  <2> HIDE DEF g
  <2>5. QED
    BY <2>4
<1>2. \A p \in Nat : p \in P
  <2> HIDE DEF P
  <2>1. QED
    BY <1>1, StrongInduction
<1>3. QED
  BY <1>2

\* However the buffer cuts n bytes into turns, the chunk state ends as the one
\* that holds n bytes more.
THEOREM UpdatedChunkHolding ==
  ASSUME NEW k, NEW fl, NEW c \in Nat, NEW len \in Nat, NEW n \in Nat
  PROVE  update_chunk(Holding(k, fl, c, len), c * ChunkLen + len, n)
           = Holding(k, fl, c, len + n)
<1> DEFINE ch == Holding(k, fl, c, len)
           from == c * ChunkLen + len
           G == CHOOSE g : g = [i \in 0 .. n |-> Turn(ch, from, n, g, i)]
           Progress(i) == \E t \in i .. n : G[i] = Took(k, fl, c, len, t)
           P == {i \in Nat : i <= n => Progress(i)}
<1>1. update_chunk(ch, from, n) = G[n].ch
  BY DEF update_chunk, Turn, CopyOnce
<1>2. G = [i \in 0 .. n |-> Turn(ch, from, n, G, i)]
  BY TurnsExist
<1>3. ch = Took(k, fl, c, len, 0).ch /\ Took(k, fl, c, len, 0).taken = 0
  <2>1. len + 0 = len
    BY SMT
  <2>2. QED
    BY <2>1 DEF Took
<1> HIDE DEF G, ch, from
<1>4. ASSUME NEW i \in 0 .. n
      PROVE  G[i] = Turn(ch, from, n, G, i)
  BY <1>2
<1>5. ASSUME NEW i \in Nat, \A j \in 0 .. i - 1 : j \in P
      PROVE  i \in P
  <2> SUFFICES ASSUME i <= n
               PROVE  Progress(i)
    OBVIOUS
  <2>1. i \in 0 .. n
    BY SMT
  <2>2. CASE i = 0
    <3>1. G[0] = [ch |-> ch, taken |-> 0]
      BY <1>4, <2>1, <2>2 DEF Turn
    <3>2. G[0] = Took(k, fl, c, len, 0)
      BY <1>3, <3>1 DEF Took
    <3>3. 0 \in i .. n
      BY <2>2, SMT
    <3>4. QED
      BY <2>2, <3>2, <3>3
  <2>3. CASE i # 0
    <3>1. i - 1 \in 0 .. i - 1 /\ i - 1 <= n /\ i - 1 \in Nat
      BY <2>3, SMT
    <3>2. PICK t \in i - 1 .. n : G[i - 1] = Took(k, fl, c, len, t)
      BY <1>5, <3>1
    <3>3. G[i - 1].taken = t
      BY <3>2 DEF Took
    <3>4. G[i] = IF t = n THEN G[i - 1] ELSE CopyOnce(from, n, G[i - 1])
      BY <1>4, <2>1, <2>3, <3>3 DEF Turn
    <3>5. CASE t = n
      <4>1. t \in i .. n
        BY <3>5, SMT
      <4>2. QED
        BY <3>2, <3>4, <3>5, <4>1
    <3>6. CASE t # n
      <4>1. t \in 0 .. n - 1 /\ t >= i - 1
        BY <3>1, <3>6, SMT
      <4>2. PICK u \in t + 1 .. n : CopyOnce(from, n, Took(k, fl, c, len, t)) = Took(k, fl, c, len, u)
        BY <4>1, CopyTakes DEF from
      <4>3. u \in i .. n
        BY <4>1, SMT
      <4>4. QED
        BY <3>2, <3>4, <3>6, <4>2, <4>3
    <3>7. QED
      BY <3>5, <3>6
  <2>4. QED
    BY <2>2, <2>3
<1>6. \A i \in Nat : i \in P
  <2> HIDE DEF P
  <2>1. QED
    BY <1>5, StrongInduction
<1>7. PICK t \in n .. n : G[n] = Took(k, fl, c, len, t)
  <2>1. n <= n
    BY SMT
  <2>2. QED
    BY <1>6, <2>1
<1>8. t = n
  BY SMT
<1>9. G[n].ch = Holding(k, fl, c, len + n)
  BY <1>7, <1>8 DEF Took
<1>10. QED
  BY <1>1, <1>9 DEF ch, from

-----------------------------------------------------------------------------
(* The stack.  It holds chaining values alone; what they stand for is a     *)
(* stack of subtrees with the same chaining values.                         *)

\* One chaining value for each 1 bit of a number of chunks.
Counts(k, fl, s, chunks) ==
  \E b : SubtreeStack(k, fl, b, chunks) /\ Labels(s, b) /\ Len(b) = popcnt[chunks]

\* The chaining value after i merges, from the ones before.
Combined(cv, g, i) ==
  IF i = 0 THEN cv ELSE parent_cv(stack[Len(stack) - i + 1], g[i - 1])

AllCombined(cv, m, g) == g = [i \in 0 .. m |-> Combined(cv, g, i)]

\* The recursion of add_chunk_chaining_value defines a function.
LEMMA CombinedExist ==
  ASSUME NEW cv, NEW m \in Nat
  PROVE  \E g : AllCombined(cv, m, g)
<1> DEFINE P == {p \in Nat : \E f : f = [i \in 0 .. p |-> Combined(cv, f, i)]}
<1>1. ASSUME NEW p \in Nat, \A k \in 0 .. p - 1 : k \in P
      PROVE  p \in P
  <2>1. \E f : \A i \in 0 .. p - 1 : f[i] = Combined(cv, f, i)
    <3>1. CASE p = 0
      <4>1. 0 .. p - 1 = {}
        BY <3>1, SMT
      <4>2. QED
        BY <4>1
    <3>2. CASE p # 0
      <4>1. p - 1 \in 0 .. p - 1
        BY <3>2, SMT
      <4>2. PICK f : f = [i \in 0 .. p - 1 |-> Combined(cv, f, i)]
        BY <1>1, <4>1
      <4>3. ASSUME NEW i \in 0 .. p - 1
            PROVE  f[i] = Combined(cv, f, i)
        BY <4>2
      <4>4. QED
        BY <4>3
    <3>3. QED
      BY <3>1, <3>2
  <2>2. PICK f : \A i \in 0 .. p - 1 : f[i] = Combined(cv, f, i)
    BY <2>1
  <2> DEFINE g == [i \in 0 .. p |-> Combined(cv, f, i)]
  <2>3. ASSUME NEW i \in 0 .. p
        PROVE  Combined(cv, g, i) = Combined(cv, f, i)
    <3>1. CASE i = 0
      BY <3>1 DEF Combined
    <3>2. CASE i # 0
      <4>1. i - 1 \in 0 .. p - 1 /\ i - 1 \in 0 .. p
        BY <3>2, SMT
      <4>2. g[i - 1] = f[i - 1]
        BY <2>2, <4>1
      <4> HIDE DEF g
      <4>3. QED
        BY <3>2, <4>2, Zenon DEF Combined
    <3>3. QED
      BY <3>1, <3>2
  <2>4. g = [i \in 0 .. p |-> Combined(cv, g, i)]
    <3> DEFINE x(i) == Combined(cv, g, i)
               y(i) == Combined(cv, f, i)
    <3>1. \A i \in 0 .. p : x(i) = y(i)
      BY <2>3
    <3>2. g = [i \in 0 .. p |-> y(i)]
      OBVIOUS
    <3> HIDE DEF x, y, g
    <3>3. g = [i \in 0 .. p |-> x(i)]
      BY <3>1, <3>2
    <3>4. QED
      BY <3>3 DEF x
  <2> HIDE DEF g
  <2>5. QED
    BY <2>4
<1>2. \A p \in Nat : p \in P
  <2> HIDE DEF P
  <2>1. QED
    BY <1>1, StrongInduction
<1>3. QED
  BY <1>2 DEF AllCombined

\* A chunk's own subtree on top of the stack, before any merge.
LEMMA ChunkPushed ==
  ASSUME NEW k, NEW fl, NEW b, NEW n \in Nat, SubtreeStack(k, fl, b, n), Len(b) = popcnt[n],
         NEW cv, cv = SubtreeCV(k, fl, n, 1 * ChunkLen)
  PROVE  LET s == Append(b, Subtree(cv, n, 1))
         IN  /\ SubtreeStack(k, fl, s, n + 1)
             /\ Len(s) = Len(b) + 1 /\ s[Len(b) + 1].cv = cv
             /\ \A j \in 1 .. Len(b) : s[j] = b[j]
<1> DEFINE e == Subtree(cv, n, 1)
           s == Append(b, e)
<1>1. e.first = n /\ e.chunks = 1 /\ e.cv = cv
  BY DEF Subtree
<1>2. Covers(b, n) /\ Binary(b) /\ \A i \in 1 .. Len(b) : IsSubtree(k, fl, b[i])
  BY DEF SubtreeStack
<1>3. Complete(e)
  <2>1. PowerOfTwo(1) /\ n % 1 = 0
    <3>1. PowerOfTwo(1)
      BY RoundDownDef DEF PowerOfTwo
    <3>2. n % 1 = 0
      BY SMT
    <3>3. QED
      BY <3>1, <3>2
  <2>2. QED
    BY <1>1, <2>1 DEF Complete
<1>4. PICK S : b \in Seq(S)
  BY <1>2 DEF Covers
<1> HIDE DEF e
<1>5. /\ Len(s) = Len(b) + 1 /\ Len(b) \in Nat /\ s[Len(b) + 1] = e
      /\ \A j \in 1 .. Len(b) : s[j] = b[j]
  BY <1>4, SMT
<1>6. Covers(s, n + 1)
  <2>1. e.first \in Nat /\ e.chunks \in Nat \ {0} /\ Covers(b, e.first)
    BY <1>1, <1>2
  <2>2. QED
    BY <1>1, <2>1, AppendCovers
<1>7. Binary(s)
  <2>1. e.first \in Nat /\ Covers(b, e.first) /\ ~ (Len(b) > popcnt[e.first])
    BY <1>1, <1>2, <1>5, SMT
  <2>2. QED
    BY <1>2, <1>3, <2>1, AppendBinary
<1>8. IsSubtree(k, fl, e)
  BY <1>1 DEF IsSubtree
<1> HIDE DEF s
<1>9. ASSUME NEW i \in 1 .. Len(s)
      PROVE  IsSubtree(k, fl, s[i])
  <2>1. i \in 1 .. Len(b) \/ i = Len(b) + 1
    BY <1>5, SMT
  <2>2. QED
    BY <1>2, <1>5, <1>8, <2>1
<1>10. QED
  BY <1>1, <1>5, <1>6, <1>7, <1>9 DEF SubtreeStack, s, e

\* Of two stacks, the second with the two top entries of the first made one.
Merges(k, fl, s, t) ==
  /\ Len(t) = Len(s) - 1
  /\ \A j \in 1 .. Len(s) - 2 : t[j] = s[j]
  /\ t[Len(s) - 1].cv
       = output_chaining_value(parent_output(s[Len(s) - 1].cv, s[Len(s)].cv, k, fl))

\* A merge takes the entry below the top into it, and leaves the others.
LEMMA MergedOnce ==
  ASSUME NEW k, NEW fl, NEW s, NEW n \in Nat, SubtreeStack(k, fl, s, n), Len(s) >= 2,
         Len(s) > popcnt[n]
  PROVE  \E t : SubtreeStack(k, fl, t, n) /\ Merges(k, fl, s, t)
<1>1. Covers(s, n) /\ Binary(s) /\ \A i \in 1 .. Len(s) : IsSubtree(k, fl, s[i])
  BY DEF SubtreeStack
<1>2. Covers(Joined(k, fl, s), n)
  BY <1>1, JoinCovers
<1>3. /\ Binary(Joined(k, fl, s))
      /\ Len(Joined(k, fl, s)) = Len(s) - 1
      /\ \A i \in 1 .. Len(s) - 2 : Joined(k, fl, s)[i] = s[i]
      /\ Joined(k, fl, s)[Len(s) - 1] =
           Subtree(output_chaining_value(
                     parent_output(s[Len(s) - 1].cv, s[Len(s)].cv, k, fl)),
                   s[Len(s) - 1].first, s[Len(s) - 1].chunks + s[Len(s)].chunks)
  BY <1>1, JoinBinary
<1>4. \A i \in 1 .. Len(Joined(k, fl, s)) : IsSubtree(k, fl, Joined(k, fl, s)[i])
  BY <1>1, JoinContent
<1>5. SubtreeStack(k, fl, Joined(k, fl, s), n)
  BY <1>2, <1>3, <1>4 DEF SubtreeStack
<1>6. Merges(k, fl, s, Joined(k, fl, s))
  <2> DEFINE x == output_chaining_value(parent_output(s[Len(s) - 1].cv, s[Len(s)].cv, k, fl))
             f == s[Len(s) - 1].first
             a == s[Len(s) - 1].chunks + s[Len(s)].chunks
             t == Joined(k, fl, s)
             e == t[Len(s) - 1]
  <2>1. e = Subtree(x, f, a)
    BY <1>3
  <2> HIDE DEF x, f, a, e
  <2>2. e.cv = x
    BY <2>1 DEF Subtree
  <2>3. Len(t) = Len(s) - 1 /\ \A j \in 1 .. Len(s) - 2 : t[j] = s[j]
    BY <1>3
  <2> HIDE DEF t
  <2>4. QED
    BY <2>2, <2>3, Zenon DEF Merges, e, x, t
<1>7. QED
  BY <1>5, <1>6

\* After as many merges as the new number of chunks has trailing zeros, there is
\* one chaining value for each of its 1 bits.
THEOREM AddedCounts ==
  ASSUME NEW n \in Nat, Counts(key, flags, stack, n),
         NEW cv, cv = SubtreeCV(key, flags, n, 1 * ChunkLen)
  PROVE  Counts(key, flags, add_chunk_chaining_value(cv, n + 1), n + 1)
<1> DEFINE total == n + 1
           m == trailing_zeros[total]
           G == CHOOSE g : AllCombined(cv, m, g)
<1>1. PICK b : SubtreeStack(key, flags, b, n) /\ Labels(stack, b) /\ Len(b) = popcnt[n]
  BY DEF Counts
<1> DEFINE h == Len(b)
           k == key
           fl == flags
           Merged(i) ==
             \E s : /\ SubtreeStack(k, fl, s, total)
                    /\ Len(s) = h + 1 - i
                    /\ \A j \in 1 .. h - i : s[j] = b[j]
                    /\ s[h + 1 - i].cv = G[i]
           P == {i \in Nat : i <= m => Merged(i)}
<1>2. /\ h \in Nat /\ m \in Nat /\ popcnt[total] \in Nat \ {0} /\ popcnt[total] + m = h + 1
      /\ total \in Nat
  <2>1. popcnt[total] + m = h + 1 /\ m \in Nat
    BY <1>1, ZerosCount
  <2>2. total \in Nat \ {0}
    BY SMT
  <2>3. popcnt[total] \in Nat \ {0} /\ popcnt[n] \in Nat
    BY <2>2, PopcntPositive, PopcntDef
  <2>4. QED
    BY <1>1, <2>1, <2>2, <2>3
<1>3. /\ \E S : stack \in Seq(S)
      /\ Len(stack) = h /\ \A i \in 1 .. h : stack[i] = b[i].cv
  BY <1>1 DEF Labels
<1>4. add_chunk_chaining_value(cv, total) = Append(SubSeq(stack, 1, Len(stack) - m), G[m])
  BY DEF add_chunk_chaining_value, Combined, AllCombined
<1>5. G = [i \in 0 .. m |-> Combined(cv, G, i)]
  <2> HIDE DEF m
  <2>1. m \in Nat
    BY <1>2
  <2>2. \E g : AllCombined(cv, m, g)
    BY <2>1, CombinedExist
  <2>3. AllCombined(cv, m, G)
    BY <2>2
  <2> HIDE DEF G
  <2>4. QED
    BY <2>3 DEF AllCombined
<1> HIDE DEF G, m, h, total, k, fl
<1>6. ASSUME NEW i \in 0 .. m
      PROVE  G[i] = Combined(cv, G, i)
  BY <1>5
<1>7. ASSUME NEW i \in Nat, \A j \in 0 .. i - 1 : j \in P
      PROVE  i \in P
  <2> SUFFICES ASSUME i <= m
               PROVE  Merged(i)
    OBVIOUS
  <2>1. i \in 0 .. m
    BY <1>2, SMT
  <2>2. CASE i = 0
    <3> DEFINE s == Append(b, Subtree(cv, n, 1))
    <3>1. /\ SubtreeStack(k, fl, s, total) /\ Len(s) = h + 1 /\ s[h + 1].cv = cv
          /\ \A j \in 1 .. h : s[j] = b[j]
      BY <1>1, ChunkPushed DEF k, fl, total, h
    <3>2. G[0] = cv
      BY <1>6, <2>1, <2>2 DEF Combined
    <3>3. h + 1 - 0 = h + 1 /\ h - 0 = h
      BY <1>2, SMT
    <3> HIDE DEF s
    <3>4. Merged(0)
      BY <3>1, <3>2, <3>3
    <3>5. QED
      BY <2>2, <3>4
  <2>3. CASE i # 0
    <3> DEFINE p == i - 1
    <3>1. p \in 0 .. i - 1 /\ p <= m /\ p \in Nat /\ i = p + 1 /\ p < m
      BY <1>2, <2>3, SMT
    <3>2. PICK s : /\ SubtreeStack(k, fl, s, total) /\ Len(s) = h + 1 - p
                   /\ \A j \in 1 .. h - p : s[j] = b[j]
                   /\ s[h + 1 - p].cv = G[p]
      BY <1>7, <3>1
    <3> HIDE DEF p
    <3>3. /\ Len(s) > popcnt[total] /\ Len(s) >= 2 /\ Len(s) - 1 = h - p
          /\ Len(s) - 2 = h - i /\ Len(s) - 1 = h + 1 - i /\ h - p \in 1 .. h - p /\ h - p \in 1 .. h
          /\ h - i + 1 = h - p
      BY <1>2, <3>1, <3>2, SMT
    <3>a. PICK t : SubtreeStack(k, fl, t, total) /\ Merges(k, fl, s, t)
      <4>1. total \in Nat /\ SubtreeStack(k, fl, s, total) /\ Len(s) >= 2 /\ Len(s) > popcnt[total]
        BY <1>2, <3>2, <3>3
      <4>2. QED
        BY <4>1, MergedOnce
    <3>4. /\ SubtreeStack(k, fl, t, total) /\ Len(t) = Len(s) - 1
          /\ \A j \in 1 .. Len(s) - 2 : t[j] = s[j]
          /\ t[Len(s) - 1].cv
               = output_chaining_value(parent_output(s[Len(s) - 1].cv, s[Len(s)].cv, k, fl))
      BY <3>a DEF Merges
    <3>5. \A j \in 1 .. h - i : t[j] = b[j]
      <4>1. \A j \in 1 .. h - i : j \in 1 .. h - p
        BY <1>2, <3>1, SMT
      <4>2. QED
        BY <3>2, <3>3, <3>4, <4>1
    <3>6. s[Len(s) - 1].cv = stack[h - i + 1] /\ s[Len(s)].cv = G[p]
      BY <1>3, <3>2, <3>3
    <3>7. G[i] = parent_cv(stack[h - i + 1], G[p])
      BY <1>3, <1>6, <2>1, <2>3 DEF Combined, p
    <3>8. t[h + 1 - i].cv = G[i]
      BY <3>3, <3>4, <3>6, <3>7 DEF parent_cv, k, fl
    <3>9. QED
      BY <3>3, <3>4, <3>5, <3>8
  <2>4. QED
    BY <2>2, <2>3
<1>8. \A i \in Nat : i \in P
  <2> HIDE DEF P
  <2>1. QED
    BY <1>7, StrongInduction
<1>9. PICK s : /\ SubtreeStack(k, fl, s, total) /\ Len(s) = h + 1 - m
               /\ \A j \in 1 .. h - m : s[j] = b[j]
               /\ s[h + 1 - m].cv = G[m]
  <2>1. m <= m
    BY <1>2, SMT
  <2>2. QED
    BY <1>2, <1>8, <2>1
<1>10. /\ Len(s) = popcnt[total] /\ h - m \in Nat /\ Len(s) = (h - m) + 1 /\ h - m <= h
       /\ h + 1 - m = (h - m) + 1
  BY <1>2, <1>9, SMT
<1> DEFINE q == h - m
           new == Append(SubSeq(stack, 1, q), G[m])
<1>11. Labels(new, s)
  <2>1. PICK S : stack \in Seq(S)
    BY <1>3
  <2>2. /\ SubSeq(stack, 1, q) \in Seq(S) /\ Len(SubSeq(stack, 1, q)) = q
        /\ \A j \in 1 .. q : SubSeq(stack, 1, q)[j] = stack[j]
    <3> HIDE DEF q
    <3>1. /\ 1 \in Int /\ q \in Int /\ q - 1 + 1 = q /\ (IF 1 <= q THEN q ELSE 0) = q
          /\ \A i \in 1 .. q : 1 + i - 1 = i /\ i \in 1 .. h
      BY <1>2, <1>10, SMT DEF q
    <3>2. \A i \in 1 .. q : stack[i] \in S
      BY <1>3, <2>1, <3>1, ElementOfSeq
    <3>3. QED
      BY <2>1, <3>1, <3>2, SubSeqProperties
  <2> DEFINE low == SubSeq(stack, 1, q)
             x == G[m]
  <2> HIDE DEF low, q, x
  <2>3. /\ Append(low, x) \in Seq(S \cup {x}) /\ Len(Append(low, x)) = q + 1
        /\ Append(low, x)[q + 1] = x
        /\ \A j \in 1 .. q : Append(low, x)[j] = low[j]
    <3>1. low \in Seq(S) /\ Len(low) = q
      BY <2>2 DEF low
    <3>2. QED
      BY <3>1, SMT
  <2>4. \A j \in 1 .. q : low[j] = s[j].cv
    <3>1. \A j \in 1 .. q : j \in 1 .. h
      BY <1>2, <1>10, SMT DEF q
    <3>2. QED
      BY <1>3, <1>9, <2>2, <3>1 DEF low, q
  <2>5. Len(s) = q + 1 /\ s[q + 1].cv = x
    BY <1>9, <1>10 DEF q, x
  <2>6. \A j \in 1 .. Len(s) : j \in 1 .. q \/ j = q + 1
    BY <1>10, <2>5, SMT DEF q
  <2>7. QED
    BY <2>3, <2>4, <2>5, <2>6 DEF Labels, low, x
<1>12. QED
  BY <1>3, <1>4, <1>9, <1>10, <1>11 DEF Counts, k, fl, total

-----------------------------------------------------------------------------
(* The inductive invariant: the chunk state holds the last bytes absorbed,  *)
(* at least one unless nothing was absorbed, and the stack has one chaining *)
(* value for each 1 bit of the number of chunks before them.                *)

RefInv ==
  /\ pc \in {"idle", "update"}
  /\ pos \in Nat /\ rem \in Nat /\ pos + rem <= MaxTotal
  /\ pc = "idle" => rem = 0
  /\ chunk.counter \in Nat
  /\ chunk_state_len(chunk) \in 0 .. ChunkLen
  /\ pos = chunk.counter * ChunkLen + chunk_state_len(chunk)
  /\ chunk.counter > 0 => chunk_state_len(chunk) > 0
  /\ HoldsInput(key, flags, chunk)
  /\ Counts(key, flags, stack, chunk.counter)

\* A fresh hasher has an empty chunk and an empty stack.
LEMMA RefInit == Init => RefInv
<1> SUFFICES ASSUME Init
             PROVE  RefInv
  OBVIOUS
<1>1. /\ chunk = chunk_state_init(key, 0, flags) /\ stack = <<>> /\ pos = 0 /\ rem = 0
      /\ pc = "idle"
  BY DEF Init, key, flags
<1>2. ChunkLen \in Nat /\ 0 \in Nat /\ 0 + 0 <= MaxTotal /\ 0 \in 0 .. ChunkLen
      /\ 0 = 0 * ChunkLen + 0
  BY HashTreeAssumption, RefHasherAssumption, SMT
<1>3. chunk = Holding(key, flags, 0, 0)
  BY <1>1, HoldingNothing
<1>4. /\ HoldsInput(key, flags, chunk) /\ chunk.counter = 0 /\ chunk_state_len(chunk) = 0
  BY <1>3, HeldState
<1>5. Counts(key, flags, stack, 0)
  <2> DEFINE b == <<>>
  <2>1. b \in Seq({}) /\ Len(b) = 0 /\ (\A i : i \notin 1 .. 0)
    BY EmptySeq, SMT
  <2>2. popcnt[0] = 0
    BY PopcntDef
  <2>3. b = <<>>
    OBVIOUS
  <2> HIDE DEF b
  <2>4. SubtreeStack(key, flags, b, 0)
    BY <2>1, <2>3 DEF SubtreeStack, Covers, Binary
  <2>5. Labels(stack, b)
    BY <1>1, <2>1, <2>3 DEF Labels
  <2>6. QED
    BY <2>1, <2>2, <2>4, <2>5 DEF Counts
<1>6. QED
  BY <1>1, <1>2, <1>4, <1>5 DEF RefInv

\* Before an iteration copies bytes, a full chunk has been pushed and a new one
\* begun.
LEMMA RoomForMore ==
  ASSUME RefInv,
         NEW full, full = (chunk_state_len(chunk) = ChunkLen),
         NEW cur, cur = IF full THEN chunk_state_init(key, chunk.counter + 1, flags) ELSE chunk,
         NEW st, st = IF full
                      THEN add_chunk_chaining_value(
                             output_chaining_value(chunk_state_output(chunk)),
                             chunk.counter + 1)
                      ELSE stack
  PROVE  \E c \in Nat, len \in 0 .. ChunkLen - 1 :
           /\ cur = Holding(key, flags, c, len)
           /\ pos = c * ChunkLen + len
           /\ Counts(key, flags, st, c)
<1> DEFINE c == chunk.counter
           len == chunk_state_len(chunk)
<1>1. /\ c \in Nat /\ len \in 0 .. ChunkLen /\ pos = c * ChunkLen + len
      /\ chunk = Holding(key, flags, c, len) /\ Counts(key, flags, stack, c)
      /\ ChunkLen \in Nat \ {0}
  BY HashTreeAssumption DEF RefInv, HoldsInput
<1>2. CASE len = ChunkLen
  <2> DEFINE cv == output_chaining_value(chunk_state_output(chunk))
             d == c + 1
  <2>1. d \in Nat /\ 0 \in 0 .. ChunkLen - 1
    BY <1>1, SMT
  <2>2. pos = d * ChunkLen + 0
    <3> HIDE DEF c, len
    <3>1. c * ChunkLen + ChunkLen = (c + 1) * ChunkLen + 0
      BY <1>1, SMT
    <3>2. QED
      BY <1>1, <1>2, <3>1
  <2>3. cv = SubtreeCV(key, flags, c, 1 * ChunkLen)
    BY <1>1, <1>2, WholeChunk
  <2>4. full /\ cur = chunk_state_init(key, d, flags) /\ st = add_chunk_chaining_value(cv, d)
    BY <1>2
  <2> HIDE DEF cv, c, len
  <2>5. Counts(key, flags, st, d)
    BY <1>1, <2>3, <2>4, AddedCounts
  <2> HIDE DEF d
  <2>6. cur = Holding(key, flags, d, 0)
    BY <2>1, <2>4, HoldingNothing
  <2>7. QED
    BY <2>1, <2>2, <2>5, <2>6
<1>3. CASE len # ChunkLen
  <2>1. cur = chunk /\ st = stack
    BY <1>3
  <2>2. len \in 0 .. ChunkLen - 1
    <3> HIDE DEF len
    <3>1. QED
      BY <1>1, <1>3, SMT
  <2> HIDE DEF c, len
  <2>3. QED
    BY <1>1, <2>1, <2>2
<1>4. QED
  BY <1>2, <1>3

\* What an iteration of update does: it takes bytes until the chunk is full or
\* the input used up.
LEMMA Iterated ==
  ASSUME RefInv, UpdateIteration
  PROVE  \E c \in Nat, len \in 0 .. ChunkLen - 1, take \in 1 .. rem :
           /\ pos = c * ChunkLen + len /\ len + take <= ChunkLen
           /\ chunk' = Holding(key, flags, c, len + take)
           /\ Counts(key, flags, stack', c)
           /\ pos' = pos + take /\ rem' = rem - take
           /\ mode' = mode /\ pc' = pc /\ digest' = digest
<1> DEFINE full == chunk_state_len(chunk) = ChunkLen
           cur == IF full THEN chunk_state_init(key, chunk.counter + 1, flags) ELSE chunk
           st == IF full
                 THEN add_chunk_chaining_value(
                        output_chaining_value(chunk_state_output(chunk)), chunk.counter + 1)
                 ELSE stack
           take == AtMost(want(cur), rem)
<1>1. /\ rem > 0 /\ stack' = st /\ chunk' = update_chunk(cur, pos, take)
      /\ pos' = pos + take /\ rem' = rem - take
      /\ mode' = mode /\ pc' = pc /\ digest' = digest
  BY DEF UpdateIteration
<1>2. PICK c \in Nat, len \in 0 .. ChunkLen - 1 :
        /\ cur = Holding(key, flags, c, len)
        /\ pos = c * ChunkLen + len
        /\ Counts(key, flags, st, c)
  <2>1. full = (chunk_state_len(chunk) = ChunkLen)
    OBVIOUS
  <2>2. cur = IF full THEN chunk_state_init(key, chunk.counter + 1, flags) ELSE chunk
    OBVIOUS
  <2>3. st = IF full
             THEN add_chunk_chaining_value(
                    output_chaining_value(chunk_state_output(chunk)), chunk.counter + 1)
             ELSE stack
    OBVIOUS
  <2> HIDE DEF full, cur, st
  <2>4. QED
    BY <2>1, <2>2, <2>3, RoomForMore
<1> HIDE DEF full, cur, st
<1>3. /\ ChunkLen \in Nat \ {0} /\ len \in Nat /\ rem \in Nat
  BY HashTreeAssumption, SMT DEF RefInv
<1>4. want(cur) = ChunkLen - len
  <2>1. chunk_state_len(cur) = len
    BY <1>2, <1>3, HeldState
  <2>2. QED
    BY <2>1 DEF want
<1>5. take \in 1 .. rem /\ len + take <= ChunkLen /\ take \in Nat
  BY <1>1, <1>3, <1>4, SMT DEF AtMost
<1> HIDE DEF take
<1>6. update_chunk(cur, pos, take) = Holding(key, flags, c, len + take)
  <2>1. update_chunk(Holding(key, flags, c, len), c * ChunkLen + len, take)
          = Holding(key, flags, c, len + take)
    <3>1. c \in Nat /\ len \in Nat /\ take \in Nat
      BY <1>2, <1>3, <1>5
    <3>2. QED
      BY <3>1, UpdatedChunkHolding
  <2>2. QED
    BY <1>2, <2>1
<1>7. QED
  BY <1>1, <1>2, <1>5, <1>6

\* Every step keeps the invariant.
LEMMA RefStep == RefInv /\ [Next]_vars => RefInv'
<1> SUFFICES ASSUME RefInv, [Next]_vars
             PROVE  RefInv'
  OBVIOUS
<1>0. mode' = mode => key' = key /\ flags' = flags
  BY DEF key, flags, ModeKey, ModeFlags
<1>a. ChunkLen \in Nat \ {0} /\ MaxTotal \in Nat
  BY HashTreeAssumption, RefHasherAssumption
<1>b. ASSUME mode' = mode, chunk' = chunk, stack' = stack, pos' = pos,
             pc' \in {"idle", "update"}, rem' \in Nat, pos + rem' <= MaxTotal,
             pc' = "idle" => rem' = 0
      PROVE  RefInv'
  BY <1>0, <1>b, Zenon DEF RefInv, HoldsInput, chunk_state_len
<1>1. ASSUME NEW n \in 1 .. MaxTotal, UpdateCall(n)
      PROVE  RefInv'
  <2>1. /\ mode' = mode /\ chunk' = chunk /\ stack' = stack /\ pos' = pos
        /\ pc' = "update" /\ rem' = n /\ pos + n <= MaxTotal
    BY <1>1 DEF UpdateCall
  <2>2. n \in Nat
    BY <1>a, SMT
  <2>3. QED
    BY <1>b, <2>1, <2>2
<1>2. CASE UpdateIteration
  <2>1. PICK c \in Nat, len \in 0 .. ChunkLen - 1, take \in 1 .. rem :
           /\ pos = c * ChunkLen + len /\ len + take <= ChunkLen
           /\ chunk' = Holding(key, flags, c, len + take)
           /\ Counts(key, flags, stack', c)
           /\ pos' = pos + take /\ rem' = rem - take
           /\ mode' = mode /\ pc' = pc /\ digest' = digest
    BY <1>2, Iterated
  <2> DEFINE l == len + take
  <2>2. /\ pos \in Nat /\ rem \in Nat /\ pos + rem <= MaxTotal /\ pc = "update"
    BY <1>2 DEF RefInv, UpdateIteration
  <2>3. /\ l \in Nat /\ l \in 0 .. ChunkLen /\ l > 0 /\ pos' \in Nat /\ rem' \in Nat
        /\ pos' + rem' <= MaxTotal
    BY <1>a, <2>1, <2>2, SMT
  <2>4. pos' = c * ChunkLen + l
    <3> DEFINE x == c * ChunkLen
    <3>1. x \in Nat /\ pos = x + len
      BY <1>a, <2>1, MultipleDivided, SMT
    <3> HIDE DEF x
    <3>2. pos' = x + l
      BY <1>a, <2>1, <3>1, SMT
    <3>3. QED
      BY <3>2 DEF x
  <2> HIDE DEF l
  <2>5. /\ HoldsInput(key, flags, chunk') /\ chunk'.counter = c /\ chunk_state_len(chunk') = l
    <3>1. chunk' = Holding(key, flags, c, l)
      BY <2>1 DEF l
    <3>2. QED
      BY <2>3, <3>1, HeldState
  <2>6. pc' = "update" /\ key' = key /\ flags' = flags /\ Counts(key, flags, stack', c)
    BY <1>0, <2>1, <2>2
  <2>7. chunk_state_len(chunk)' = chunk_state_len(chunk') /\ HoldsInput(key, flags, chunk)'
    BY <2>5, <2>6 DEF chunk_state_len, HoldsInput
  <2>8. Counts(key, flags, stack, chunk.counter)'
    BY <2>5, <2>6
  <2>9. QED
    BY <2>1, <2>3, <2>4, <2>5, <2>6, <2>7, <2>8 DEF RefInv
<1>3. CASE UpdateReturn
  <2>1. /\ mode' = mode /\ chunk' = chunk /\ stack' = stack /\ pos' = pos
        /\ pc' = "idle" /\ rem' = rem /\ rem = 0
    BY <1>3 DEF UpdateReturn
  <2>2. QED
    BY <1>b, <2>1 DEF RefInv
<1>4. CASE Finalize
  <2>1. /\ mode' = mode /\ chunk' = chunk /\ stack' = stack /\ pos' = pos
        /\ pc' = pc /\ rem' = rem
    BY <1>4 DEF Finalize
  <2>2. QED
    BY <1>b, <2>1 DEF RefInv
<1>5. CASE UNCHANGED vars
  <2>1. /\ mode' = mode /\ chunk' = chunk /\ stack' = stack /\ pos' = pos
        /\ pc' = pc /\ rem' = rem
    BY <1>5 DEF vars
  <2>2. QED
    BY <1>b, <2>1 DEF RefInv
<1>6. QED
  BY <1>1, <1>2, <1>3, <1>4, <1>5 DEF Next

\* The bytes that RefHasherAssumption allows fill no more chunks than the slots
\* can count.
LEMMA ChunksCounted ==
  ASSUME RefInv
  PROVE  popcnt[chunk.counter] <= MaxDepth
<1> DEFINE limit == 2 ^ MaxDepth
           c == chunk.counter
           len == chunk_state_len(chunk)
<1>1. limit \in Nat /\ MaxTotal \in Nat /\ MaxTotal <= ChunkLen * limit /\ MaxDepth \in Nat
  BY RefHasherAssumption, TwoToNext
<1>2. /\ c \in Nat /\ len \in 0 .. ChunkLen /\ pos = c * ChunkLen + len
      /\ (c > 0 => len > 0) /\ pos + rem <= MaxTotal /\ pos \in Nat /\ rem \in Nat
      /\ ChunkLen \in Nat \ {0}
  BY HashTreeAssumption DEF RefInv
<1>3. CASE c = 0
  <2>1. popcnt[c] = 0
    BY <1>3, PopcntDef
  <2>2. QED
    BY <1>1, <2>1, SMT
<1>4. CASE c # 0
  <2> HIDE DEF limit, c, len
  <2>1. c < limit
    <3> DEFINE x == c * ChunkLen
               y == ChunkLen * limit
    <3>1. x \in Nat /\ y \in Nat /\ pos = x + len /\ MaxTotal <= y
      BY <1>1, <1>2, MultipleDivided
    <3> HIDE DEF x, y
    <3>2. x < y
      BY <1>1, <1>2, <1>4, <3>1, SMT
    <3>3. c * ChunkLen < ChunkLen * limit
      BY <3>2 DEF x, y
    <3>4. QED
      BY <1>1, <1>2, <3>3, SMT
  <2>2. popcnt[c] <= MaxDepth
    BY <1>1, <1>2, <2>1, PopcntOfBits DEF limit
  <2>3. QED
    BY <2>2 DEF c
<1>5. QED
  BY <1>3, <1>4

\* The stack of the reference hasher is a binary counter within its slots.
LEMMA RefStack == RefInv => StackIsBinaryCounter
<1> SUFFICES ASSUME RefInv
             PROVE  StackIsBinaryCounter
  OBVIOUS
<1>1. PICK b : Labels(stack, b) /\ Len(b) = popcnt[chunk.counter]
  BY DEF RefInv, Counts
<1>2. Len(stack) = popcnt[chunk.counter]
  BY <1>1 DEF Labels
<1>3. QED
  BY <1>2, ChunksCounted DEF StackIsBinaryCounter

\* Whatever the calls of update, cv_stack holds one chaining value for each 1
\* bit of the number of complete chunks, in at most MaxDepth slots.
THEOREM StackAlwaysBinaryCounter == Spec => []StackIsBinaryCounter
BY RefInit, RefStep, RefStack, PTL DEF Spec

-----------------------------------------------------------------------------
(* finalize. *)

\* An iteration of finalize's loop, with what it holds above r entries.
Up(k, fl, s, x, f, r) ==
  IF r = Len(s) THEN x
  ELSE parent_output(s[r + 1], output_chaining_value(f[r + 1]), k, fl)

\* The trees along the right edge are what the iterations make of one another.
LEMMA EdgeIsUp ==
  ASSUME NEW k, NEW fl, NEW b, NEW limit \in Nat, SubtreeStack(k, fl, b, limit),
         Len(b) = popcnt[limit], NEW s, Labels(s, b),
         NEW held \in 0 .. ChunkLen, limit > 0 => held > 0,
         NEW total \in Nat, total = limit * ChunkLen + held,
         NEW r \in 0 .. Len(s),
         NEW f, r # Len(s) => f[r + 1] = EdgeOutput(k, fl, b, limit, total, r + 1)
  PROVE  Up(k, fl, s, ChunkOutput(k, fl, limit, held), f, r) = EdgeOutput(k, fl, b, limit, total, r)
<1> DEFINE n == Len(b)
           x == ChunkOutput(k, fl, limit, held)
           E(q) == EdgeOutput(k, fl, b, limit, total, q)
<1>1. n \in Nat /\ Len(s) = n /\ \A i \in 1 .. n : s[i] = b[i].cv
  BY PopcntDef DEF Labels
<1>2. ChunkLen \in Nat \ {0} /\ held \in Nat /\ held <= ChunkLen
  BY HashTreeAssumption, SMT
<1>3. CASE r = n
  <2>1. EdgeStart(b, limit, r) = limit
    BY <1>3 DEF EdgeStart
  <2>2. total - limit * ChunkLen = held
    <3> DEFINE y == limit * ChunkLen
    <3>1. y \in Nat /\ total = y + held
      BY <1>2, MultipleDivided, SMT
    <3> HIDE DEF y
    <3>2. total - y = held
      BY <1>2, <3>1, SMT
    <3>3. QED
      BY <3>2 DEF y
  <2>3. E(r) = TreeOutput(k, fl, limit, held)
    BY <2>1, <2>2 DEF EdgeOutput
  <2>4. TreeOutput(k, fl, limit, held) = x
    BY <1>2, TreeOutputRecursion
  <2>5. Up(k, fl, s, x, f, r) = x
    BY <1>1, <1>3 DEF Up
  <2>6. QED
    BY <2>3, <2>4, <2>5
<1>4. CASE r # n
  <2> DEFINE i == r + 1
  <2>1. i \in 1 .. n /\ i - 1 = r /\ n # 0
    BY <1>1, <1>4, SMT
  <2>2. held > 0
    <3>1. popcnt[0] = 0
      BY PopcntDef
    <3>2. limit # 0
      BY <2>1, <3>1
    <3>3. limit > 0
      BY <3>2, SMT
    <3>4. QED
      BY <3>3
  <2>3. f[i] = E(i)
    BY <1>1, <1>4
  <2>4. E(i - 1) = parent_output(b[i].cv, output_chaining_value(E(i)), k, fl)
    BY <2>1, <2>2, EdgeIsParent
  <2> HIDE DEF E, x
  <2>5. Up(k, fl, s, x, f, r) = parent_output(s[i], output_chaining_value(f[i]), k, fl)
    BY <1>1, <1>4 DEF Up
  <2>6. s[i] = b[i].cv
    BY <1>1, <2>1
  <2>7. Up(k, fl, s, x, f, r) = E(r)
    BY <2>1, <2>3, <2>4, <2>5, <2>6
  <2>8. QED
    BY <2>7 DEF E, x
<1>5. QED
  BY <1>3, <1>4

\* The reference hasher's finalize computes the output of the root of the tree
\* over all the bytes absorbed.
THEOREM RefFinalOutput ==
  ASSUME RefInv, pc = "idle"
  PROVE  final_output = TreeOutput(key, flags, 0, pos)
<1> DEFINE c == chunk.counter
           held == chunk_state_len(chunk)
           n == Len(stack)
           x == ChunkOutput(key, flags, c, held)
<1>1. /\ c \in Nat /\ held \in 0 .. ChunkLen /\ pos = c * ChunkLen + held /\ pos \in Nat
      /\ (c > 0 => held > 0) /\ chunk = Holding(key, flags, c, held)
      /\ Counts(key, flags, stack, c) /\ ChunkLen \in Nat \ {0}
  BY HashTreeAssumption DEF RefInv, HoldsInput
<1>2. PICK b : SubtreeStack(key, flags, b, c) /\ Labels(stack, b) /\ Len(b) = popcnt[c]
  BY <1>1 DEF Counts
<1> DEFINE E(r) == EdgeOutput(key, flags, b, c, pos, r)
           U(f, r) == Up(key, flags, stack, x, f, r)
           output == CHOOSE f : f = [r \in 0 .. n |-> U(f, r)]
           g == [r \in 0 .. n |-> E(r)]
<1>3. n \in Nat /\ n = Len(b)
  BY <1>2, PopcntDef DEF Labels
<1>4. chunk_state_output(chunk) = x
  <2>1. held \in Nat /\ (held > 0 \/ c = 0)
    <3> HIDE DEF c, held
    <3>1. QED
      BY <1>1, SMT
  <2> HIDE DEF c, held
  <2>2. QED
    BY <1>1, <2>1, HoldingOutput
<1>5. final_output = output[0]
  <2>1. final_output = (CHOOSE f : f = [r \in 0 .. n |-> Up(key, flags, stack, chunk_state_output(chunk), f, r)])[0]
    BY DEF final_output, Up
  <2>2. QED
    BY <1>4, <2>1
<1>6. ASSUME NEW f, NEW r \in 0 .. n, r # n => f[r + 1] = E(r + 1)
      PROVE  U(f, r) = E(r)
  <2> HIDE DEF c, held
  <2>1. QED
    BY <1>1, <1>2, <1>6, EdgeIsUp
<1> HIDE DEF c, held, x, E, U, n
<1>7. g = [r \in 0 .. n |-> U(g, r)]
  <2>1. ASSUME NEW r \in 0 .. n
        PROVE  U(g, r) = E(r)
    <3>1. r # n => r + 1 \in 0 .. n
      BY <1>3, SMT
    <3>2. r # n => g[r + 1] = E(r + 1)
      BY <3>1
    <3> HIDE DEF g
    <3>3. QED
      BY <1>6, <3>2
  <2>2. QED
    BY <2>1
<1> HIDE DEF g
<1>8. output = [r \in 0 .. n |-> U(output, r)]
  BY <1>7
<1> HIDE DEF output
<1>9. \A r \in 0 .. n : output[r] = U(output, r)
  BY <1>8
<1> DEFINE P == {d \in Nat : d <= n => output[n - d] = E(n - d)}
<1>10. ASSUME NEW d \in Nat, \A e \in 0 .. d - 1 : e \in P
       PROVE  d \in P
  <2> SUFFICES ASSUME d <= n
               PROVE  output[n - d] = E(n - d)
    OBVIOUS
  <2>1. n - d \in 0 .. n
    BY <1>3, SMT
  <2>2. n - d # n => output[(n - d) + 1] = E((n - d) + 1)
    <3> SUFFICES ASSUME n - d # n
                 PROVE  output[(n - d) + 1] = E((n - d) + 1)
      OBVIOUS
    <3>1. d - 1 \in 0 .. d - 1 /\ d - 1 <= n /\ n - (d - 1) = (n - d) + 1
      BY <1>3, SMT
    <3>2. output[n - (d - 1)] = E(n - (d - 1))
      BY <1>10, <3>1
    <3>3. QED
      BY <3>1, <3>2
  <2>3. U(output, n - d) = E(n - d)
    BY <1>6, <2>1, <2>2
  <2>4. QED
    BY <1>9, <2>1, <2>3
<1>11. \A d \in Nat : d \in P
  <2> HIDE DEF P
  <2>1. QED
    BY <1>10, StrongInduction
<1>12. output[0] = E(0)
  <2>1. n <= n /\ n - n = 0
    BY <1>3, SMT
  <2>2. QED
    BY <1>3, <1>11, <2>1
<1>13. E(0) = TreeOutput(key, flags, 0, pos)
  <2>1. EdgeStart(b, c, 0) = 0
    <3>1. Covers(b, c) /\ 0 + 1 = 1
      BY <1>2 DEF SubtreeStack
    <3>2. PICK S : b \in Seq(S)
      BY <3>1 DEF Covers
    <3>3. b = <<>> <=> Len(b) = 0
      BY <3>2, EmptySeq, SMT
    <3>4. QED
      BY <3>1, <3>3 DEF EdgeStart, Covers
  <2>2. pos - 0 * ChunkLen = pos
    BY <1>1, SMT
  <2>3. QED
    BY <2>1, <2>2 DEF EdgeOutput, E
<1>14. QED
  BY <1>5, <1>12, <1>13

-----------------------------------------------------------------------------
(* The refinement: the bytes of a call count as absorbed when it begins.    *)

\* The tree that StreamHash speaks of is the one of HashTree.
LEMMA StreamTerms ==
  /\ Stream!NoDigest = NoDigest
  /\ \A m, n : Stream!Hash(Stream!ModeKey(m, Stream!ContextLen), Stream!ModeFlags(m), n)
                 = Hash(ModeKey(m, ContextLen), ModeFlags(m), n)
<1>1. \A k, f, c, n : Stream!TreeOutput(k, f, c, n) = TreeOutput(k, f, c, n)
  BY DEF Stream!TreeOutput, TreeOutput, Stream!ChunkOutput, ChunkOutput,
         Stream!output_chaining_value, output_chaining_value, Stream!make_output, make_output,
         Stream!DataBlock, DataBlock, Stream!left_subtree_len, left_subtree_len,
         Stream!round_down_to_power_of_2, round_down_to_power_of_2,
         Stream!parent_output, parent_output
<1>2. \A k, f, n : Stream!Hash(k, f, n) = Hash(k, f, n)
  BY <1>1 DEF Stream!Hash, Hash, Stream!output_root, output_root, Stream!make_output, make_output
<1>3. Stream!ContextLen = ContextLen /\ Stream!NoDigest = NoDigest
  BY DEF Stream!ContextLen, ContextLen, Stream!NoDigest, NoDigest
<1>4. \A m, n : Stream!ModeKey(m, n) = ModeKey(m, n) /\ Stream!ModeFlags(m) = ModeFlags(m)
  BY <1>2 DEF Stream!ModeKey, ModeKey, Stream!ModeFlags, ModeFlags, Stream!IV, IV,
              Stream!UserKey, UserKey
<1>5. QED
  BY <1>2, <1>3, <1>4

\* A fresh hasher is a fresh StreamHash.
LEMMA StreamInit == Init => Stream!Init
<1> SUFFICES ASSUME Init
             PROVE  Stream!Init
  OBVIOUS
<1>1. mode \in Modes /\ pos = 0 /\ rem = 0 /\ digest = NoDigest
  BY DEF Init
<1>2. pos + rem = 0
  BY <1>1, SMT
<1>3. QED
  BY <1>1, <1>2, StreamTerms DEF Stream!Init

\* Every step of the hasher is a step of StreamHash or none.
LEMMA StreamStep == RefInv /\ [Next]_vars => [Stream!Next]_(Stream!vars)
<1> SUFFICES ASSUME RefInv, [Next]_vars
             PROVE  Stream!Next \/ UNCHANGED Stream!vars
  OBVIOUS
<1>0. pos \in Nat /\ rem \in Nat /\ (pc = "idle" => rem = 0)
  BY DEF RefInv
<1>a. ASSUME mode' = mode, pos' + rem' = pos + rem, digest' = digest
      PROVE  UNCHANGED Stream!vars
  BY <1>a DEF Stream!vars
<1>1. ASSUME NEW n \in 1 .. MaxTotal, UpdateCall(n)
      PROVE  Stream!Next
  <2>1. /\ pc = "idle" /\ pos + n <= MaxTotal /\ rem' = n /\ pos' = pos
        /\ digest' = NoDigest /\ mode' = mode
    BY <1>1 DEF UpdateCall
  <2>2. n \in Nat
    BY RefHasherAssumption, SMT
  <2>3. (pos + rem) + n <= MaxTotal /\ pos' + rem' = (pos + rem) + n
    BY <1>0, <2>1, <2>2, SMT
  <2>4. Stream!Absorb(n)
    BY <2>1, <2>3, StreamTerms DEF Stream!Absorb
  <2>5. QED
    BY <2>4 DEF Stream!Next
<1>2. CASE UpdateIteration
  <2>1. PICK take \in 1 .. rem : /\ pos' = pos + take /\ rem' = rem - take
                                 /\ mode' = mode /\ digest' = digest
    BY <1>2, Iterated
  <2>2. pos' + rem' = pos + rem
    BY <1>0, <2>1, SMT
  <2>3. QED
    BY <1>a, <2>1, <2>2
<1>3. CASE UpdateReturn
  BY <1>3, <1>a DEF UpdateReturn
<1>4. CASE Finalize
  <2>1. /\ pc = "idle" /\ digest' = output_root(final_output)
        /\ mode' = mode /\ pos' = pos /\ rem' = rem
    BY <1>4 DEF Finalize
  <2>2. pos + rem = pos
    BY <1>0, <2>1, SMT
  <2>3. final_output = TreeOutput(key, flags, 0, pos)
    BY <2>1, RefFinalOutput
  <2>4. key = ModeKey(mode, ContextLen) /\ flags = ModeFlags(mode)
    BY DEF key, flags
  <2>5. digest' = Hash(ModeKey(mode, ContextLen), ModeFlags(mode), pos + rem)
    BY <2>1, <2>2, <2>3, <2>4 DEF Hash
  <2>6. Stream!Finalize
    BY <2>1, <2>5, StreamTerms DEF Stream!Finalize
  <2>7. QED
    BY <2>6 DEF Stream!Next
<1>5. CASE UNCHANGED vars
  BY <1>5, <1>a DEF vars
<1>6. QED
  BY <1>1, <1>2, <1>3, <1>4, <1>5 DEF Next

\* The reference hasher implements the abstract one: however a message is cut
\* into calls of update, every digest that finalize returns is its hash.
THEOREM ReferenceImplementsStream == Spec => StreamSpec
BY RefInit, RefStep, StreamInit, StreamStep, PTL DEF Spec, StreamSpec, Stream!Spec
=============================================================================
