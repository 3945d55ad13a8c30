------------------------- MODULE HazmatHasherProofs -------------------------
(***************************************************************************)
(* The Hasher of the Rust crate with an input offset, for every chunk and  *)
(* block length, every message, and every way to hash it in parts.         *)
(*                                                                         *)
(* What the stack holds is counted from the offset, so it is a binary      *)
(* counter of chunks since the offset; that the subtrees it stands for are *)
(* nodes of the tree of the whole message rests on the limit that hazmat   *)
(* sets to what may follow an offset, the largest power of two of chunks   *)
(* that divides it.  Callers do not reset a hasher whose offset is set:    *)
(* the code then keeps the offset and restarts the chunk counter.          *)
(***************************************************************************)
EXTENDS HazmatHasher, HashTreeProofs

-----------------------------------------------------------------------------
(* The limit behind an offset. *)

\* The recursive definition of trailing_power defines a function.
LEMMA TrailingDef ==
  \A n \in Nat \ {0} :
    trailing_power[n] = IF n % 2 = 0 THEN 2 * trailing_power[n \div 2] ELSE 1
<1> DEFINE D == [p \in Nat \X [Nat -> Nat] |->
                   IF p[1] = 0 THEN 0
                   ELSE IF p[1] % 2 = 0 THEN 2 * p[2][p[1] \div 2] ELSE 1]
<1>1. D \in [Nat \X [Nat -> Nat] -> Nat]
  BY Halving, SMT
<1>2. ASSUME NEW n \in Nat, NEW f \in [Nat -> Nat]
      PROVE  D[<<n, f>>] = IF n = 0 THEN 0 ELSE IF n % 2 = 0 THEN 2 * f[n \div 2] ELSE 1
  BY SMT
<1>3. ASSUME NEW n \in Nat, NEW f \in [Nat -> Nat], NEW g \in [Nat -> Nat],
             \A i \in 0 .. n - 1 : f[i] = g[i]
      PROVE  D[<<n, f>>] = D[<<n, g>>]
  <2>1. CASE n = 0
    BY <1>2, <2>1
  <2>2. CASE n # 0
    <3>1. n \div 2 \in 0 .. n - 1
      BY <2>2, SMT
    <3>2. f[n \div 2] = g[n \div 2]
      BY <1>3, <3>1
    <3> HIDE DEF D
    <3>3. QED
      BY <1>2, <3>2
  <2>3. QED
    BY <2>1, <2>2
<1> HIDE DEF D
<1>4. PICK f \in [Nat -> Nat] : DefinedBy(D, f)
  <2>1. Recursor(Nat, D)
    BY <1>1, <1>3 DEF Recursor
  <2>2. 0 \in Nat
    OBVIOUS
  <2>3. QED
    BY <2>1, <2>2, RecursiveFunctionExists
<1> DEFINE g == [c \in Nat \ {0} |-> f[c]]
<1>5. \A n \in Nat \ {0} : n \in Nat /\ n # 0 /\ n \div 2 \in Nat /\ (n % 2 = 0 => n \div 2 \in Nat \ {0})
  BY SMT
<1>6. \A n \in Nat \ {0} : f[n] = IF n % 2 = 0 THEN 2 * g[n \div 2] ELSE 1
  BY <1>2, <1>4, <1>5 DEF DefinedBy
<1>7. g = [c \in Nat \ {0} |-> IF c % 2 = 0 THEN 2 * g[c \div 2] ELSE 1]
  BY <1>6
<1> HIDE DEF g
<1>8. trailing_power = [c \in Nat \ {0} |-> IF c % 2 = 0 THEN 2 * trailing_power[c \div 2] ELSE 1]
  BY <1>7 DEF trailing_power
<1>9. QED
  BY <1>8

\* trailing_power is a power of two that divides its argument.
THEOREM TrailingPowerDivides ==
  ASSUME NEW x \in Nat \ {0}
  PROVE  PowerOfTwo(trailing_power[x]) /\ x % trailing_power[x] = 0
<1> DEFINE p(y) == trailing_power[y]
           P == {y \in Nat : y # 0 => PowerOfTwo(p(y)) /\ y % p(y) = 0}
<1>1. ASSUME NEW n \in Nat, \A k \in 0 .. n - 1 : k \in P
      PROVE  n \in P
  <2> SUFFICES ASSUME n # 0
               PROVE  PowerOfTwo(p(n)) /\ n % p(n) = 0
    OBVIOUS
  <2>1. CASE n % 2 = 0
    <3> DEFINE h == n \div 2
    <3>1. h \in 0 .. n - 1 /\ h # 0 /\ h \in Nat /\ n = 2 * h
      BY <2>1, SMT
    <3>2. PowerOfTwo(p(h)) /\ h % p(h) = 0
      BY <1>1, <3>1
    <3>3. p(n) = 2 * p(h)
      BY <2>1, TrailingDef
    <3> HIDE DEF h
    <3> DEFINE q == p(h)
               z == h \div q
    <3>4. q \in Nat \ {0} /\ z \in Nat /\ h = q * z
      <4>1. q \in Nat \ {0} /\ h % q = 0
        BY <3>2 DEF PowerOfTwo
      <4> HIDE DEF q
      <4>2. QED
        BY <3>1, <4>1, SMT
    <3> HIDE DEF z
    <3>5. n % (2 * q) = 0
      <4> HIDE DEF q
      <4>1. n = (2 * q) * z /\ 2 * q \in Nat \ {0}
        BY <3>1, <3>4, SMT
      <4>2. QED
        BY <3>4, <4>1, MultipleDivided
    <3>6. QED
      BY <3>2, <3>3, <3>5, DoubledPower
  <2>2. CASE n % 2 # 0
    <3>1. p(n) = 1
      BY <2>2, TrailingDef
    <3>2. n % 1 = 0
      BY SMT
    <3>3. QED
      BY <3>1, <3>2, DoubledPower
  <2>3. QED
    BY <2>1, <2>2
<1>2. \A n \in Nat : n \in P
  <2> HIDE DEF P
  <2>1. QED
    BY <1>1, StrongInduction
<1>3. QED
  BY <1>2

\* A smaller power of two divides what a larger one does.
LEMMA SmallerDivides ==
  ASSUME NEW a, NEW b, PowerOfTwo(a), PowerOfTwo(b), a <= b, NEW x \in Nat, x % b = 0
  PROVE  x % a = 0
<1>1. PICK q : PowerOfTwo(q) /\ b = a * q
  BY PowerDivides
<1>2. a \in Nat \ {0} /\ b \in Nat \ {0} /\ q \in Nat
  BY <1>1 DEF PowerOfTwo
<1> DEFINE z == x \div b
<1>3. z \in Nat /\ x = b * z
  BY <1>2, SMT
<1> HIDE DEF z
<1>4. x = a * (q * z) /\ q * z \in Nat
  BY <1>1, <1>2, <1>3, SMT
<1>5. QED
  BY <1>2, <1>4, MultipleDivided

\* What divides an offset and a counter divides the chunks between them.
LEMMA DifferenceDivided ==
  ASSUME NEW a \in Nat \ {0}, NEW x \in Nat, NEW y \in Nat, x <= y, x % a = 0, y % a = 0
  PROVE  (y - x) % a = 0
<1> DEFINE u == x \div a
           v == y \div a
<1>1. u \in Nat /\ v \in Nat /\ x = a * u /\ y = a * v
  BY SMT
<1> HIDE DEF u, v
<1>2. u <= v
  BY <1>1, SMT
<1>3. v - u \in Nat /\ y - x = a * (v - u)
  BY <1>1, <1>2, SMT
<1> DEFINE w == v - u
<1> HIDE DEF w
<1>4. w \in Nat /\ y - x = a * w
  BY <1>3 DEF w
<1>5. QED
  BY <1>4, MultipleDivided

-----------------------------------------------------------------------------
(* The stack.  Its entries are labelled by chunks counted from the offset,  *)
(* and stand for nodes of the tree of the whole message.                    *)

\* A stack of chaining values for the first chunks from the offset on.
Stands(o, s, limit) == \E b : PartStack(key, flags, o, b, limit) /\ Labels(s, b)

\* The length of such a stack.
LEMMA StandsLength ==
  ASSUME NEW k, NEW fl, NEW o, NEW b, NEW limit \in Nat, PartStack(k, fl, o, b, limit)
  PROVE  /\ Len(b) \in Nat /\ popcnt[limit] \in Nat /\ popcnt[limit] <= Len(b)
         /\ Len(b) > popcnt[limit] => Len(b) >= 2
         /\ limit = 0 => Len(b) = 0
         /\ limit # 0 => Len(b) # 0
<1>1. Covers(b, limit) /\ Binary(b)
  BY DEF PartStack
<1>2. Len(b) \in Nat /\ popcnt[limit] \in Nat /\ popcnt[limit] <= Len(b)
  BY <1>1, BinaryLength
<1>3. limit = 0 => Len(b) = 0
  <2> SUFFICES ASSUME limit = 0, Len(b) # 0
               PROVE  FALSE
    OBVIOUS
  <2>1. Len(b) \in 1 .. Len(b)
    BY <1>2, SMT
  <2>2. /\ b[Len(b)].first \in Nat /\ b[Len(b)].chunks \in Nat \ {0}
        /\ b[Len(b)].first + b[Len(b)].chunks = 0
    BY <1>1, <2>1 DEF Covers
  <2>3. QED
    BY <2>2, SMT
<1>4. limit # 0 => popcnt[limit] \in Nat \ {0}
  BY PopcntPositive
<1>5. QED
  BY <1>2, <1>3, <1>4, SMT

\* Of two stacks, the first with the two top entries of the second made one.
TopMerged(k, fl, t, b) ==
  /\ Len(b) \in Nat /\ Len(b) >= 2 /\ Len(t) = Len(b) - 1
  /\ \A i \in 1 .. Len(b) - 2 : t[i] = b[i]
  /\ t[Len(b) - 1].cv
       = output_chaining_value(parent_output(b[Len(b) - 1].cv, b[Len(b)].cv, k, fl))

\* The two top entries merged, with more entries than the counter has bits.
LEMMA PartsJoined ==
  ASSUME NEW k, NEW fl, NEW o \in Nat, NEW b, NEW limit \in Nat, PartStack(k, fl, o, b, limit),
         Len(b) > popcnt[limit]
  PROVE  PartStack(k, fl, o, Joined(k, fl, b), limit) /\ TopMerged(k, fl, Joined(k, fl, b), b)
<1> DEFINE n == Len(b)
           t == Joined(k, fl, b)
           l == b[n - 1]
           r == b[n]
           cv == output_chaining_value(parent_output(l.cv, r.cv, k, fl))
<1>1. Covers(b, limit) /\ Binary(b) /\ \A i \in 1 .. n : IsPart(k, fl, o, b[i])
  BY DEF PartStack
<1>2. n \in Nat /\ n >= 2
  BY StandsLength
<1>3. n - 1 \in 1 .. n /\ n \in 1 .. n /\ n - 1 # n /\ (n - 1) + 1 = n
  BY <1>2, SMT
<1>4. Covers(t, limit)
  BY <1>1, <1>2, JoinCovers
<1>5. /\ Binary(t) /\ l.chunks = r.chunks /\ Len(t) = n - 1 /\ \A i \in 1 .. n - 2 : t[i] = b[i]
      /\ t[n - 1] = Subtree(cv, l.first, l.chunks + r.chunks)
  BY <1>1, <1>2, JoinBinary
<1>6. /\ l.first \in Nat /\ PowerOfTwo(l.chunks) /\ r.first = l.first + l.chunks
      /\ l.cv = SubtreeCV(k, fl, o + l.first, l.chunks * ChunkLen)
      /\ r.cv = SubtreeCV(k, fl, o + r.first, r.chunks * ChunkLen)
  BY <1>1, <1>3 DEF Covers, Binary, Complete, IsPart
<1> HIDE DEF t, l, r
<1>7. cv = SubtreeCV(k, fl, o + l.first, (l.chunks + l.chunks) * ChunkLen)
  <2> DEFINE c == o + l.first
             a == l.chunks
  <2>1. c \in Nat /\ a \in Nat /\ o + r.first = c + a
    BY <1>6, SMT DEF PowerOfTwo
  <2>2. l.cv = SubtreeCV(k, fl, c, a * ChunkLen) /\ r.cv = SubtreeCV(k, fl, c + a, a * ChunkLen)
    BY <1>5, <1>6, <2>1
  <2> HIDE DEF c, a
  <2>3. PowerOfTwo(a)
    BY <1>6 DEF a
  <2>4. cv = SubtreeCV(k, fl, c, (a + a) * ChunkLen)
    BY <2>1, <2>2, <2>3, SiblingsMerged
  <2>5. QED
    BY <2>4 DEF c, a
<1> HIDE DEF cv, n
<1>8. IsPart(k, fl, o, t[n - 1]) /\ t[n - 1].cv = cv
  BY <1>5, <1>7 DEF IsPart, Subtree
<1>9. ASSUME NEW i \in 1 .. Len(t)
      PROVE  IsPart(k, fl, o, t[i])
  <2>1. i \in 1 .. n - 1
    BY <1>5
  <2>2. i = n - 1 \/ (i \in 1 .. n - 2 /\ i \in 1 .. n)
    BY <1>2, <2>1, SMT
  <2>3. QED
    BY <1>1, <1>5, <1>8, <2>2
<1>10. PartStack(k, fl, o, t, limit)
  BY <1>4, <1>5, <1>9 DEF PartStack
<1>11. QED
  BY <1>2, <1>5, <1>8, <1>10 DEF TopMerged, t, n, cv, l, r

\* Of two stacks, the first with one entry more, which has a chaining value.
OneMore(t, b, cv) ==
  Len(t) = Len(b) + 1 /\ t[Len(b) + 1].cv = cv /\ \A j \in 1 .. Len(b) : t[j] = b[j]

\* With no pair left to merge, the subtree that follows is put on top.
LEMMA PartAppended ==
  ASSUME NEW k, NEW fl, NEW o \in Nat, NEW b, NEW n \in Nat, PartStack(k, fl, o, b, n),
         Len(b) = popcnt[n],
         NEW a, PowerOfTwo(a), n % a = 0,
         NEW cv, cv = SubtreeCV(k, fl, o + n, a * ChunkLen)
  PROVE  LET t == Append(b, Subtree(cv, n, a))
         IN  PartStack(k, fl, o, t, n + a) /\ OneMore(t, b, cv)
<1> DEFINE e == Subtree(cv, n, a)
           t == Append(b, e)
<1>1. e.first = n /\ e.chunks = a /\ e.cv = cv /\ a \in Nat \ {0}
  BY DEF Subtree, PowerOfTwo
<1>2. Covers(b, n) /\ Binary(b) /\ (\A i \in 1 .. Len(b) : IsPart(k, fl, o, b[i])) /\ Complete(e)
  BY <1>1 DEF PartStack, Complete
<1>3. PICK S : b \in Seq(S)
  BY <1>2 DEF Covers
<1>4. IsPart(k, fl, o, e)
  BY <1>1 DEF IsPart
<1> HIDE DEF e
<1>5. /\ Len(t) = Len(b) + 1 /\ Len(b) \in Nat /\ t[Len(b) + 1] = e
      /\ \A j \in 1 .. Len(b) : t[j] = b[j]
  BY <1>3, SMT
<1>6. Covers(t, n + a)
  <2>1. e.first \in Nat /\ e.chunks \in Nat \ {0} /\ Covers(b, e.first)
    BY <1>1, <1>2
  <2>2. QED
    BY <1>1, <2>1, AppendCovers
<1>7. Binary(t)
  <2>1. e.first \in Nat /\ Covers(b, e.first) /\ ~ (Len(b) > popcnt[e.first])
    BY <1>1, <1>2, <1>5, SMT
  <2>2. QED
    BY <1>2, <2>1, AppendBinary
<1> HIDE DEF t
<1>8. ASSUME NEW i \in 1 .. Len(t)
      PROVE  IsPart(k, fl, o, t[i])
  <2>1. i \in 1 .. Len(b) \/ i = Len(b) + 1
    BY <1>5, SMT
  <2>2. QED
    BY <1>2, <1>4, <1>5, <2>1
<1>9. QED
  BY <1>1, <1>5, <1>6, <1>7, <1>8 DEF PartStack, OneMore, t, e

\* A stack merged down to n entries, from the one with an entry more.
Merged(s, f, n) ==
  IF n = Len(s) THEN s
  ELSE Append(SubSeq(f[n + 1], 1, n - 1),
              output_chaining_value(parent_output(f[n + 1][n], f[n + 1][n + 1], key, flags)))

\* The recursion of merge_cv_stack defines a function.
LEMMA MergedExist ==
  ASSUME NEW s, NEW l \in Nat, l = Len(s)
  PROVE  \E f : f = [n \in 0 .. l |-> Merged(s, f, n)]
<1> DEFINE P == {d \in Nat : d <= l => \E f : f = [n \in l - d .. l |-> Merged(s, f, n)]}
<1>1. ASSUME NEW d \in Nat, \A k \in 0 .. d - 1 : k \in P
      PROVE  d \in P
  <2> SUFFICES ASSUME d <= l
               PROVE  \E f : f = [n \in l - d .. l |-> Merged(s, f, n)]
    OBVIOUS
  <2> DEFINE p == l - d
  <2>0. p \in Nat
    BY SMT
  <2>1. \E f : \A n \in p + 1 .. l : f[n] = Merged(s, f, n)
    <3>1. CASE d = 0
      <4>1. p + 1 .. l = {}
        BY <3>1, SMT
      <4> HIDE DEF p
      <4>2. QED
        BY <4>1
    <3>2. CASE d # 0
      <4>1. d - 1 \in 0 .. d - 1 /\ d - 1 \in Nat /\ d - 1 <= l /\ l - (d - 1) = p + 1
        BY <3>2, SMT
      <4>2. PICK f : f = [n \in l - (d - 1) .. l |-> Merged(s, f, n)]
        BY <1>1, <4>1
      <4> HIDE DEF p
      <4>3. ASSUME NEW n \in p + 1 .. l
            PROVE  f[n] = Merged(s, f, n)
        BY <4>1, <4>2
      <4>4. QED
        BY <4>3
    <3>3. QED
      BY <3>1, <3>2
  <2> HIDE DEF p
  <2>2. PICK f : \A n \in p + 1 .. l : f[n] = Merged(s, f, n)
    BY <2>1
  <2> DEFINE g == [n \in p .. l |-> Merged(s, f, n)]
  <2>3. ASSUME NEW n \in p .. l
        PROVE  Merged(s, g, n) = Merged(s, f, n)
    <3>1. CASE n = l
      BY <3>1 DEF Merged
    <3>2. CASE n # l
      <4>1. n + 1 \in p + 1 .. l /\ n + 1 \in p .. l
        BY <2>0, <3>2, SMT
      <4>2. g[n + 1] = f[n + 1]
        BY <2>2, <4>1
      <4> HIDE DEF g
      <4>3. QED
        BY <3>2, <4>2, Zenon DEF Merged
    <3>3. QED
      BY <3>1, <3>2
  <2>4. g = [n \in p .. l |-> Merged(s, g, n)]
    <3> DEFINE x(n) == Merged(s, g, n)
               y(n) == Merged(s, f, n)
    <3>1. \A n \in p .. l : x(n) = y(n)
      BY <2>3
    <3>2. g = [n \in p .. l |-> y(n)]
      OBVIOUS
    <3> HIDE DEF x, y, g
    <3>3. g = [n \in p .. l |-> x(n)]
      BY <3>1, <3>2
    <3>4. QED
      BY <3>3 DEF x
  <2> HIDE DEF g
  <2>5. QED
    BY <2>4 DEF p
<1>2. \A d \in Nat : d \in P
  <2> HIDE DEF P
  <2>1. QED
    BY <1>1, StrongInduction
<1>3. l <= l /\ l - l = 0
  BY SMT
<1>4. QED
  BY <1>2, <1>3

\* What merge_cv_stack returns.
LEMMA MergeStack ==
  ASSUME NEW s, NEW c, Len(s) \in Nat
  PROVE  \E f : /\ \A n \in 0 .. Len(s) : f[n] = Merged(s, f, n)
                /\ merge_cv_stack(s, c) = IF Len(s) > merge_goal(c) THEN f[merge_goal(c)] ELSE s
<1> DEFINE l == Len(s)
           f == CHOOSE g : g = [n \in 0 .. l |-> Merged(s, g, n)]
<1>1. merge_cv_stack(s, c) = IF Len(s) > merge_goal(c) THEN f[merge_goal(c)] ELSE s
  BY DEF merge_cv_stack, Merged
<1>2. \E g : g = [n \in 0 .. l |-> Merged(s, g, n)]
  BY MergedExist
<1>3. f = [n \in 0 .. l |-> Merged(s, f, n)]
  BY <1>2
<1> HIDE DEF f
<1>4. \A n \in 0 .. l : f[n] = Merged(s, f, n)
  <2> DEFINE h(n) == Merged(s, f, n)
  <2>1. f = [n \in 0 .. l |-> h(n)]
    BY <1>3
  <2> HIDE DEF h
  <2>2. \A n \in 0 .. l : f[n] = h(n)
    BY <2>1
  <2>3. QED
    BY <2>2 DEF h
<1>5. QED
  BY <1>1, <1>4

\* The same merge on the chaining values alone.
LEMMA LabelsJoined ==
  ASSUME NEW k, NEW fl, NEW s, NEW b, Labels(s, b), NEW t, TopMerged(k, fl, t, b),
         NEW n, n = Len(b)
  PROVE  Labels(Append(SubSeq(s, 1, n - 2),
                       output_chaining_value(parent_output(s[n - 1], s[n], k, fl))), t)
<1> DEFINE low == SubSeq(s, 1, n - 2)
           cv == output_chaining_value(parent_output(s[n - 1], s[n], k, fl))
           u == Append(low, cv)
<1>0. /\ n \in Nat /\ n >= 2 /\ Len(b) = n /\ Len(t) = n - 1
      /\ \A i \in 1 .. n - 2 : t[i] = b[i]
      /\ t[n - 1].cv = output_chaining_value(parent_output(b[n - 1].cv, b[n].cv, k, fl))
  BY DEF TopMerged
<1>1. Len(s) = n /\ \A i \in 1 .. n : s[i] = b[i].cv
  BY <1>0 DEF Labels
<1>2. PICK S : s \in Seq(S)
  BY DEF Labels
<1>3. n - 1 \in 1 .. n /\ n \in 1 .. n /\ (n - 2) + 1 = n - 1
  BY <1>0, SMT
<1>4. cv = t[n - 1].cv
  BY <1>0, <1>1, <1>3
<1>5. low \in Seq(S) /\ Len(low) = n - 2 /\ \A i \in 1 .. n - 2 : low[i] = s[i]
  <2>1. /\ 1 \in Int /\ n - 2 \in Int /\ (n - 2) - 1 + 1 = n - 2
        /\ (IF 1 <= n - 2 THEN n - 2 ELSE 0) = n - 2
        /\ \A i \in 1 .. n - 2 : 1 + i - 1 = i /\ i \in 1 .. n
    BY <1>0, SMT
  <2>2. \A i \in 1 .. n - 2 : s[i] \in S
    BY <1>1, <1>2, <2>1, ElementOfSeq
  <2>3. QED
    BY <2>1, <2>2, SubSeqProperties
<1> HIDE DEF low, cv
<1>6. /\ u \in Seq(S \cup {cv}) /\ Len(u) = n - 1 /\ u[n - 1] = cv
      /\ \A i \in 1 .. n - 2 : u[i] = low[i]
  BY <1>0, <1>3, <1>5, SMT
<1> HIDE DEF u
<1>7. ASSUME NEW i \in 1 .. Len(t)
      PROVE  u[i] = t[i].cv
  <2>1. i = n - 1 \/ (i \in 1 .. n - 2 /\ i \in 1 .. n)
    BY <1>0, SMT
  <2>2. QED
    BY <1>0, <1>1, <1>4, <1>5, <1>6, <2>1
<1>8. QED
  BY <1>0, <1>6, <1>7 DEF Labels, u, low, cv

\* One chaining value for each 1 bit of the number of chunks.
OneEach(o, s, limit) ==
  \E b : PartStack(key, flags, o, b, limit) /\ Labels(s, b) /\ Len(b) = popcnt[limit]

\* merge_cv_stack leaves one entry for each 1 bit of the chunks since the
\* offset, and what the entries stand for are still nodes of the tree.
THEOREM MergedCounts ==
  ASSUME initial \in Nat, NEW c \in Nat, initial <= c, NEW s, Stands(initial, s, c - initial)
  PROVE  OneEach(initial, merge_cv_stack(s, c), c - initial)
<1> DEFINE o == initial
           limit == c - o
           goal == popcnt[limit]
           l == Len(s)
           Is(v, m) == \E t : PartStack(key, flags, o, t, limit) /\ Labels(v, t) /\ Len(t) = m
<1>1. limit \in Nat /\ o \in Nat
  BY SMT
<1>2. PICK b : PartStack(key, flags, o, b, limit) /\ Labels(s, b)
  BY DEF Stands
<1>3. merge_goal(c) = goal
  BY DEF merge_goal
<1> HIDE DEF limit, o
<1>4. l = Len(b) /\ l \in Nat /\ goal \in Nat /\ goal <= l
  BY <1>1, <1>2, StandsLength DEF Labels
<1>5. PICK f : /\ \A n \in 0 .. l : f[n] = Merged(s, f, n)
               /\ merge_cv_stack(s, c) = IF l > goal THEN f[goal] ELSE s
  BY <1>3, <1>4, MergeStack
<1> HIDE DEF goal
<1> DEFINE P == {d \in Nat : d <= l - goal => Is(f[l - d], l - d)}
<1>6. ASSUME NEW d \in Nat, \A e \in 0 .. d - 1 : e \in P
      PROVE  d \in P
  <2> SUFFICES ASSUME d <= l - goal
               PROVE  Is(f[l - d], l - d)
    OBVIOUS
  <2>1. CASE d = 0
    <3>1. l - d = l /\ l \in 0 .. l
      BY <1>4, <2>1, SMT
    <3>2. f[l] = s
      BY <1>5, <3>1 DEF Merged
    <3>3. QED
      BY <1>2, <1>4, <3>1, <3>2
  <2>2. CASE d # 0
    <3> DEFINE n == l - (d - 1)
    <3>1. /\ d - 1 \in 0 .. d - 1 /\ d - 1 \in Nat /\ d - 1 <= l - goal
          /\ n \in Nat /\ n > goal /\ l - d = n - 1 /\ n - 1 \in 0 .. l /\ n - 1 # l
          /\ (n - 1) + 1 = n /\ (n - 1) - 1 = n - 2
      BY <1>4, <2>2, SMT
    <3>2. Is(f[n], n)
      BY <1>6, <3>1
    <3> HIDE DEF n
    <3>3. PICK t : PartStack(key, flags, o, t, limit) /\ Labels(f[n], t) /\ Len(t) = n
      BY <3>2
    <3> DEFINE u == Joined(key, flags, t)
    <3>4. PartStack(key, flags, o, u, limit) /\ TopMerged(key, flags, u, t) /\ Len(u) = n - 1
      <4>1. Len(t) > popcnt[limit]
        BY <3>1, <3>3 DEF goal
      <4>2. PartStack(key, flags, o, u, limit) /\ TopMerged(key, flags, u, t)
        BY <1>1, <3>3, <4>1, PartsJoined
      <4>3. QED
        BY <3>3, <4>2 DEF TopMerged
    <3> HIDE DEF u
    <3>5. f[n - 1] = Append(SubSeq(f[n], 1, n - 2),
                            output_chaining_value(parent_output(f[n][n - 1], f[n][n], key, flags)))
      BY <1>5, <3>1 DEF Merged
    <3>6. Labels(f[n - 1], u)
      BY <3>3, <3>4, <3>5, LabelsJoined
    <3>7. QED
      BY <3>1, <3>4, <3>6
  <2>3. QED
    BY <2>1, <2>2
<1>7. \A d \in Nat : d \in P
  <2> HIDE DEF P
  <2>1. QED
    BY <1>6, StrongInduction
<1>8. Is(merge_cv_stack(s, c), goal)
  <2>1. CASE l > goal
    <3>1. l - goal \in Nat /\ l - (l - goal) = goal /\ l - goal <= l - goal
      BY <1>4, <2>1, SMT
    <3>2. QED
      BY <1>5, <1>7, <2>1, <3>1
  <2>2. CASE ~ (l > goal)
    <3>1. l = goal
      BY <1>4, <2>2, SMT
    <3>2. QED
      BY <1>2, <1>4, <1>5, <2>2, <3>1
  <2>3. QED
    BY <2>1, <2>2
<1>9. QED
  BY <1>8 DEF OneEach, goal, limit, o

\* A stack with one entry for each 1 bit has their number as its length.
LEMMA OneEachStands ==
  ASSUME NEW o, NEW s, NEW limit \in Nat, OneEach(o, s, limit)
  PROVE  Stands(o, s, limit) /\ Len(s) = popcnt[limit] /\ Len(s) \in Nat
         /\ (s = <<>> <=> limit = 0)
<1>1. PICK b : PartStack(key, flags, o, b, limit) /\ Labels(s, b) /\ Len(b) = popcnt[limit]
  BY DEF OneEach
<1>2. Len(b) \in Nat /\ (limit = 0 => Len(b) = 0) /\ (limit # 0 => Len(b) # 0)
  BY <1>1, StandsLength
<1>3. PICK S : s \in Seq(S)
  BY <1>1 DEF Labels
<1>4. s = <<>> <=> Len(s) = 0
  BY <1>3, EmptySeq, SMT
<1>5. Len(s) = Len(b)
  BY <1>1 DEF Labels
<1>6. QED
  BY <1>1, <1>2, <1>4, <1>5 DEF Stands

\* push_cv puts the next subtree on a stack where no pair is left to merge.
THEOREM PushedStands ==
  ASSUME initial \in Nat, NEW c \in Nat, initial <= c, NEW s, Stands(initial, s, c - initial),
         NEW a, PowerOfTwo(a), (c - initial) % a = 0,
         NEW cv, cv = SubtreeCV(key, flags, c, a * ChunkLen)
  PROVE  /\ Stands(initial, push_cv(s, cv, c), (c + a) - initial)
         /\ Len(push_cv(s, cv, c)) = popcnt[c - initial] + 1
<1> DEFINE o == initial
           n == c - o
           m == merge_cv_stack(s, c)
<1>1. o \in Nat /\ n \in Nat /\ o + n = c /\ a \in Nat /\ (c + a) - o = n + a
  BY SMT DEF PowerOfTwo
<1>2. PICK b : PartStack(key, flags, o, b, n) /\ Labels(m, b) /\ Len(b) = popcnt[n]
  BY MergedCounts DEF OneEach
<1>3. n % a = 0 /\ cv = SubtreeCV(key, flags, o + n, a * ChunkLen)
  BY <1>1
<1>4. push_cv(s, cv, c) = Append(m, cv)
  BY DEF push_cv
<1> HIDE DEF m, n, o
<1> DEFINE t == Append(b, Subtree(cv, n, a))
<1>a. PartStack(key, flags, o, t, n + a) /\ OneMore(t, b, cv)
  BY <1>1, <1>2, <1>3, PartAppended
<1> HIDE DEF t
<1>5. /\ PartStack(key, flags, o, t, n + a) /\ Len(t) = Len(b) + 1
      /\ t[Len(b) + 1].cv = cv /\ \A j \in 1 .. Len(b) : t[j] = b[j]
  BY <1>a DEF OneMore
<1>6. Len(b) \in Nat
  BY <1>1, <1>2, StandsLength
<1>7. Labels(Append(m, cv), t)
  <2>1. PICK S : m \in Seq(S)
    BY <1>2 DEF Labels
  <2> DEFINE u == Append(m, cv)
  <2>2. /\ u \in Seq(S \cup {cv}) /\ Len(u) = Len(m) + 1 /\ u[Len(m) + 1] = cv
        /\ \A j \in 1 .. Len(m) : u[j] = m[j]
    BY <2>1, SMT
  <2> HIDE DEF u
  <2>3. Len(m) = Len(b) /\ \A j \in 1 .. Len(b) : m[j] = b[j].cv
    BY <1>2 DEF Labels
  <2>4. ASSUME NEW i \in 1 .. Len(t)
        PROVE  u[i] = t[i].cv
    <3>1. i \in 1 .. Len(b) \/ i = Len(b) + 1
      BY <1>5, <1>6, SMT
    <3>2. QED
      BY <1>5, <2>2, <2>3, <3>1
  <2>5. QED
    BY <1>5, <2>2, <2>3, <2>4 DEF Labels, u
<1>8. Len(Append(m, cv)) = Len(b) + 1
  BY <1>5, <1>7 DEF Labels
<1>9. QED
  BY <1>1, <1>2, <1>4, <1>5, <1>7, <1>8 DEF Stands, n, o

-----------------------------------------------------------------------------
(* The inductive invariant.                                                 *)

\* The chunks since the offset that are complete.
chunks_since == chunk.counter - initial

HasherTyped ==
  /\ initial \in Nat /\ chunk.counter \in Nat /\ initial <= chunk.counter
  /\ rem \in Nat /\ pc \in {"idle", "loop"}

\* The chunk state holds the bytes of its chunk, none while subtrees are hashed.
ChunkInv ==
  /\ HoldsInput(key, flags, chunk)
  /\ chunk_state_len(chunk) \in Nat /\ chunk_state_len(chunk) <= ChunkLen
  /\ pc = "idle" => rem = 0
  /\ pc = "loop" => chunk_state_len(chunk) = 0

\* Between calls no pair is left to merge, except that when the input ended
\* with a whole subtree there are two entries to make the root of.
StackInv ==
  /\ Stands(initial, stack, chunks_since)
  /\ pc = "idle" /\ chunk_state_len(chunk) > 0 => OneEach(initial, stack, chunks_since)
  /\ rem = 0 /\ chunk_state_len(chunk) = 0 /\ stack # <<>> => Len(stack) >= 2

\* What is hashed behind an offset fits in a subtree that begins there.
LimitInv == initial > 0 => count + rem <= trailing_power[initial] * ChunkLen

HashingInv == HasherTyped /\ ChunkInv /\ StackInv /\ LimitInv

\* A hasher between calls that was given some input.
Resting == HashingInv /\ pc = "idle" /\ count # 0

-----------------------------------------------------------------------------
(* final_output: the root of the tree over the bytes since the offset.      *)

\* The subtrees a resting hasher's stack stands for.
Labelled(b) ==
  /\ PartStack(key, flags, initial, b, chunks_since) /\ Labels(stack, b)
  /\ chunk_state_len(chunk) > 0 => Len(b) = popcnt[chunks_since]

\* What follows r of them, to the end of the bytes given.
PartAfter(b, r) == PartOutput(key, flags, initial, b, chunks_since, count, r)

\* What a resting hasher's state is, in numbers.
LEMMA RestingState ==
  ASSUME Resting
  PROVE  /\ chunks_since \in Nat /\ initial \in Nat /\ chunk.counter = initial + chunks_since
         /\ chunk_state_len(chunk) \in 0 .. ChunkLen /\ chunk_state_len(chunk) \in Nat
         /\ count \in Nat /\ count = chunks_since * ChunkLen + chunk_state_len(chunk)
         /\ ChunkLen \in Nat \ {0}
         /\ HoldsInput(key, flags, chunk)
         /\ \E b : Labelled(b)
<1> DEFINE n == chunks_since
           len == chunk_state_len(chunk)
<1>1. /\ initial \in Nat /\ chunk.counter \in Nat /\ initial <= chunk.counter
      /\ len \in Nat /\ len <= ChunkLen /\ HoldsInput(key, flags, chunk)
  BY DEF Resting, HashingInv, HasherTyped, ChunkInv
<1>2. ChunkLen \in Nat \ {0}
  BY HashTreeAssumption
<1>3. n \in Nat /\ chunk.counter = initial + n
  BY <1>1, SMT DEF chunks_since
<1>4. count = n * ChunkLen + len
  BY DEF count, chunks_since
<1>5. \E b : Labelled(b)
  <2>1. CASE len > 0
    <3>1. OneEach(initial, stack, n)
      BY <2>1 DEF Resting, HashingInv, StackInv
    <3>2. QED
      BY <3>1 DEF OneEach, Labelled
  <2>2. CASE ~ (len > 0)
    <3>1. Stands(initial, stack, n)
      BY DEF Resting, HashingInv, StackInv
    <3>2. QED
      BY <2>2, <3>1 DEF Stands, Labelled
  <2>3. QED
    BY <2>1, <2>2
<1> HIDE DEF n, len
<1>6. len \in 0 .. ChunkLen /\ n * ChunkLen + len \in Nat
  BY <1>1, <1>2, <1>3, SMT
<1>7. QED
  BY <1>1, <1>2, <1>3, <1>4, <1>5, <1>6 DEF n, len

\* The stack of a resting hasher, whose entries have the labels' values.
LEMMA RestingStack ==
  ASSUME Resting, NEW b, Labelled(b)
  PROVE  /\ Len(b) = Len(stack) /\ Len(b) \in Nat /\ Covers(b, chunks_since)
         /\ \A i \in 1 .. Len(b) : stack[i] = b[i].cv
         /\ stack = <<>> => Len(b) = 0
         /\ chunk_state_len(chunk) = 0 => stack # <<>> /\ Len(b) >= 2
         /\ Len(b) = 0 => chunks_since = 0
<1> DEFINE n == chunks_since
           len == chunk_state_len(chunk)
<1>1. n \in Nat /\ count = n * ChunkLen + len /\ ChunkLen \in Nat \ {0}
  BY RestingState
<1>2. PartStack(key, flags, initial, b, n) /\ Labels(stack, b)
  BY DEF Labelled
<1>3. Covers(b, n) /\ Len(b) \in Nat
  BY <1>1, <1>2, StandsLength DEF PartStack
<1>4. Len(b) = Len(stack) /\ \A i \in 1 .. Len(b) : stack[i] = b[i].cv
  BY <1>2 DEF Labels
<1>5. PICK S : stack \in Seq(S)
  BY <1>2 DEF Labels
<1>6. stack = <<>> <=> Len(stack) = 0
  BY <1>5, EmptySeq, SMT
<1>7. n # 0 => Len(b) # 0
  BY <1>1, <1>2, StandsLength
<1>8. len = 0 => stack # <<>> /\ Len(stack) >= 2
  <2> SUFFICES ASSUME len = 0
               PROVE  stack # <<>> /\ Len(stack) >= 2
    OBVIOUS
  <2>1. n # 0
    <3>1. count # 0
      BY DEF Resting
    <3> HIDE DEF n, len
    <3>2. QED
      BY <1>1, <3>1, SMT
  <2>2. stack # <<>>
    BY <1>4, <1>6, <1>7, <2>1
  <2>3. rem = 0
    BY DEF Resting, HashingInv, ChunkInv
  <2>4. QED
    BY <2>2, <2>3 DEF Resting, HashingInv, StackInv
<1>9. QED
  BY <1>3, <1>4, <1>6, <1>7, <1>8

\* The number of entries that final_output does not begin with, and an
\* iteration of its loop.
Below == IF from_chunk THEN Len(stack) ELSE Len(stack) - 2

Rolled(f, i) ==
  IF i = Below
  THEN IF from_chunk THEN chunk_state_output(chunk)
       ELSE parent_output(stack[Below + 1], stack[Below + 2], key, flags)
  ELSE parent_output(stack[i + 1], output_chaining_value(f[i + 1]), key, flags)

\* Where an entry ends, and the parent above it.
LEMMA RestingEdge ==
  ASSUME Resting, NEW b, Labelled(b), NEW i \in 1 .. Len(b)
  PROVE  /\ EdgeAt(key, flags, initial, b, chunks_since, count, i)
         /\ chunk_state_len(chunk) > 0 \/ i # Len(b) =>
              PartAfter(b, i - 1)
                = parent_output(b[i].cv, output_chaining_value(PartAfter(b, i)), key, flags)
<1> DEFINE n == chunks_since
           len == chunk_state_len(chunk)
           total == count
<1>1. /\ n \in Nat /\ initial \in Nat /\ len \in 0 .. ChunkLen /\ total \in Nat
      /\ total = n * ChunkLen + len
  BY RestingState
<1>2. PartStack(key, flags, initial, b, n) /\ (len > 0 => Len(b) = popcnt[n])
  BY DEF Labelled
<1> HIDE DEF n, len, total
<1>3. EdgeAt(key, flags, initial, b, n, total, i)
  BY <1>1, <1>2, PartEdge
<1>4. ASSUME len > 0 \/ i # Len(b)
      PROVE  PartOutput(key, flags, initial, b, n, total, i - 1)
               = parent_output(b[i].cv,
                   output_chaining_value(PartOutput(key, flags, initial, b, n, total, i)), key, flags)
  BY <1>1, <1>2, <1>4, PartEdgeIsParent
<1>5. QED
  BY <1>3, <1>4 DEF PartAfter, n, len, total

\* final_output begins with the chunk state, or with the two top entries.
LEMMA RolledFirst ==
  ASSUME Resting, NEW b, Labelled(b), NEW f
  PROVE  Below \in Nat /\ Rolled(f, Below) = PartAfter(b, Below)
<1> DEFINE m == Len(b)
           n == chunks_since
           len == chunk_state_len(chunk)
           c == chunk.counter
           total == count
<1>1. /\ n \in Nat /\ initial \in Nat /\ c = initial + n /\ len \in Nat /\ len <= ChunkLen
      /\ total \in Nat /\ total = n * ChunkLen + len /\ ChunkLen \in Nat \ {0}
      /\ HoldsInput(key, flags, chunk)
  BY RestingState, SMT
<1>2. /\ Len(stack) = m /\ m \in Nat /\ Covers(b, n)
      /\ \A i \in 1 .. m : stack[i] = b[i].cv
      /\ len = 0 => stack # <<>> /\ m >= 2
      /\ stack = <<>> => m = 0
  BY RestingStack
<1>3. CASE from_chunk
  <2>1. Below = m
    BY <1>2, <1>3 DEF Below
  <2>2. len > 0
    <3>1. stack = <<>> \/ len > 0
      BY <1>3 DEF from_chunk
    <3> HIDE DEF len, m
    <3>2. QED
      BY <1>1, <1>2, <3>1, SMT
  <2>3. EdgeStart(b, n, m) = n
    BY DEF EdgeStart
  <2>4. initial + n = c
    BY <1>1
  <2> HIDE DEF m, len, total, n, c
  <2>5. c \in Nat /\ total - n * ChunkLen = len
    BY <1>1, <2>4, SMT
  <2>6. PartAfter(b, m) = TreeOutput(key, flags, c, len)
    BY <2>3, <2>4, <2>5 DEF PartAfter, PartOutput, total, n
  <2>7. TreeOutput(key, flags, c, len) = ChunkOutput(key, flags, c, len)
    BY <1>1, <2>5, TreeOutputRecursion
  <2>8. chunk = Holding(key, flags, c, len)
    BY <1>1 DEF HoldsInput, c, len
  <2>9. chunk_state_output(chunk) = ChunkOutput(key, flags, c, len)
    BY <1>1, <2>2, <2>5, <2>8, HoldingOutput
  <2>10. QED
    BY <1>2, <1>3, <2>1, <2>6, <2>7, <2>9 DEF Rolled
<1>4. CASE ~ from_chunk
  <2>1. len = 0 /\ m >= 2
    <3> HIDE DEF len, m
    <3>1. ~ (len > 0)
      BY <1>4 DEF from_chunk, len
    <3>2. len = 0
      BY <1>1, <3>1, SMT
    <3>3. QED
      BY <1>2, <3>2
  <2>2. Below = m - 2
    BY <1>2, <1>4 DEF Below
  <2>3. /\ m - 2 \in Nat /\ (m - 2) + 1 = m - 1 /\ (m - 2) + 2 = m /\ (m - 1) - 1 = m - 2
        /\ m - 1 \in 1 .. m /\ m \in 1 .. m /\ m - 1 # m
    BY <1>2, <2>1, SMT
  <2>4. PartAfter(b, m - 2)
          = parent_output(b[m - 1].cv, output_chaining_value(PartAfter(b, m - 1)), key, flags)
    BY <2>3, RestingEdge
  <2>5. output_chaining_value(PartAfter(b, m - 1)) = b[m].cv
    <3> DEFINE w == Width(b, m)
               r == Rest(b, total, m)
               first == b[m].first
    <3>1. EdgeAt(key, flags, initial, b, n, total, m)
      BY <2>3, RestingEdge
    <3>2. /\ PartOutput(key, flags, initial, b, n, total, m - 1)
               = TreeOutput(key, flags, initial + first, r)
          /\ b[m].cv = SubtreeCV(key, flags, initial + first, w)
          /\ total - EdgeStart(b, n, m) * ChunkLen = r - w
      BY <3>1 DEF EdgeAt
    <3>3. EdgeStart(b, n, m) = n
      BY DEF EdgeStart
    <3>4. w \in Nat /\ r \in Int
      <4>1. first \in Nat /\ b[m].chunks \in Nat
        BY <1>2, <2>3 DEF Covers
      <4> HIDE DEF total
      <4>2. QED
        BY <1>1, <4>1, SMT DEF Width, Rest
    <3> HIDE DEF w, r, total, n, len
    <3>5. total - n * ChunkLen = 0
      BY <1>1, <2>1, SMT
    <3>6. r = w
      BY <3>2, <3>3, <3>4, <3>5, SMT
    <3>7. QED
      BY <3>2, <3>6 DEF PartAfter, SubtreeCV, total, n
  <2>6. Rolled(f, m - 2) = parent_output(stack[m - 1], stack[m], key, flags)
    BY <1>4, <2>2, <2>3 DEF Rolled
  <2>7. stack[m - 1] = b[m - 1].cv /\ stack[m] = b[m].cv
    BY <1>2, <2>3
  <2>8. QED
    BY <2>2, <2>3, <2>4, <2>5, <2>6, <2>7
<1>5. QED
  BY <1>3, <1>4

\* One iteration of final_output's loop goes one entry down.
LEMMA RolledNext ==
  ASSUME Resting, NEW b, Labelled(b), NEW f, NEW r \in 0 .. Below - 1,
         f[r + 1] = PartAfter(b, r + 1)
  PROVE  Rolled(f, r) = PartAfter(b, r)
<1> DEFINE m == Len(b)
           i == r + 1
<1>1. m \in Nat /\ Len(stack) = m /\ Below \in Nat
  BY RestingStack, RolledFirst
<1>2. Below = m \/ Below = m - 2
  BY <1>1 DEF Below
<1>3. r # Below /\ i - 1 = r /\ i \in 1 .. m /\ (Below = m - 2 => i # m)
  BY <1>1, <1>2, SMT
<1>4. chunk_state_len(chunk) > 0 \/ i # m
  <2>1. CASE chunk_state_len(chunk) > 0
    BY <2>1
  <2>2. CASE stack = <<>>
    <3>1. m = 0
      BY <2>2, RestingStack
    <3>2. QED
      BY <1>3, <3>1, SMT
  <2>3. CASE ~ from_chunk
    BY <1>1, <1>3, <2>3 DEF Below
  <2>4. QED
    BY <2>1, <2>2, <2>3 DEF from_chunk
<1>5. PartAfter(b, i - 1)
        = parent_output(b[i].cv, output_chaining_value(PartAfter(b, i)), key, flags)
  BY <1>3, <1>4, RestingEdge
<1>6. stack[i] = b[i].cv
  BY <1>3, RestingStack
<1>7. QED
  BY <1>3, <1>5, <1>6 DEF Rolled

\* Whatever satisfies the equation of final_output's loop holds the parts.
LEMMA RolledParts ==
  ASSUME Resting, NEW b, Labelled(b), NEW f, \A r \in 0 .. Below : f[r] = Rolled(f, r)
  PROVE  f[0] = PartAfter(b, 0)
<1> DEFINE m == Below
           P == {d \in Nat : d <= m => f[m - d] = PartAfter(b, m - d)}
<1>1. m \in Nat /\ Rolled(f, m) = PartAfter(b, m)
  BY RolledFirst
<1>2. ASSUME NEW d \in Nat, \A e \in 0 .. d - 1 : e \in P
      PROVE  d \in P
  <2> SUFFICES ASSUME d <= m
               PROVE  f[m - d] = PartAfter(b, m - d)
    OBVIOUS
  <2> HIDE DEF m
  <2>1. m - d \in 0 .. m
    BY <1>1, SMT
  <2>2. f[m - d] = Rolled(f, m - d)
    BY <2>1 DEF m
  <2>3. CASE d = 0
    <3>1. m - d = m
      BY <1>1, <2>3, SMT
    <3>2. QED
      BY <1>1, <2>2, <3>1
  <2>4. CASE d # 0
    <3>1. d - 1 \in 0 .. d - 1 /\ d - 1 <= m /\ m - (d - 1) = (m - d) + 1 /\ m - d \in 0 .. m - 1
          /\ d - 1 \in Nat
      BY <1>1, <2>4, SMT
    <3>2. f[m - (d - 1)] = PartAfter(b, m - (d - 1))
      BY <1>2, <3>1
    <3>3. Rolled(f, m - d) = PartAfter(b, m - d)
      BY <3>1, <3>2, RolledNext DEF m
    <3>4. QED
      BY <2>2, <3>3
  <2>5. QED
    BY <2>3, <2>4
<1>3. \A d \in Nat : d \in P
  <2> HIDE DEF P
  <2>1. QED
    BY <1>2, StrongInduction
<1>4. m <= m /\ m - m = 0
  BY <1>1, SMT
<1>5. QED
  BY <1>1, <1>3, <1>4

\* final_output computes the node over all the bytes since the offset.
THEOREM FinalOutput ==
  ASSUME Resting
  PROVE  final_output = TreeOutput(key, flags, initial, count)
<1>1. PICK b : Labelled(b)
  BY RestingState
<1> DEFINE g == [r \in 0 .. Below |-> PartAfter(b, r)]
           output == CHOOSE f : f = [r \in 0 .. Below |-> Rolled(f, r)]
<1>2. final_output = output[0]
  BY DEF final_output, Below, Rolled
<1>3. g = [r \in 0 .. Below |-> Rolled(g, r)]
  <2>1. ASSUME NEW r \in 0 .. Below
        PROVE  Rolled(g, r) = PartAfter(b, r)
    <3>1. Below \in Nat
      BY <1>1, RolledFirst
    <3>2. CASE r = Below
      BY <1>1, <3>2, RolledFirst
    <3>3. CASE r # Below
      <4>1. r \in 0 .. Below - 1 /\ r + 1 \in 0 .. Below
        BY <3>1, <3>3, SMT
      <4>2. g[r + 1] = PartAfter(b, r + 1)
        BY <4>1
      <4> HIDE DEF g
      <4>3. QED
        BY <1>1, <4>1, <4>2, RolledNext
    <3>4. QED
      BY <3>2, <3>3
  <2>2. QED
    BY <2>1
<1> HIDE DEF g
<1>4. output = [r \in 0 .. Below |-> Rolled(output, r)]
  BY <1>3
<1> HIDE DEF output
<1>5. \A r \in 0 .. Below : output[r] = Rolled(output, r)
  BY <1>4
<1>6. output[0] = PartAfter(b, 0)
  BY <1>1, <1>5, RolledParts
<1>7. PartAfter(b, 0) = TreeOutput(key, flags, initial, count)
  <2>1. /\ count \in Nat /\ initial \in Nat /\ Len(b) \in Nat /\ Covers(b, chunks_since)
        /\ (Len(b) = 0 => chunks_since = 0) /\ ChunkLen \in Nat
    BY <1>1, RestingState, RestingStack
  <2>2. PICK S : b \in Seq(S)
    BY <2>1 DEF Covers
  <2>3. b = <<>> <=> Len(b) = 0
    BY <2>2, EmptySeq, SMT
  <2>4. EdgeStart(b, chunks_since, 0) = 0
    <3>1. 0 + 1 = 1
      BY SMT
    <3>2. QED
      BY <2>1, <2>3, <3>1 DEF EdgeStart, Covers
  <2>5. initial + 0 = initial /\ count - 0 * ChunkLen = count
    BY <2>1, SMT
  <2>6. QED
    BY <2>4, <2>5 DEF PartAfter, PartOutput
<1>8. QED
  BY <1>2, <1>6, <1>7

-----------------------------------------------------------------------------
(* Every call keeps what the hasher holds that of its bytes.                *)

\* A chunk state, an empty one, and one whose counter is set.
LEMMA HeldBytes ==
  ASSUME ChunkInv, chunk.counter \in Nat
  PROVE  /\ chunk = Holding(key, flags, chunk.counter, chunk_state_len(chunk))
         /\ chunk.flags = flags
         /\ at = chunk.counter * ChunkLen + chunk_state_len(chunk)
         /\ chunk_state_len(chunk) \in Nat
<1>1. chunk = Holding(key, flags, chunk.counter, chunk_state_len(chunk))
      /\ chunk_state_len(chunk) \in Nat
  BY DEF ChunkInv, HoldsInput
<1> DEFINE c == chunk.counter
           len == chunk_state_len(chunk)
<1>2. chunk.flags = flags
  <2>1. c \in Nat /\ len \in Nat /\ chunk = Holding(key, flags, c, len)
    BY <1>1
  <2> HIDE DEF c, len
  <2>2. QED
    BY <2>1, HeldState
<1>3. QED
  BY <1>1, <1>2 DEF at

\* A chunk state that takes the bytes that follow those it holds.
LEMMA MoreInput ==
  ASSUME NEW c \in Nat, NEW len \in Nat, NEW ch, ch = Holding(key, flags, c, len),
         NEW from, from = c * ChunkLen + len, NEW n \in Nat, len + n > 0
  PROVE  chunk_state_update(ch, from, n) = Holding(key, flags, c, len + n)
<1>1. chunk_state_update(Holding(key, flags, c, len), c * ChunkLen + len, n)
        = Holding(key, flags, c, len + n)
  BY UpdatedHolding
<1>2. QED
  BY <1>1

\* An empty chunk state given some other number.
LEMMA EmptyMoved ==
  ASSUME NEW c \in Nat, NEW d \in Nat
  PROVE  [Holding(key, flags, c, 0) EXCEPT !.counter = d] = Holding(key, flags, d, 0)
<1>1. /\ Holding(key, flags, c, 0) = chunk_state_init(key, c, flags)
      /\ Holding(key, flags, d, 0) = chunk_state_init(key, d, flags)
  BY HoldingNothing
<1>2. [chunk_state_init(key, c, flags) EXCEPT !.counter = d] = chunk_state_init(key, d, flags)
  BY DEF chunk_state_init
<1>3. QED
  BY <1>1, <1>2

\* The stack of a hasher that was given nothing, whatever its offset.
LEMMA NothingStands ==
  ASSUME NEW o \in Nat
  PROVE  Stands(o, <<>>, 0)
<1>1. <<>> \in Seq({}) /\ Len(<<>>) = 0 /\ \A i : i \notin 1 .. 0
  BY EmptySeq, SMT
<1>2. Covers(<<>>, 0) /\ Binary(<<>>)
  BY <1>1 DEF Covers, Binary
<1>3. PartStack(key, flags, o, <<>>, 0) /\ Labels(<<>>, <<>>)
  BY <1>1, <1>2 DEF PartStack, Labels
<1>4. QED
  BY <1>3 DEF Stands

\* There is no other.
LEMMA StandsForNothing ==
  ASSUME NEW o, NEW s, NEW limit \in Nat, Stands(o, s, limit)
  PROVE  s = <<>> <=> limit = 0
<1>1. PICK b : PartStack(key, flags, o, b, limit) /\ Labels(s, b)
  BY DEF Stands
<1>2. Len(b) \in Nat /\ (limit = 0 <=> Len(b) = 0)
  BY <1>1, StandsLength
<1>3. PICK S : s \in Seq(S)
  BY <1>1 DEF Labels
<1>4. Len(s) = Len(b)
  BY <1>1 DEF Labels
<1>5. s = <<>> <=> Len(s) = 0
  BY <1>3, EmptySeq, SMT
<1>6. QED
  BY <1>2, <1>4, <1>5

\* The limit behind an offset makes every subtree that update cuts off start,
\* counted from the offset too, at a multiple of its size.
LEMMA SubtreeFits ==
  ASSUME HasherTyped, LimitInv, chunk_state_len(chunk) \in Nat,
         NEW k, PowerOfTwo(k), chunk.counter % k = 0, k * ChunkLen <= rem
  PROVE  chunks_since \in Nat /\ chunks_since % k = 0
<1> DEFINE o == initial
           c == chunk.counter
           n == chunks_since
           len == chunk_state_len(chunk)
<1>1. /\ o \in Nat /\ c \in Nat /\ o <= c /\ rem \in Nat /\ len \in Nat /\ c % k = 0
      /\ n = c - o /\ ChunkLen \in Nat \ {0} /\ k \in Nat \ {0}
  BY HashTreeAssumption DEF HasherTyped, PowerOfTwo, chunks_since
<1>2. o % k = 0
  <2>1. CASE o = 0
    <3> HIDE DEF o
    <3>1. QED
      BY <1>1, <2>1, SMT
  <2>2. CASE o # 0
    <3> DEFINE T == trailing_power[o]
    <3>1. o \in Nat \ {0} /\ o > 0
      <4> HIDE DEF o
      <4>1. QED
        BY <1>1, <2>2, SMT
    <3>2. PowerOfTwo(T) /\ o % T = 0
      BY <3>1, TrailingPowerDivides
    <3>3. count + rem <= T * ChunkLen /\ count = n * ChunkLen + len
      BY <3>1 DEF LimitInv, count, chunks_since
    <3>4. T \in Nat
      BY <3>2 DEF PowerOfTwo
    <3> HIDE DEF T, n, len, c, o
    <3>5. k * ChunkLen <= T * ChunkLen
      <4>1. n * ChunkLen \in Nat
        BY <1>1, SMT
      <4> DEFINE x == n * ChunkLen
                 y == k * ChunkLen
                 z == T * ChunkLen
      <4>2. x \in Nat /\ y <= rem /\ count + rem <= z /\ count = x + len
        BY <3>3, <4>1
      <4>3. y \in Int /\ z \in Int
        BY <1>1, <3>4, SMT
      <4> HIDE DEF x, y, z
      <4>4. y <= z
        BY <1>1, <4>2, <4>3, SMT
      <4>5. QED
        BY <4>4 DEF y, z
    <3>6. k <= T
      BY <1>1, <3>4, <3>5, SMT
    <3>7. QED
      BY <1>1, <3>1, <3>2, <3>6, SmallerDivides
  <2>3. QED
    BY <2>1, <2>2
<1> HIDE DEF o, c, n
<1>3. (c - o) % k = 0
  BY <1>1, <1>2, DifferenceDivided
<1>4. n \in Nat
  BY <1>1, SMT
<1>5. QED
  BY <1>1, <1>3, <1>4 DEF n

\* A hasher just made.
LEMMA FreshHashing ==
  ASSUME NEW o \in Nat
  PROVE  /\ chunk_state_init(key, o, flags) = Holding(key, flags, o, 0)
         /\ HoldsInput(key, flags, chunk_state_init(key, o, flags))
         /\ chunk_state_init(key, o, flags).counter = o
         /\ chunk_state_len(chunk_state_init(key, o, flags)) = 0
<1> DEFINE ch == chunk_state_init(key, o, flags)
<1>1. ch = Holding(key, flags, o, 0)
  BY HoldingNothing
<1> HIDE DEF ch
<1>2. QED
  BY <1>1, HeldState DEF ch

\* The invariant of a hasher with neither input nor pending input.
LEMMA EmptyHashing ==
  ASSUME NEW o \in Nat, initial' = o, chunk' = chunk_state_init(key, o, flags), stack' = <<>>,
         rem' = 0, pc' = "idle"
  PROVE  HashingInv'
<1>1. /\ HoldsInput(key, flags, chunk') /\ chunk'.counter = o /\ chunk_state_len(chunk') = 0
  BY FreshHashing
<1>2. chunk_state_len(chunk)' = 0 /\ HoldsInput(key, flags, chunk)'
  BY <1>1 DEF chunk_state_len, HoldsInput
<1>3. o - o = 0 /\ o <= o /\ 0 * ChunkLen = 0 /\ ChunkLen \in Nat \ {0} /\ ~ (0 > 0)
  BY HashTreeAssumption, SMT
<1>4. chunks_since' = 0
  BY <1>1, <1>3 DEF chunks_since
<1>5. HasherTyped' /\ ChunkInv'
  BY <1>1, <1>2, <1>3, SMT DEF HasherTyped, ChunkInv
<1>6. StackInv'
  <2>1. Stands(o, <<>>, 0)
    BY NothingStands
  <2>2. Stands(initial, stack, chunks_since)'
    BY <1>4, <2>1 DEF Stands
  <2>3. QED
    BY <1>2, <1>3, <2>2 DEF StackInv
<1>7. LimitInv'
  <2> SUFFICES ASSUME o > 0
               PROVE  (count + rem)' <= trailing_power[o] * ChunkLen
    BY DEF LimitInv
  <2>1. count' = 0
    BY <1>1, <1>2, <1>3, SMT DEF count
  <2>2. o \in Nat \ {0}
    BY SMT
  <2>3. PowerOfTwo(trailing_power[o])
    BY <2>2, TrailingPowerDivides
  <2> DEFINE T == trailing_power[o]
  <2>4. T \in Nat
    BY <2>3 DEF PowerOfTwo
  <2> HIDE DEF T
  <2>5. 0 + 0 <= T * ChunkLen
    BY <1>3, <2>4, SMT
  <2>6. QED
    BY <2>1, <2>5 DEF T
<1>8. QED
  BY <1>5, <1>6, <1>7 DEF HashingInv

\* The end of a partial chunk keeps the invariant.
LEMMA UpdateCallInv ==
  ASSUME HashingInv, NEW n \in 1 .. MaxTotal, UpdateCall(n)
  PROVE  HashingInv'
<1> DEFINE len == chunk_state_len(chunk)
           c == chunk.counter
           take == IF len > 0 THEN AtMost(ChunkLen - len, n) ELSE 0
           full == chunk_state_update(chunk, at, take)
<1>0. HasherTyped /\ ChunkInv /\ StackInv /\ LimitInv
  BY DEF HashingInv
<1>1. /\ initial \in Nat /\ c \in Nat /\ initial <= c /\ len \in Nat /\ len <= ChunkLen
      /\ ChunkLen \in Nat \ {0} /\ n \in Nat \ {0} /\ chunk = Holding(key, flags, c, len)
      /\ at = c * ChunkLen + len /\ rem \in Nat
  BY <1>0, HeldBytes, HashTreeAssumption, HazmatAssumption, SMT DEF HasherTyped, ChunkInv
<1>2. /\ pc = "idle" /\ rem' = n - take /\ initial' = initial
      /\ IF len = 0 THEN pc' = "loop" /\ chunk' = chunk /\ stack' = stack
         ELSE IF n > take
         THEN /\ stack' = push_cv(stack, output_chaining_value(chunk_state_output(full)), c)
              /\ chunk' = chunk_state_init(key, c + 1, flags)
              /\ pc' = "loop"
         ELSE chunk' = full /\ stack' = stack /\ pc' = pc
  BY DEF UpdateCall
<1>3. rem = 0
  BY <1>0, <1>2 DEF ChunkInv
<1>4. initial > 0 => count + n <= trailing_power[initial] * ChunkLen
  <2> SUFFICES ASSUME initial > 0
               PROVE  count + n <= trailing_power[initial] * ChunkLen
    OBVIOUS
  <2>1. n <= trailing_power[initial] * ChunkLen - count
    BY DEF UpdateCall, within_max_subtree_len
  <2>2. count \in Int
    <3>1. count = (c - initial) * ChunkLen + len
      BY DEF count
    <3> HIDE DEF c, len
    <3>2. QED
      BY <1>1, <3>1, SMT
  <2>3. trailing_power[initial] * ChunkLen \in Int
    <3> DEFINE T == trailing_power[initial]
    <3>1. initial \in Nat \ {0}
      BY <1>1, SMT
    <3>2. T \in Nat
      BY <3>1, TrailingPowerDivides DEF PowerOfTwo
    <3> HIDE DEF T
    <3>3. T * ChunkLen \in Int
      BY <1>1, <3>2, SMT
    <3>4. QED
      BY <3>3 DEF T
  <2>4. QED
    BY <1>1, <2>1, <2>2, <2>3, SMT
<1>5. /\ take \in Nat /\ take <= n /\ len + take <= ChunkLen
      /\ len = 0 => take = 0
      /\ len > 0 => (n > take => len + take = ChunkLen)
  <2> HIDE DEF len, c
  <2>1. QED
    BY <1>1, SMT DEF AtMost
<1>6. len > 0 => full = Holding(key, flags, c, len + take)
  <2> SUFFICES ASSUME len > 0
               PROVE  full = Holding(key, flags, c, len + take)
    OBVIOUS
  <2> HIDE DEF len, c, take
  <2>1. c \in Nat /\ len \in Nat /\ take \in Nat /\ len + take > 0
    BY <1>1, <1>5, SMT
  <2>2. chunk_state_update(Holding(key, flags, c, len), c * ChunkLen + len, take)
          = Holding(key, flags, c, len + take)
    BY <2>1, UpdatedHolding
  <2>3. QED
    BY <1>1, <2>2
<1> HIDE DEF full
<1>7. CASE len = 0
  <2>1. rem' = n /\ chunk' = chunk /\ stack' = stack /\ pc' = "loop"
    <3> HIDE DEF take, len
    <3>1. rem' = n
      BY <1>1, <1>2, <1>5, <1>7, SMT
    <3>2. QED
      BY <1>2, <1>7, <3>1
  <2>2. HasherTyped' /\ ChunkInv'
    BY <1>0, <1>1, <1>2, <1>7, <2>1 DEF HasherTyped, ChunkInv, HoldsInput, chunk_state_len
  <2>3. StackInv'
    <3>1. Stands(initial, stack, chunks_since)'
      BY <1>0, <1>2, <2>1 DEF StackInv, Stands, chunks_since
    <3>2. rem' # 0
      BY <1>1, <2>1
    <3>3. QED
      BY <2>1, <3>1, <3>2 DEF StackInv
  <2>4. LimitInv'
    <3>1. count' = count
      BY <1>2, <2>1 DEF count, chunk_state_len
    <3>2. QED
      BY <1>2, <1>4, <2>1, <3>1 DEF LimitInv
  <2>5. QED
    BY <2>2, <2>3, <2>4 DEF HashingInv
<1>8. CASE len # 0 /\ n > take
  <2>0. len > 0 /\ len + take = ChunkLen
    <3> HIDE DEF len, take
    <3>1. len > 0
      BY <1>1, <1>8, SMT
    <3>2. QED
      BY <1>5, <1>8, <3>1
  <2>1. /\ rem' = n - take /\ chunk' = chunk_state_init(key, c + 1, flags) /\ pc' = "loop"
        /\ stack' = push_cv(stack, output_chaining_value(chunk_state_output(full)), c)
    BY <1>2, <1>8
  <2>2. output_chaining_value(chunk_state_output(full)) = SubtreeCV(key, flags, c, 1 * ChunkLen)
    BY <1>1, <1>6, <2>0, WholeChunk
  <2>3. /\ c + 1 \in Nat /\ initial <= c + 1 /\ rem' \in Nat /\ rem' # 0
        /\ c - initial \in Nat /\ (c + 1) - initial \in Nat
        /\ (c - initial) % 1 = 0
    <3> HIDE DEF c, len, take
    <3>1. QED
      BY <1>1, <1>5, <1>8, <2>1, SMT
  <2>4. /\ chunk'.counter = c + 1 /\ chunk_state_len(chunk)' = 0 /\ HoldsInput(key, flags, chunk)'
    <3>1. /\ chunk'.counter = c + 1 /\ chunk_state_len(chunk') = 0
          /\ HoldsInput(key, flags, chunk')
      BY <2>1, <2>3, FreshHashing
    <3>2. QED
      BY <3>1 DEF chunk_state_len, HoldsInput
  <2>5. HasherTyped' /\ ChunkInv'
    BY <1>1, <1>2, <2>1, <2>3, <2>4 DEF HasherTyped, ChunkInv
  <2>6. StackInv'
    <3>1. Stands(initial, stack, c - initial)
      BY <1>0 DEF StackInv, chunks_since
    <3>2. PowerOfTwo(1)
      BY DoubledPower
    <3>3. Stands(initial, stack', (c + 1) - initial)
      <4> HIDE DEF c
      <4>1. QED
        BY <1>1, <2>1, <2>2, <2>3, <3>1, <3>2, PushedStands
    <3>4. Stands(initial, stack, chunks_since)'
      BY <1>2, <2>4, <3>3 DEF Stands, chunks_since
    <3>5. QED
      BY <2>1, <2>3, <3>4 DEF StackInv
  <2>7. (count + rem)' = count + n
    <3>1. count' = ((c + 1) - initial) * ChunkLen + 0 /\ count = (c - initial) * ChunkLen + len
      BY <1>2, <2>4 DEF count
    <3> HIDE DEF c, len, take
    <3> DEFINE u == c - initial
    <3>2. u \in Nat /\ (c + 1) - initial = u + 1
      BY <1>1, SMT
    <3> HIDE DEF u
    <3>3. (u + 1) * ChunkLen = u * ChunkLen + ChunkLen /\ u * ChunkLen \in Nat
      BY <1>1, <3>2, SMT
    <3> DEFINE x == u * ChunkLen
    <3>4. count' = x + ChunkLen /\ count = x + len /\ x \in Nat
      BY <1>1, <3>1, <3>2, <3>3, SMT DEF u
    <3> HIDE DEF x
    <3>5. QED
      BY <1>1, <1>5, <2>0, <2>1, <3>4, SMT
  <2>8. LimitInv'
    BY <1>2, <1>4, <2>7 DEF LimitInv
  <2>9. QED
    BY <2>5, <2>6, <2>8 DEF HashingInv
<1>9. CASE len # 0 /\ ~ (n > take)
  <2>0. len > 0 /\ take = n
    <3> HIDE DEF len, take
    <3>1. QED
      BY <1>1, <1>5, <1>9, SMT
  <2>1. rem' = 0 /\ chunk' = full /\ stack' = stack /\ pc' = "idle"
    <3> HIDE DEF take
    <3>1. rem' = 0
      BY <1>1, <1>2, <2>0, SMT
    <3>2. QED
      BY <1>2, <1>9, <3>1
  <2>2. len + n \in Nat /\ len + n > 0 /\ len + n <= ChunkLen /\ len + n # 0
    <3> HIDE DEF len, take
    <3>1. QED
      BY <1>1, <1>5, <2>0, SMT
  <2>3. /\ HoldsInput(key, flags, chunk)' /\ chunk'.counter = c
        /\ chunk_state_len(chunk)' = len + n
    <3>1. full = Holding(key, flags, c, len + n)
      BY <1>6, <2>0
    <3> HIDE DEF c, len
    <3>2. HoldsInput(key, flags, full) /\ full.counter = c /\ chunk_state_len(full) = len + n
      BY <1>1, <2>2, <3>1, HeldState
    <3>3. QED
      BY <2>1, <3>2 DEF chunk_state_len, HoldsInput
  <2>4. HasherTyped' /\ ChunkInv'
    BY <1>1, <1>2, <2>1, <2>2, <2>3 DEF HasherTyped, ChunkInv
  <2>5. StackInv'
    <3>1. Stands(initial, stack, chunks_since)'
      BY <1>0, <1>2, <2>1, <2>3 DEF StackInv, Stands, chunks_since
    <3>2. OneEach(initial, stack, chunks_since)
      BY <1>0, <1>2, <2>0 DEF StackInv
    <3>3. OneEach(initial, stack, chunks_since)'
      BY <1>2, <2>1, <2>3, <3>2 DEF OneEach, chunks_since
    <3>4. QED
      BY <2>2, <2>3, <3>1, <3>3 DEF StackInv
  <2>6. (count + rem)' = count + n
    <3>1. count' = (c - initial) * ChunkLen + (len + n) /\ count = (c - initial) * ChunkLen + len
      BY <1>2, <2>3 DEF count
    <3> HIDE DEF c, len
    <3> DEFINE x == (c - initial) * ChunkLen
    <3>2. x \in Int
      BY <1>1, SMT
    <3> HIDE DEF x
    <3>3. QED
      BY <1>1, <2>1, <3>1, <3>2, SMT DEF x
  <2>7. LimitInv'
    BY <1>2, <1>4, <2>6 DEF LimitInv
  <2>8. QED
    BY <2>4, <2>5, <2>7 DEF HashingInv
<1>10. QED
  BY <1>7, <1>8, <1>9

\* One iteration of the loop over subtrees keeps the invariant.
LEMMA UpdateSubtreeInv ==
  ASSUME HashingInv, UpdateSubtree
  PROVE  HashingInv'
<1> DEFINE c == chunk.counter
           n == chunks_since
           one(l) == chunk_state_update(chunk_state_init(key, c, flags), at, l)
<1>0. HasherTyped /\ ChunkInv /\ StackInv /\ LimitInv
  BY DEF HashingInv
<1>1. /\ pc = "loop" /\ rem > ChunkLen /\ rem \in Nat /\ initial' = initial /\ pc' = pc
      /\ initial \in Nat /\ c \in Nat /\ initial <= c /\ ChunkLen \in Nat \ {0}
      /\ n = c - initial
  BY <1>0, HashTreeAssumption DEF UpdateSubtree, HasherTyped, chunks_since
<1>2. /\ chunk_state_len(chunk) = 0 /\ chunk = Holding(key, flags, c, 0) /\ at = c * ChunkLen + 0
      /\ 0 \in Nat
  BY <1>0, <1>1, HeldBytes DEF ChunkInv
<1>3. subtree_len(rem) = aligned_len(c, rem)
  BY DEF subtree_len, aligned_len
<1>4. PICK k \in Nat \ {0} :
           /\ aligned_len(c, rem) = ChunkLen * k
           /\ aligned_len(c, rem) \div ChunkLen = k
           /\ ChunkLen * k <= rem
           /\ k # 1 => k \div 2 \in Nat \ {0} /\ k = 2 * (k \div 2)
           /\ PowerOfTwo(k) /\ c % k = 0
  BY <1>1, WholeSubtree
<1> DEFINE half(i) == SubtreeCV(key, flags, c + i * (k \div 2), (k \div 2) * ChunkLen)
<1>5. /\ stack' = IF subtree_len(rem) <= ChunkLen
                  THEN push_cv(stack, output_chaining_value(chunk_state_output(one(subtree_len(rem)))), c)
                  ELSE push_cv(push_cv(stack, half(0), c), half(1), c + k \div 2)
      /\ chunk' = [chunk EXCEPT !.counter = c + k]
      /\ rem' = rem - subtree_len(rem)
  BY <1>3, <1>4 DEF UpdateSubtree
<1>6. n \in Nat /\ n % k = 0
  <2>1. k * ChunkLen <= rem
    <3> HIDE DEF c
    <3>1. QED
      BY <1>1, <1>4, MultipleDivided
  <2>2. QED
    BY <1>0, <1>2, <1>4, <2>1, SubtreeFits
<1>7. Stands(initial, stack, n)
  BY <1>0 DEF StackInv
<1> HIDE DEF one, half
<1>8. /\ Stands(initial, stack', (c + k) - initial)
      /\ rem' = 0 => Len(stack') >= 2
  <2>1. CASE k = 1
    <3>1. subtree_len(rem) = ChunkLen
      <4> HIDE DEF c
      <4>1. QED
        BY <1>1, <1>3, <1>4, <2>1, SMT
    <3>2. stack' = push_cv(stack, output_chaining_value(chunk_state_output(one(ChunkLen))), c)
      <4>1. ChunkLen <= ChunkLen
        BY <1>1
      <4>2. QED
        BY <1>5, <3>1, <4>1
    <3>3. one(ChunkLen) = Holding(key, flags, c, ChunkLen)
      <4>1. chunk_state_init(key, c, flags) = Holding(key, flags, c, 0)
        BY <1>1, HoldingNothing
      <4> HIDE DEF c
      <4>2. /\ ChunkLen \in Nat /\ 0 \in Nat /\ c \in Nat
            /\ 0 + ChunkLen > 0 /\ 0 + ChunkLen = ChunkLen
        BY <1>1, SMT
      <4>3. chunk_state_update(chunk_state_init(key, c, flags), at, ChunkLen)
              = Holding(key, flags, c, 0 + ChunkLen)
        BY <1>2, <4>1, <4>2, MoreInput
      <4>4. QED
        BY <4>2, <4>3 DEF one
    <3>4. output_chaining_value(chunk_state_output(one(ChunkLen)))
            = SubtreeCV(key, flags, c, k * ChunkLen)
      BY <1>1, <2>1, <3>3, WholeChunk
    <3>5. Stands(initial, stack', (c + k) - initial)
      <4> DEFINE cv == output_chaining_value(chunk_state_output(one(ChunkLen)))
      <4>1. cv = SubtreeCV(key, flags, c, k * ChunkLen) /\ stack' = push_cv(stack, cv, c)
        BY <3>2, <3>4
      <4>2. Stands(initial, stack, c - initial) /\ (c - initial) % k = 0
        BY <1>1, <1>6, <1>7
      <4> HIDE DEF cv, c
      <4>3. QED
        BY <1>1, <1>4, <4>1, <4>2, PushedStands
    <3>6. rem' # 0
      <4>1. rem' = rem - ChunkLen
        BY <1>5, <3>1
      <4>2. QED
        BY <1>1, <4>1, SMT
    <3>7. QED
      BY <3>5, <3>6
  <2>2. CASE k # 1
    <3> DEFINE h == k \div 2
    <3>1. PowerOfTwo(h) /\ k = 2 * h /\ h < k
      BY <1>4, <2>2, HalvedPower
    <3>2. half(0) = SubtreeCV(key, flags, c, h * ChunkLen)
          /\ half(1) = SubtreeCV(key, flags, c + h, h * ChunkLen)
      <4>1. h \in Nat
        BY <3>1 DEF PowerOfTwo
      <4>2. c + 0 * h = c /\ c + 1 * h = c + h
        <5> HIDE DEF c, h
        <5>1. QED
          BY <1>1, <4>1, SMT
      <4>3. QED
        BY <4>2 DEF half
    <3>3. ~ (subtree_len(rem) <= ChunkLen)
      <4> HIDE DEF c, h
      <4>1. ChunkLen * k > ChunkLen
        BY <1>1, <2>2, <1>4, SMT
      <4>2. ChunkLen * k \in Nat
        BY <1>1, MultipleDivided
      <4>3. QED
        BY <1>1, <1>3, <1>4, <4>1, <4>2, SMT
    <3> DEFINE s == push_cv(stack, half(0), c)
               t == push_cv(s, half(1), c + h)
    <3>4. stack' = t
      BY <1>5, <3>3
    <3>5. /\ h \in Nat \ {0} /\ n % h = 0 /\ (c + h) - initial = n + h /\ n + h \in Nat
          /\ c + h \in Nat /\ initial <= c + h /\ (c + h) + h = c + k
      <4>1. h \in Nat \ {0} /\ h <= k
        BY <1>4, <3>1, SMT DEF PowerOfTwo
      <4>2. n % h = 0
        BY <1>4, <1>6, <3>1, <4>1, SmallerDivides
      <4> HIDE DEF c, h, n
      <4>3. QED
        BY <1>1, <1>6, <3>1, <4>1, <4>2, SMT
    <3>6. ((c + h) - initial) % h = 0
      <4> DEFINE z == n \div h
      <4> HIDE DEF h, n, c
      <4>1. z \in Nat /\ n = h * z
        BY <1>6, <3>5, SMT
      <4> HIDE DEF z
      <4>2. n + h = h * (z + 1) /\ z + 1 \in Nat
        BY <3>5, <4>1, SMT
      <4>3. QED
        BY <3>5, <4>2, MultipleDivided
    <3>7. Stands(initial, s, (c + h) - initial)
      <4>1. Stands(initial, stack, c - initial) /\ (c - initial) % h = 0
        BY <1>1, <1>7, <3>5
      <4> HIDE DEF c, h
      <4>2. QED
        BY <1>1, <3>1, <3>2, <4>1, PushedStands
    <3> HIDE DEF s
    <3>8. /\ Stands(initial, t, ((c + h) + h) - initial)
          /\ Len(t) = popcnt[(c + h) - initial] + 1
      <4> HIDE DEF h
      <4> DEFINE d == c + h
      <4>1. d \in Nat /\ initial <= d /\ Stands(initial, s, d - initial) /\ (d - initial) % h = 0
            /\ half(1) = SubtreeCV(key, flags, d, h * ChunkLen)
        BY <3>2, <3>5, <3>6, <3>7
      <4> HIDE DEF d
      <4>2. Stands(initial, push_cv(s, half(1), d), (d + h) - initial)
            /\ Len(push_cv(s, half(1), d)) = popcnt[d - initial] + 1
        BY <1>1, <3>1, <4>1, PushedStands
      <4>3. QED
        BY <4>2 DEF d
    <3> HIDE DEF t
    <3>9. Len(t) >= 2
      <4>1. n + h \in Nat \ {0}
        <5> HIDE DEF h, n
        <5>1. QED
          BY <1>6, <3>5, SMT
      <4>2. popcnt[n + h] \in Nat \ {0}
        BY <4>1, PopcntPositive
      <4>3. Len(t) = popcnt[n + h] + 1
        BY <3>5, <3>8
      <4>4. QED
        BY <4>2, <4>3, SMT
    <3>10. QED
      BY <3>4, <3>5, <3>8, <3>9
  <2>3. QED
    BY <2>1, <2>2
<1>9. /\ c + k \in Nat /\ initial <= c + k /\ rem' \in Nat /\ rem' = rem - ChunkLen * k
      /\ ChunkLen * k \in Nat
  <2>1. rem' = rem - ChunkLen * k
    BY <1>3, <1>4, <1>5
  <2>2. ChunkLen * k \in Nat
    BY <1>1, <1>4, MultipleDivided
  <2> DEFINE y == ChunkLen * k
  <2>3. y \in Nat /\ y <= rem /\ rem' = rem - y
    BY <1>4, <2>1, <2>2
  <2> HIDE DEF y, c
  <2>4. rem' \in Nat /\ c + k \in Nat /\ initial <= c + k
    BY <1>1, <2>3, SMT
  <2>5. QED
    BY <2>1, <2>2, <2>4
<1>10. chunk' = Holding(key, flags, c + k, 0)
  <2> DEFINE d == c + k
  <2>1. d \in Nat /\ chunk' = [Holding(key, flags, c, 0) EXCEPT !.counter = d]
    BY <1>2, <1>5, <1>9
  <2> HIDE DEF d, c
  <2>2. chunk' = Holding(key, flags, d, 0)
    BY <1>1, <2>1, EmptyMoved
  <2>3. QED
    BY <2>2 DEF d
<1>11. /\ HoldsInput(key, flags, chunk)' /\ chunk'.counter = c + k /\ chunk_state_len(chunk)' = 0
  <2> DEFINE d == c + k
  <2>1. d \in Nat /\ chunk' = Holding(key, flags, d, 0)
    BY <1>9, <1>10
  <2> HIDE DEF d
  <2>2. HoldsInput(key, flags, chunk') /\ chunk'.counter = d /\ chunk_state_len(chunk') = 0
    BY <1>2, <2>1, HeldState
  <2>3. QED
    BY <2>2 DEF d, HoldsInput, chunk_state_len
<1>12. HasherTyped' /\ ChunkInv'
  BY <1>1, <1>2, <1>9, <1>11, SMT DEF HasherTyped, ChunkInv
<1>13. StackInv'
  <2>1. Stands(initial, stack, chunks_since)'
    BY <1>1, <1>8, <1>11 DEF Stands, chunks_since
  <2>2. QED
    BY <1>1, <1>8, <2>1 DEF StackInv
<1>14. LimitInv'
  <2>1. count' = ((c + k) - initial) * ChunkLen + 0 /\ count = (c - initial) * ChunkLen + 0
    BY <1>1, <1>2, <1>11 DEF count
  <2>2. (count + rem)' = count + rem
    <3> DEFINE u == c - initial
    <3> HIDE DEF c
    <3>1. u \in Nat /\ (c + k) - initial = u + k
      BY <1>1, <1>4, SMT
    <3> HIDE DEF u
    <3>2. (u + k) * ChunkLen = u * ChunkLen + ChunkLen * k /\ u * ChunkLen \in Nat
      BY <1>1, <1>4, <3>1, SMT
    <3> DEFINE x == u * ChunkLen
               y == ChunkLen * k
    <3>3. count' = x + y /\ count = x /\ x \in Nat /\ y \in Nat /\ rem' = rem - y
      <4>1. count' = (u + k) * ChunkLen + 0 /\ count = u * ChunkLen + 0
        BY <2>1, <3>1 DEF u
      <4>2. x \in Nat /\ y \in Nat /\ (u + k) * ChunkLen = x + y /\ rem' = rem - y
        BY <1>9, <3>2
      <4> HIDE DEF x, y
      <4>3. (u + k) * ChunkLen + 0 = x + y
        BY <4>2, SMT
      <4>4. u * ChunkLen + 0 = x
        BY <4>2, SMT DEF x
      <4>5. QED
        BY <4>1, <4>2, <4>3, <4>4
    <3> HIDE DEF x, y
    <3>4. QED
      BY <1>1, <3>3, SMT
  <2>3. QED
    BY <1>0, <1>1, <2>2 DEF LimitInv
<1>15. QED
  BY <1>12, <1>13, <1>14 DEF HashingInv

\* The end of update keeps the invariant: the tail is absorbed and the stack
\* merged.
LEMMA UpdateTailInv ==
  ASSUME HashingInv, UpdateTail
  PROVE  HashingInv'
<1> DEFINE c == chunk.counter
           n == chunks_since
<1>0. HasherTyped /\ ChunkInv /\ StackInv /\ LimitInv
  BY DEF HashingInv
<1>1. /\ pc = "loop" /\ rem <= ChunkLen /\ rem \in Nat /\ initial' = initial
      /\ rem' = 0 /\ pc' = "idle"
      /\ initial \in Nat /\ c \in Nat /\ initial <= c /\ ChunkLen \in Nat \ {0}
      /\ n = c - initial
  BY <1>0, HashTreeAssumption DEF UpdateTail, HasherTyped, chunks_since
<1>2. /\ chunk_state_len(chunk) = 0 /\ chunk = Holding(key, flags, c, 0) /\ at = c * ChunkLen + 0
      /\ 0 \in Nat
  BY <1>0, <1>1, HeldBytes DEF ChunkInv
<1>3. Stands(initial, stack, n)
  BY <1>0 DEF StackInv
<1>4. CASE rem > 0
  <2>1. chunk' = chunk_state_update(chunk, at, rem) /\ stack' = merge_cv_stack(stack, c)
    BY <1>4 DEF UpdateTail
  <2>2. chunk' = Holding(key, flags, c, rem)
    <3> HIDE DEF c
    <3>1. 0 + rem > 0 /\ 0 + rem = rem
      BY <1>1, <1>4, SMT
    <3>2. chunk_state_update(chunk, at, rem) = Holding(key, flags, c, 0 + rem)
      BY <1>1, <1>2, <3>1, MoreInput
    <3>3. QED
      BY <2>1, <3>1, <3>2
  <2>3. /\ HoldsInput(key, flags, chunk)' /\ chunk'.counter = c /\ chunk_state_len(chunk)' = rem
    <3>1. c \in Nat
      BY <1>1
    <3> HIDE DEF c
    <3>2. HoldsInput(key, flags, chunk') /\ chunk'.counter = c /\ chunk_state_len(chunk') = rem
      BY <1>1, <2>2, <3>1, HeldState
    <3>3. QED
      BY <3>2 DEF HoldsInput, chunk_state_len
  <2>4. OneEach(initial, stack', n)
    <3>1. Stands(initial, stack, c - initial)
      BY <1>1, <1>3
    <3> HIDE DEF c, n
    <3>2. OneEach(initial, merge_cv_stack(stack, c), c - initial)
      BY <1>1, <3>1, MergedCounts
    <3>3. QED
      BY <1>1, <2>1, <3>2
  <2>5. HasherTyped' /\ ChunkInv'
    BY <1>1, <1>2, <2>3 DEF HasherTyped, ChunkInv
  <2>6. StackInv'
    <3>1. n \in Nat
      <4> HIDE DEF c, n
      <4>1. QED
        BY <1>1, SMT
    <3>2. Stands(initial, stack', n)
      BY <2>4, <3>1, OneEachStands
    <3>3. chunks_since' = n
      BY <1>1, <2>3 DEF chunks_since
    <3>4. Stands(initial, stack, chunks_since)' /\ OneEach(initial, stack, chunks_since)'
      BY <1>1, <2>4, <3>2, <3>3 DEF Stands, OneEach
    <3>5. rem # 0
      BY <1>4
    <3>6. QED
      BY <2>3, <3>4, <3>5 DEF StackInv
  <2>7. (count + rem)' = count + rem
    <3>1. count' = (c - initial) * ChunkLen + rem /\ count = (c - initial) * ChunkLen + 0
      BY <1>1, <1>2, <2>3 DEF count
    <3> HIDE DEF c
    <3> DEFINE x == (c - initial) * ChunkLen
    <3>2. x \in Int
      BY <1>1, SMT
    <3> HIDE DEF x
    <3>3. QED
      BY <1>1, <3>1, <3>2, SMT DEF x
  <2>8. LimitInv'
    BY <1>0, <1>1, <2>7 DEF LimitInv
  <2>9. QED
    BY <2>5, <2>6, <2>8 DEF HashingInv
<1>5. CASE ~ (rem > 0)
  <2>1. rem = 0 /\ chunk' = chunk /\ stack' = stack
    <3>1. rem = 0
      BY <1>1, <1>5, SMT
    <3>2. QED
      BY <1>5, <3>1 DEF UpdateTail
  <2>2. HasherTyped' /\ ChunkInv'
    BY <1>0, <1>1, <1>2, <2>1 DEF HasherTyped, ChunkInv, HoldsInput, chunk_state_len
  <2>3. StackInv'
    <3>1. Stands(initial, stack, chunks_since)'
      BY <1>0, <1>1, <2>1 DEF StackInv, Stands, chunks_since
    <3>2. ~ (0 > 0)
      BY SMT
    <3>3. QED
      BY <1>0, <1>1, <1>2, <2>1, <3>1, <3>2 DEF StackInv, chunk_state_len
  <2>4. LimitInv'
    <3>1. count' = count
      BY <1>1, <2>1 DEF count, chunk_state_len
    <3>2. QED
      BY <1>0, <1>1, <2>1, <3>1 DEF LimitInv
  <2>5. QED
    BY <2>2, <2>3, <2>4 DEF HashingInv
<1>6. QED
  BY <1>4, <1>5

\* set_input_offset, on a hasher that was given nothing.
LEMMA SetInputOffsetInv ==
  ASSUME HashingInv, NEW d \in Nat, SetInputOffset(d)
  PROVE  HashingInv'
<1> DEFINE c == chunk.counter
           len == chunk_state_len(chunk)
<1>0. HasherTyped /\ ChunkInv /\ StackInv /\ LimitInv
  BY DEF HashingInv
<1>1. /\ pc = "idle" /\ count = 0 /\ initial' = d /\ stack' = stack /\ rem' = rem /\ pc' = pc
      /\ chunk' = [chunk EXCEPT !.counter = d]
  BY DEF SetInputOffset
<1>2. /\ initial \in Nat /\ c \in Nat /\ initial <= c /\ ChunkLen \in Nat \ {0} /\ len \in Nat
      /\ chunk = Holding(key, flags, c, len) /\ rem = 0 /\ chunks_since = c - initial
  BY <1>0, <1>1, HeldBytes, HashTreeAssumption DEF HasherTyped, ChunkInv, chunks_since
<1>3. len = 0 /\ c = initial
  <2>1. (c - initial) * ChunkLen + len = 0
    BY <1>1 DEF count
  <2> HIDE DEF c, len
  <2>2. QED
    BY <1>2, <2>1, SMT
<1>4. stack = <<>>
  <2>1. c - initial = 0
    BY <1>2, <1>3, SMT
  <2>2. Stands(initial, stack, 0) /\ 0 \in Nat
    BY <1>0, <1>2, <2>1 DEF StackInv
  <2>3. QED
    BY <2>2, StandsForNothing
<1>5. chunk' = chunk_state_init(key, d, flags)
  <2>1. chunk' = [Holding(key, flags, c, 0) EXCEPT !.counter = d] /\ c \in Nat
    BY <1>1, <1>2, <1>3
  <2> HIDE DEF c, len
  <2>2. QED
    BY <2>1, EmptyMoved, FreshHashing
<1>6. QED
  BY <1>1, <1>2, <1>4, <1>5, EmptyHashing

\* reset, on a hasher without an offset.
LEMMA ResetInv ==
  ASSUME ReuseOffsetHashers = FALSE, HashingInv, Reset
  PROVE  HashingInv'
<1>1. /\ pc = "idle" /\ initial = 0 /\ chunk' = chunk_state_init(key, 0, chunk.flags)
      /\ stack' = <<>> /\ initial' = initial /\ rem' = rem /\ pc' = pc
  BY DEF Reset
<1>2. rem = 0 /\ chunk.flags = flags
  BY <1>1, HeldBytes DEF HashingInv, ChunkInv, HasherTyped
<1>3. initial' = 0 /\ 0 \in Nat
  BY <1>1
<1>4. QED
  BY <1>1, <1>2, <1>3, EmptyHashing

\* A step that changes what the caller holds alone.
LEMMA HashingKept ==
  ASSUME HashingInv, UNCHANGED <<initial, chunk, stack, rem, pc>>
  PROVE  HashingInv'
<1>1. chunk_state_len(chunk)' = chunk_state_len(chunk) /\ chunks_since' = chunks_since
      /\ count' = count
  BY DEF chunk_state_len, chunks_since, count
<1>2. HasherTyped' /\ ChunkInv'
  BY <1>1 DEF HashingInv, HasherTyped, ChunkInv, HoldsInput
<1>3. StackInv'
  BY <1>1 DEF HashingInv, StackInv, Stands, OneEach
<1>4. LimitInv'
  BY <1>1 DEF HashingInv, LimitInv
<1>5. QED
  BY <1>2, <1>3, <1>4 DEF HashingInv

\* Every step keeps the invariant, if callers do not reset a hasher that has
\* an offset.
LEMMA HashingStep ==
  ASSUME ReuseOffsetHashers = FALSE, HashingInv, [Next]_vars
  PROVE  HashingInv'
<1>1. ASSUME NEW n \in 1 .. MaxTotal, UpdateCall(n)
      PROVE  HashingInv'
  BY <1>1, UpdateCallInv
<1>2. CASE UpdateSubtree
  BY <1>2, UpdateSubtreeInv
<1>3. CASE UpdateTail
  BY <1>3, UpdateTailInv
<1>4. ASSUME NEW d \in 0 .. (MaxTotal \div ChunkLen), SetInputOffset(d)
      PROVE  HashingInv'
  <2>1. d \in Nat
    BY SMT
  <2>2. QED
    BY <1>4, <2>1, SetInputOffsetInv
<1>5. CASE Reset
  BY <1>5, ResetInv
<1>6. CASE NewHasher
  <2>1. /\ pc = "idle" /\ initial' = 0 /\ chunk' = chunk_state_init(key, 0, flags)
        /\ stack' = <<>> /\ rem' = rem /\ pc' = pc
    BY <1>6 DEF NewHasher, new
  <2>2. rem = 0 /\ 0 \in Nat
    BY <2>1 DEF HashingInv, ChunkInv
  <2>3. QED
    BY <2>1, <2>2, EmptyHashing
<1>7. CASE KeepSubtree
  BY <1>7, HashingKept DEF KeepSubtree
<1>8. CASE MergeSubtree
  BY <1>8, HashingKept DEF MergeSubtree
<1>9. CASE MergeRoot
  BY <1>9, HashingKept DEF MergeRoot
<1>10. CASE UNCHANGED vars
  BY <1>10, HashingKept DEF vars
<1>11. QED
  BY <1>1, <1>2, <1>3, <1>4, <1>5, <1>6, <1>7, <1>8, <1>9, <1>10 DEF Next

\* The debug_asserts follow.
LEMMA AssertsFollow == HashingInv => DebugAssertsHold
<1> SUFFICES ASSUME HashingInv
             PROVE  DebugAssertsHold
  OBVIOUS
<1> DEFINE n == chunks_since
           len == chunk_state_len(chunk)
<1>1. /\ initial \in Nat /\ chunk.counter \in Nat /\ initial <= chunk.counter /\ len \in Nat
      /\ n = chunk.counter - initial /\ Stands(initial, stack, n)
      /\ pc = "idle" => rem = 0
      /\ pc = "loop" => len = 0
  BY DEF HashingInv, HasherTyped, ChunkInv, StackInv, chunks_since
<1> HIDE DEF n, len
<1>2. n \in Nat
  BY <1>1, SMT
<1> DEFINE Whole == pc = "loop" /\ rem > ChunkLen => subtree_len(rem) >= ChunkLen
<1>6. Whole
  <2> SUFFICES ASSUME rem > ChunkLen
               PROVE  subtree_len(rem) >= ChunkLen
    OBVIOUS
  <2>1. rem \in Nat
    BY DEF HashingInv, HasherTyped
  <2>2. PICK k \in Nat \ {0} : aligned_len(chunk.counter, rem) = ChunkLen * k
    BY <1>1, <2>1, WholeSubtree
  <2>3. ChunkLen * k >= ChunkLen
    BY HashTreeAssumption, SMT
  <2>4. QED
    BY <2>2, <2>3 DEF subtree_len, aligned_len
<1> HIDE DEF Whole
<1>3. CASE stack = <<>>
  <2>1. n = 0
    BY <1>1, <1>2, <1>3, StandsForNothing
  <2>2. chunk.counter = initial
    BY <1>1, <2>1, SMT
  <2>3. QED
    BY <1>1, <1>3, <1>6, <2>2 DEF DebugAssertsHold, len, Whole
<1>4. CASE stack # <<>> /\ len > 0
  <2> SUFFICES ASSUME pc = "idle"
               PROVE  Len(stack) = popcnt[chunk.counter - initial]
    BY <1>1, <1>4, <1>6 DEF DebugAssertsHold, len, Whole
  <2>1. OneEach(initial, stack, n)
    BY <1>4 DEF HashingInv, StackInv, n, len
  <2>2. Len(stack) = popcnt[n]
    BY <1>2, <2>1, OneEachStands
  <2>3. QED
    BY <1>1, <2>2
<1>5. CASE stack # <<>> /\ ~ (len > 0)
  <2>1. len = 0
    BY <1>1, <1>5, SMT
  <2>2. pc = "idle" => Len(stack) >= 2
    BY <1>1, <1>5, <2>1 DEF HashingInv, StackInv, len
  <2>3. QED
    BY <1>1, <1>5, <1>6, <2>2 DEF DebugAssertsHold, len, Whole
<1>7. QED
  BY <1>3, <1>4, <1>5

\* A fresh hasher.
LEMMA HashingInit == Init => HashingInv
<1> SUFFICES ASSUME Init
             PROVE  HashingInv
  OBVIOUS
<1>1. /\ initial = 0 /\ chunk = chunk_state_init(key, 0, flags) /\ stack = <<>> /\ rem = 0
      /\ pc = "idle" /\ 0 \in Nat
  BY DEF Init, new
<1>2. HoldsInput(key, flags, chunk) /\ chunk.counter = 0 /\ chunk_state_len(chunk) = 0
  BY <1>1, FreshHashing
<1>3. 0 - 0 = 0 /\ 0 <= 0 /\ ChunkLen \in Nat \ {0} /\ ~ (0 > 0)
  BY HashTreeAssumption, SMT
<1>4. chunks_since = 0
  BY <1>1, <1>2, <1>3 DEF chunks_since
<1>5. HasherTyped /\ ChunkInv
  BY <1>1, <1>2, <1>3, SMT DEF HasherTyped, ChunkInv
<1>6. StackInv
  BY <1>1, <1>2, <1>3, <1>4, NothingStands DEF StackInv
<1>7. LimitInv
  BY <1>1, <1>3 DEF LimitInv
<1>8. QED
  BY <1>5, <1>6, <1>7 DEF HashingInv

\* In a debug build no debug_assert of update_with_join or final_output fails,
\* whatever a caller that does not reset a hasher with an offset does.
THEOREM AssertsHold ==
  ASSUME ReuseOffsetHashers = FALSE
  PROVE  Spec => []DebugAssertsHold
<1>1. HashingInv /\ [Next]_vars => HashingInv'
  BY HashingStep
<1>2. QED
  BY <1>1, HashingInit, AssertsFollow, PTL DEF Spec

-----------------------------------------------------------------------------
(* What a caller holds.                                                     *)

\* left_subtree_len of hazmat.rs: the largest power of two below the length.
THEOREM LeftIsPower ==
  ASSUME NEW n \in Nat, n >= 2
  PROVE  LET p == hazmat_left_subtree_len(n)
         IN  PowerOfTwo(p) /\ p < n /\ n <= 2 * p
<1> DEFINE half == (n + 1) \div 2
           r == round_down_to_power_of_2[half]
           p == hazmat_left_subtree_len(n)
<1>1. half \in Nat \ {0} /\ half < n /\ n <= 2 * half /\ 2 * half <= n + 1
  BY SMT
<1>2. p = IF r = half THEN half ELSE 2 * r
  BY DEF hazmat_left_subtree_len
<1> HIDE DEF half, p
<1>3. PowerOfTwo(r) /\ r <= half /\ half < 2 * r
  BY <1>1, RoundDownIsPower
<1>4. r \in Nat
  BY <1>3 DEF PowerOfTwo
<1>5. PowerOfTwo(p)
  BY <1>2, <1>3, DoubledPower
<1> HIDE DEF r
<1>6. p < n /\ n <= 2 * p
  <2>1. CASE r = half
    BY <1>1, <1>2, <2>1, SMT
  <2>2. CASE r # half
    BY <1>1, <1>2, <1>3, <1>4, <2>2, SMT
  <2>3. QED
    BY <2>1, <2>2
<1>7. QED
  BY <1>5, <1>6 DEF p

\* What is held has the value of the node over its bytes, or is the hash of
\* the whole message.
HeldInv ==
  /\ \E c, l \in Nat : \E v, root : held = [chunk |-> c, len |-> l, value |-> v, root |-> root]
  /\ MergedIsWholeTree

\* The fields of what is held, typed.
LEMMA HeldFields ==
  ASSUME HeldInv
  PROVE  /\ held.chunk \in Nat /\ held.len \in Nat
         /\ held = [chunk |-> held.chunk, len |-> held.len, value |-> held.value,
                    root |-> held.root]
BY DEF HeldInv

\* The part held and the part just hashed are the sides of the node over both.
LEMMA MergedNode ==
  ASSUME HashingInv, HeldInv, pc = "idle", sides_of_a_node
  PROVE  /\ merge_subtrees_inner = TreeOutput(key, flags, held.chunk, held.len + count)
         /\ held.len + count \in Nat
<1> DEFINE c == held.chunk
           l == held.len
           o == initial
           n == l + count
           a == o - c
<1>1. Resting
  BY DEF Resting, sides_of_a_node
<1>2. /\ o \in Nat /\ count \in Nat \ {0} /\ ChunkLen \in Nat \ {0}
      /\ final_output = TreeOutput(key, flags, o, count)
  BY <1>1, RestingState, FinalOutput DEF Resting
<1>3. /\ c \in Nat /\ l \in Nat \ {0} /\ held.value = SubtreeCV(key, flags, c, l)
      /\ c * ChunkLen + l = o * ChunkLen /\ l = hazmat_left_subtree_len(n)
  BY HeldFields, SMT DEF sides_of_a_node, HeldInv, MergedIsWholeTree
<1> HIDE DEF c, l, o
<1>4. n \in Nat /\ n >= 2 /\ n - l = count
  BY <1>2, <1>3, SMT
<1>5. PowerOfTwo(l) /\ l < n /\ n <= 2 * l
  BY <1>3, <1>4, LeftIsPower
<1>6. a \in Nat \ {0} /\ l = a * ChunkLen /\ l = ChunkLen * a /\ c + a = o /\ ChunkLen <= l
  <2>1. o > c
    BY <1>2, <1>3, SMT
  <2>2. a \in Nat \ {0} /\ c + a = o
    BY <1>2, <1>3, <2>1, SMT
  <2> HIDE DEF a
  <2>3. (c + a) * ChunkLen = c * ChunkLen + a * ChunkLen
    BY <1>2, <1>3, <2>2, SMT
  <2> DEFINE x == c * ChunkLen
             y == a * ChunkLen
  <2>4. x \in Nat /\ y \in Nat /\ ChunkLen <= y /\ y = ChunkLen * a
    BY <1>2, <1>3, <2>2, SMT
  <2>5. x + l = x + y
    BY <1>3, <2>2, <2>3
  <2> HIDE DEF x, y
  <2>6. l = y
    BY <1>3, <2>4, <2>5, SMT
  <2>7. QED
    BY <2>2, <2>4, <2>6 DEF y
<1> HIDE DEF a
<1>7. PowerOfTwo(a)
  <2>1. PowerOfTwo(ChunkLen)
    BY HashTreeAssumption DEF PowerOfTwo
  <2>2. PICK q : PowerOfTwo(q) /\ l = ChunkLen * q
    BY <1>5, <1>6, <2>1, PowerDivides
  <2>3. q \in Nat
    BY <2>2 DEF PowerOfTwo
  <2>4. ChunkLen * a = ChunkLen * q
    BY <1>6, <2>2
  <2>5. (ChunkLen * a) \div ChunkLen = a /\ (ChunkLen * q) \div ChunkLen = q
    BY <1>2, <1>6, <2>3, MultipleDivided
  <2>6. QED
    BY <2>2, <2>4, <2>5
<1> HIDE DEF n
<1>8. TreeOutput(key, flags, c, n)
        = parent_output(SubtreeCV(key, flags, c, l), SubtreeCV(key, flags, o, count), key, flags)
  <2>1. a * ChunkLen < n /\ n <= 2 * (a * ChunkLen)
    BY <1>5, <1>6
  <2>2. TreeOutput(key, flags, c, n)
          = parent_output(SubtreeCV(key, flags, c, a * ChunkLen),
                          SubtreeCV(key, flags, c + a, n - a * ChunkLen), key, flags)
    BY <1>3, <1>4, <1>7, <2>1, TreeOfSides
  <2>3. QED
    BY <1>4, <1>6, <2>2
<1>9. merge_subtrees_inner = TreeOutput(key, flags, c, n)
  BY <1>2, <1>3, <1>8 DEF merge_subtrees_inner, SubtreeCV
<1>10. QED
  BY <1>4, <1>9 DEF c, l, n

\* Nothing is held at first.
LEMMA HeldInit == Init => HeldInv
<1> SUFFICES ASSUME Init
             PROVE  HeldInv
  OBVIOUS
<1>1. held = [chunk |-> 0, len |-> 0, value |-> <<"none">>, root |-> FALSE]
  BY DEF Init, Nothing
<1>2. ~ (held.len > 0)
  BY <1>1, SMT
<1>3. QED
  BY <1>1, <1>2 DEF HeldInv, MergedIsWholeTree

\* Every step keeps what is held a node of the tree.
LEMMA HeldStep ==
  ASSUME HashingInv, HeldInv, [Next]_vars
  PROVE  HeldInv'
<1>1. ASSUME held' = held
      PROVE  HeldInv'
  BY <1>1 DEF HeldInv, MergedIsWholeTree
<1>2. CASE KeepSubtree
  <2>1. Resting
    BY <1>2 DEF Resting, KeepSubtree
  <2>2. held' = [chunk |-> initial, len |-> count,
                 value |-> output_chaining_value(final_output), root |-> FALSE]
    BY <1>2 DEF KeepSubtree
  <2>3. initial \in Nat /\ count \in Nat /\ final_output = TreeOutput(key, flags, initial, count)
    BY <2>1, RestingState, FinalOutput
  <2>4. held'.value = SubtreeCV(key, flags, held'.chunk, held'.len) /\ held'.root = FALSE
    BY <2>2, <2>3 DEF SubtreeCV
  <2>5. QED
    BY <2>2, <2>3, <2>4 DEF HeldInv, MergedIsWholeTree
<1>3. CASE MergeSubtree
  <2> DEFINE n == held.len + count
             v == output_chaining_value(merge_subtrees_inner)
  <2>1. held' = [held EXCEPT !.len = n, !.value = v] /\ ~ held.root
    BY <1>3 DEF MergeSubtree, sides_of_a_node
  <2>2. v = SubtreeCV(key, flags, held.chunk, n) /\ n \in Nat
    BY <1>3, MergedNode DEF MergeSubtree, SubtreeCV
  <2> HIDE DEF n, v
  <2>3. held' = [chunk |-> held.chunk, len |-> n, value |-> v, root |-> held.root]
        /\ held.chunk \in Nat
    BY <2>1, HeldFields
  <2>4. /\ held'.len = n /\ held'.value = SubtreeCV(key, flags, held'.chunk, held'.len)
        /\ ~ held'.root
    BY <2>1, <2>2, <2>3
  <2>5. QED
    BY <2>2, <2>3, <2>4 DEF HeldInv, MergedIsWholeTree
<1>4. CASE MergeRoot
  <2> DEFINE n == held.len + count
             v == output_root(merge_subtrees_inner)
  <2>1. held' = [held EXCEPT !.len = n, !.value = v, !.root = TRUE] /\ held.chunk = 0
    BY <1>4 DEF MergeRoot
  <2>2. v = Hash(key, flags, n) /\ n \in Nat
    BY <1>4, <2>1, MergedNode DEF MergeRoot, Hash
  <2> HIDE DEF n, v
  <2>3. held' = [chunk |-> held.chunk, len |-> n, value |-> v, root |-> TRUE]
        /\ held.chunk \in Nat
    BY <2>1, HeldFields
  <2>4. held'.value = Hash(key, flags, held'.len) /\ held'.root = TRUE
    BY <2>2, <2>3
  <2>5. QED
    BY <2>2, <2>3, <2>4 DEF HeldInv, MergedIsWholeTree
<1>5. held' = held \/ KeepSubtree \/ MergeSubtree \/ MergeRoot
  BY DEF Next, vars, UpdateCall, UpdateSubtree, UpdateTail, SetInputOffset, Reset, NewHasher
<1>6. QED
  BY <1>1, <1>2, <1>3, <1>4, <1>5

\* Whatever the cut of a message into parts, what the caller has merged is the
\* node over the parts' bytes as if they were hashed at once, and the merge to
\* a root is the hash of the message.
THEOREM MergedIsTree ==
  ASSUME ReuseOffsetHashers = FALSE
  PROVE  Spec => []MergedIsWholeTree
<1>1. HashingInv /\ HeldInv /\ [Next]_vars => HashingInv' /\ HeldInv'
  BY HashingStep, HeldStep
<1>2. HeldInv => MergedIsWholeTree
  BY DEF HeldInv
<1>3. QED
  BY <1>1, <1>2, HashingInit, HeldInit, PTL DEF Spec
=============================================================================
