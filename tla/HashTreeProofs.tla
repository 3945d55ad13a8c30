--------------------------- MODULE HashTreeProofs ---------------------------
(***************************************************************************)
(* Facts about the operators the hashers are built from, for every         *)
(* argument and every chunk and block length: the integer helpers by which *)
(* an input is cut into subtrees, the tree itself, the chunk state, which  *)
(* depends on the bytes it has absorbed and on nothing else, and stacks of *)
(* complete subtrees, from which the root is made along the right edge.    *)
(***************************************************************************)
EXTENDS ChunkState, Integers, FiniteSetTheorems, WellFoundedInduction, SequenceTheorems, TLAPS

-----------------------------------------------------------------------------
(* Induction and recursion over the natural numbers, stated of sets and     *)
(* functions rather than of operators, so that they can be cited for the    *)
(* recursive functions of the models.                                       *)

\* A set of natural numbers that is not empty has a least element.
LEMMA LeastElement ==
  ASSUME NEW T \in SUBSET Nat, T # {}
  PROVE  \E m \in T : \A k \in T : m <= k
<1> DEFINE UpTo == {0 .. m : m \in T}
<1>1. UpTo # {}
  OBVIOUS
<1>2. UpTo \subseteq FiniteSubsetsOf(Nat)
  <2>1. ASSUME NEW m \in T
        PROVE  0 .. m \in FiniteSubsetsOf(Nat)
    <3>1. 0 \in Int /\ m \in Int /\ 0 .. m \subseteq Nat
      BY SMT
    <3>2. IsFiniteSet(0 .. m)
      BY <3>1, FS_Interval
    <3>3. QED
      BY <3>1, <3>2 DEF FiniteSubsetsOf
  <2>2. QED
    BY <2>1
<1>3. PICK s \in UpTo : \A t \in UpTo : ~ (<<t, s>> \in StrictSubsetOrdering(Nat))
  <2>1. IsWellFoundedOn(StrictSubsetOrdering(Nat), FiniteSubsetsOf(Nat))
    BY FS_StrictSubsetOrderingWellFounded
  <2>2. QED
    BY <1>1, <1>2, <2>1, WFMin
<1>4. PICK m \in T : s = 0 .. m
  OBVIOUS
<1>5. ASSUME NEW k \in T, k < m
      PROVE  FALSE
  <2>1. 0 .. k \subseteq Nat /\ 0 .. m \subseteq Nat /\ 0 .. k \subseteq 0 .. m /\ 0 .. k # 0 .. m
    <3>1. m \in 0 .. m /\ m \notin 0 .. k
      BY <1>5, SMT
    <3>2. 0 .. k \subseteq 0 .. m
      BY <1>5, SMT
    <3>3. QED
      BY <3>1, <3>2, SMT
  <2>2. <<0 .. k, 0 .. m>> \in StrictSubsetOrdering(Nat)
    BY <2>1 DEF StrictSubsetOrdering
  <2>3. QED
    BY <1>3, <1>4, <2>2
<1>6. QED
  BY <1>5, SMT

\* Strong induction: a set of natural numbers that holds every number whose
\* predecessors it holds is all of them.
LEMMA StrongInduction ==
  ASSUME NEW P, \A n \in Nat : (\A k \in 0 .. n - 1 : k \in P) => n \in P
  PROVE  \A n \in Nat : n \in P
<1> DEFINE T == {n \in Nat : n \notin P}
<1>1. CASE T = {}
  BY <1>1
<1>2. CASE T # {}
  <2>1. PICK m \in T : \A k \in T : m <= k
    BY <1>2, LeastElement
  <2>2. ASSUME NEW k \in 0 .. m - 1
        PROVE  k \in P
    <3>1. k \in Nat /\ ~ (m <= k)
      BY SMT
    <3>2. QED
      BY <2>1, <3>1
  <2>3. m \in P
    BY <2>2
  <2>4. QED
    BY <2>3
<1>3. QED
  BY <1>1, <1>2

\* D gives a value in S from a number and a function, of which it uses the
\* values at smaller numbers only.
Recursor(S, D) ==
  /\ D \in [Nat \X [Nat -> S] -> S]
  /\ \A n \in Nat : \A f, g \in [Nat -> S] :
       (\A i \in 0 .. n - 1 : f[i] = g[i]) => D[<<n, f>>] = D[<<n, g>>]

\* What f satisfies if it is defined by the recursion D.
DefinedBy(D, f) == \A n \in Nat : f[n] = D[<<n, f>>]

\* A recursion defines a function over the natural numbers.
THEOREM RecursiveFunctionExists ==
  ASSUME NEW S, NEW D, NEW d \in S, Recursor(S, D)
  PROVE  \E f \in [Nat -> S] : DefinedBy(D, f)
<1> USE DEF Recursor, DefinedBy
<1> DEFINE Approx(n, f) == f \in [Nat -> S] /\ \A i \in 0 .. n : f[i] = D[<<i, f>>]
<1>1. \A n \in Nat : \E f : Approx(n, f)
  <2> DEFINE P == {n \in Nat : \E f : Approx(n, f)}
  <2>1. ASSUME NEW n \in Nat, \A k \in 0 .. n - 1 : k \in P
        PROVE  n \in P
    <3>1. \E f \in [Nat -> S] : \A i \in 0 .. n - 1 : f[i] = D[<<i, f>>]
      <4>1. CASE n = 0
        <5>1. [i \in Nat |-> d] \in [Nat -> S]
          OBVIOUS
        <5>2. 0 .. n - 1 = {}
          BY <4>1, SMT
        <5>3. QED
          BY <5>1, <5>2
      <4>2. CASE n # 0
        <5>1. n - 1 \in 0 .. n - 1
          BY <4>2, SMT
        <5>2. n - 1 \in P
          BY <2>1, <5>1
        <5>3. QED
          BY <5>2
      <4>3. QED
        BY <4>1, <4>2
    <3>2. PICK f \in [Nat -> S] : \A i \in 0 .. n - 1 : f[i] = D[<<i, f>>]
      BY <3>1
    <3> DEFINE g == [f EXCEPT ![n] = D[<<n, f>>]]
    <3>3. D[<<n, f>>] \in S
      OBVIOUS
    <3>4. g \in [Nat -> S] /\ g[n] = D[<<n, f>>] /\ \A i \in 0 .. n - 1 : g[i] = f[i]
      <4>1. g \in [Nat -> S] /\ g[n] = D[<<n, f>>]
        BY <3>3
      <4>2. ASSUME NEW i \in 0 .. n - 1
            PROVE  g[i] = f[i]
        <5>1. i \in Nat /\ i # n
          BY SMT
        <5>2. QED
          BY <5>1
      <4>3. QED
        BY <4>1, <4>2
    <3> HIDE DEF g
    <3>5. ASSUME NEW i \in 0 .. n
          PROVE  g[i] = D[<<i, g>>]
      <4>1. i \in Nat /\ \A k \in 0 .. i - 1 : k \in 0 .. n - 1
        BY SMT
      <4>2. D[<<i, f>>] = D[<<i, g>>]
        BY <3>4, <4>1
      <4>3. i = n \/ i \in 0 .. n - 1
        BY SMT
      <4>4. QED
        BY <3>2, <3>4, <4>2, <4>3
    <3>6. QED
      BY <3>4, <3>5
  <2>2. QED
    BY <2>1, StrongInduction
<1>2. ASSUME NEW n \in Nat, NEW m \in Nat, NEW f, NEW g, Approx(n, f), Approx(m, g),
             n <= m
      PROVE  \A i \in 0 .. n : f[i] = g[i]
  <2> DEFINE P == {i \in Nat : i <= n => f[i] = g[i]}
  <2>1. ASSUME NEW i \in Nat, \A k \in 0 .. i - 1 : k \in P
        PROVE  i \in P
    <3> SUFFICES ASSUME i <= n
                 PROVE  f[i] = g[i]
      OBVIOUS
    <3>1. i \in 0 .. n /\ i \in 0 .. m /\ \A k \in 0 .. i - 1 : k <= n
      BY <1>2, SMT
    <3>2. \A k \in 0 .. i - 1 : f[k] = g[k]
      BY <2>1, <3>1
    <3>3. D[<<i, f>>] = D[<<i, g>>]
      BY <1>2, <3>2
    <3>4. QED
      BY <1>2, <3>1, <3>3
  <2>2. \A i \in Nat : i \in P
    BY <2>1, StrongInduction
  <2>3. QED
    BY <2>2, SMT
<1> DEFINE F(n) == CHOOSE f : Approx(n, f)
           h == [n \in Nat |-> F(n)[n]]
<1>3. \A n \in Nat : Approx(n, F(n))
  BY <1>1
<1> HIDE DEF F, Approx
<1>4. h \in [Nat -> S]
  <2>1. ASSUME NEW n \in Nat
        PROVE  F(n)[n] \in S
    BY <1>3 DEF Approx
  <2>2. QED
    BY <2>1
<1>5. ASSUME NEW n \in Nat
      PROVE  h[n] = D[<<n, h>>]
  <2>1. ASSUME NEW i \in 0 .. n - 1
        PROVE  h[i] = F(n)[i]
    <3>1. i \in Nat /\ i <= n /\ i \in 0 .. i
      BY SMT
    <3>2. Approx(i, F(i)) /\ Approx(n, F(n))
      BY <1>3, <3>1
    <3>3. F(i)[i] = F(n)[i]
      BY <1>2, <3>1, <3>2
    <3>4. QED
      BY <3>1, <3>3
  <2>2. D[<<n, F(n)>>] = D[<<n, h>>]
    BY <1>3, <1>4, <2>1 DEF Approx
  <2>3. n \in 0 .. n
    BY SMT
  <2>4. h[n] = F(n)[n] /\ F(n)[n] = D[<<n, F(n)>>]
    BY <1>3, <2>3 DEF Approx
  <2>5. QED
    BY <2>2, <2>4
<1>6. QED
  BY <1>4, <1>5

-----------------------------------------------------------------------------
(* The integer helpers. *)

\* Half of a positive number is smaller.
LEMMA Halving ==
  ASSUME NEW n \in Nat
  PROVE  /\ n \div 2 \in Nat
         /\ n % 2 \in {0, 1}
         /\ n = 2 * (n \div 2) + (n % 2)
         /\ n > 0 => n \div 2 \in 0 .. n - 1
         /\ n > 1 => n \div 2 > 0
BY SMT

\* The recursive definition of popcnt defines a function.
LEMMA PopcntDef ==
  /\ popcnt \in [Nat -> Nat]
  /\ \A x \in Nat : popcnt[x] = IF x = 0 THEN 0 ELSE (x % 2) + popcnt[x \div 2]
<1> DEFINE D == [p \in Nat \X [Nat -> Nat] |->
                   IF p[1] = 0 THEN 0 ELSE (p[1] % 2) + p[2][p[1] \div 2]]
<1>1. D \in [Nat \X [Nat -> Nat] -> Nat]
  BY Halving, SMT
<1>2. ASSUME NEW n \in Nat, NEW f \in [Nat -> Nat]
      PROVE  D[<<n, f>>] = IF n = 0 THEN 0 ELSE (n % 2) + f[n \div 2]
  BY SMT
<1>3. ASSUME NEW n \in Nat, NEW f \in [Nat -> Nat], NEW g \in [Nat -> Nat],
             \A i \in 0 .. n - 1 : f[i] = g[i]
      PROVE  D[<<n, f>>] = D[<<n, g>>]
  <2>1. CASE n = 0
    BY <1>2, <2>1
  <2>2. CASE n # 0
    BY <1>2, <1>3, <2>2, Halving, SMT
  <2>3. QED
    BY <2>1, <2>2
<1> HIDE DEF D
<1>4. PICK f \in [Nat -> Nat] : DefinedBy(D, f)
  <2>1. Recursor(Nat, D)
    BY <1>1, <1>3 DEF Recursor
  <2>2. 0 \in Nat
    OBVIOUS
  <2>3. QED
    BY <2>1, <2>2, RecursiveFunctionExists
<1>5. f = [x \in Nat |-> IF x = 0 THEN 0 ELSE (x % 2) + f[x \div 2]]
  BY <1>2, <1>4 DEF DefinedBy
<1>6. popcnt = [x \in Nat |-> IF x = 0 THEN 0 ELSE (x % 2) + popcnt[x \div 2]]
  BY <1>5 DEF popcnt
<1>7. \A x \in Nat : popcnt[x] \in Nat
  <2> DEFINE P == {x \in Nat : popcnt[x] \in Nat}
  <2>1. ASSUME NEW n \in Nat, \A k \in 0 .. n - 1 : k \in P
        PROVE  n \in P
    <3>1. popcnt[n] = IF n = 0 THEN 0 ELSE (n % 2) + popcnt[n \div 2]
      BY <1>6
    <3>2. n # 0 => popcnt[n \div 2] \in Nat
      BY <2>1, Halving, SMT
    <3>3. QED
      BY <3>1, <3>2, SMT
  <2>2. QED
    BY <2>1, StrongInduction
<1>8. QED
  BY <1>6, <1>7

\* So does the one of round_down_to_power_of_2.
LEMMA RoundDownDef ==
  /\ \A x \in Nat : round_down_to_power_of_2[x] \in Nat \ {0}
  /\ \A x \in Nat : round_down_to_power_of_2[x] =
                      IF x <= 1 THEN 1 ELSE 2 * round_down_to_power_of_2[x \div 2]
<1> DEFINE D == [p \in Nat \X [Nat -> Nat] |-> IF p[1] <= 1 THEN 1 ELSE 2 * p[2][p[1] \div 2]]
<1>1. D \in [Nat \X [Nat -> Nat] -> Nat]
  BY Halving, SMT
<1>2. ASSUME NEW n \in Nat, NEW f \in [Nat -> Nat]
      PROVE  D[<<n, f>>] = IF n <= 1 THEN 1 ELSE 2 * f[n \div 2]
  BY SMT
<1>3. ASSUME NEW n \in Nat, NEW f \in [Nat -> Nat], NEW g \in [Nat -> Nat],
             \A i \in 0 .. n - 1 : f[i] = g[i]
      PROVE  D[<<n, f>>] = D[<<n, g>>]
  <2>1. CASE n <= 1
    BY <1>2, <2>1
  <2>2. CASE ~ (n <= 1)
    BY <1>2, <1>3, <2>2, Halving, SMT
  <2>3. QED
    BY <2>1, <2>2
<1> HIDE DEF D
<1>4. PICK f \in [Nat -> Nat] : DefinedBy(D, f)
  <2>1. Recursor(Nat, D)
    BY <1>1, <1>3 DEF Recursor
  <2>2. 0 \in Nat
    OBVIOUS
  <2>3. QED
    BY <2>1, <2>2, RecursiveFunctionExists
<1>5. f = [x \in Nat |-> IF x <= 1 THEN 1 ELSE 2 * f[x \div 2]]
  BY <1>2, <1>4 DEF DefinedBy
<1>6. round_down_to_power_of_2 =
        [x \in Nat |-> IF x <= 1 THEN 1 ELSE 2 * round_down_to_power_of_2[x \div 2]]
  BY <1>5 DEF round_down_to_power_of_2
<1>7. \A x \in Nat : round_down_to_power_of_2[x] \in Nat \ {0}
  <2> DEFINE P == {x \in Nat : round_down_to_power_of_2[x] \in Nat \ {0}}
  <2>1. ASSUME NEW n \in Nat, \A k \in 0 .. n - 1 : k \in P
        PROVE  n \in P
    <3>1. round_down_to_power_of_2[n] =
            IF n <= 1 THEN 1 ELSE 2 * round_down_to_power_of_2[n \div 2]
      BY <1>6
    <3>2. ~ (n <= 1) => round_down_to_power_of_2[n \div 2] \in Nat \ {0}
      BY <2>1, Halving, SMT
    <3>3. QED
      BY <3>1, <3>2, SMT
  <2>2. QED
    BY <2>1, StrongInduction
<1>8. QED
  BY <1>6, <1>7

\* And so does the one of the loop that halves a length until it is aligned.
LEMMA HalvedDef ==
  ASSUME NEW count \in Nat
  PROVE  \A n \in Nat : halved_until_aligned(count)[n] =
           IF n <= 1 \/ count % n = 0 THEN n ELSE halved_until_aligned(count)[n \div 2]
<1> DEFINE D == [p \in Nat \X [Nat -> Nat] |->
                   IF p[1] <= 1 \/ count % p[1] = 0 THEN p[1] ELSE p[2][p[1] \div 2]]
<1>1. D \in [Nat \X [Nat -> Nat] -> Nat]
  BY Halving, SMT
<1>2. ASSUME NEW n \in Nat, NEW f \in [Nat -> Nat]
      PROVE  D[<<n, f>>] = IF n <= 1 \/ count % n = 0 THEN n ELSE f[n \div 2]
  OBVIOUS
<1>3. ASSUME NEW n \in Nat, NEW f \in [Nat -> Nat], NEW g \in [Nat -> Nat],
             \A i \in 0 .. n - 1 : f[i] = g[i]
      PROVE  D[<<n, f>>] = D[<<n, g>>]
  <2>1. CASE n <= 1
    BY <1>2, <2>1
  <2>2. CASE ~ (n <= 1)
    <3>1. n \div 2 \in 0 .. n - 1
      BY <2>2, Halving, SMT
    <3>2. QED
      BY <1>2, <1>3, <3>1
  <2>3. QED
    BY <2>1, <2>2
<1> HIDE DEF D
<1>4. PICK f \in [Nat -> Nat] : DefinedBy(D, f)
  <2>1. Recursor(Nat, D)
    BY <1>1, <1>3 DEF Recursor
  <2>2. 0 \in Nat
    OBVIOUS
  <2>3. QED
    BY <2>1, <2>2, RecursiveFunctionExists
<1>5. f = [n \in Nat |-> IF n <= 1 \/ count % n = 0 THEN n ELSE f[n \div 2]]
  BY <1>2, <1>4 DEF DefinedBy
<1>6. halved_until_aligned(count) =
        [n \in Nat |-> IF n <= 1 \/ count % n = 0 THEN n
                       ELSE halved_until_aligned(count)[n \div 2]]
  BY <1>5 DEF halved_until_aligned
<1>7. QED
  BY <1>6

-----------------------------------------------------------------------------
\* Division of a multiple.
LEMMA MultipleDivided ==
  ASSUME NEW a \in Nat \ {0}, NEW q \in Nat
  PROVE  /\ (a * q) \div a = q /\ (a * q) % a = 0
         /\ (q * a) \div a = q /\ (q * a) % a = 0
         /\ a * q = q * a /\ a * q \in Nat
BY SMT

\* The powers of two are the numbers that are rounded down to themselves.
PowerOfTwo(m) == m \in Nat \ {0} /\ round_down_to_power_of_2[m] = m

\* One is a power of two, and so is the double of one.
LEMMA DoubledPower ==
  /\ PowerOfTwo(1)
  /\ \A m : PowerOfTwo(m) => PowerOfTwo(2 * m)
<1>1. PowerOfTwo(1)
  BY RoundDownDef, SMT DEF PowerOfTwo
<1>2. ASSUME NEW m, PowerOfTwo(m)
      PROVE  PowerOfTwo(2 * m)
  <2>1. m \in Nat \ {0} /\ 2 * m \in Nat \ {0} /\ ~ (2 * m <= 1) /\ (2 * m) \div 2 = m
    BY <1>2, SMT DEF PowerOfTwo
  <2>2. round_down_to_power_of_2[2 * m] = 2 * round_down_to_power_of_2[m]
    BY <2>1, RoundDownDef
  <2>3. QED
    BY <1>2, <2>1, <2>2 DEF PowerOfTwo
<1>3. QED
  BY <1>1, <1>2

\* A larger power of two is the double of another.
LEMMA HalvedPower ==
  ASSUME NEW m, PowerOfTwo(m), m # 1
  PROVE  PowerOfTwo(m \div 2) /\ m = 2 * (m \div 2) /\ m \div 2 < m
<1>1. m \in Nat \ {0} /\ ~ (m <= 1) /\ m \div 2 \in Nat \ {0}
  BY SMT DEF PowerOfTwo
<1>2. m = 2 * round_down_to_power_of_2[m \div 2]
  BY <1>1, RoundDownDef DEF PowerOfTwo
<1>3. round_down_to_power_of_2[m \div 2] \in Nat \ {0}
  BY <1>1, RoundDownDef
<1>4. round_down_to_power_of_2[m \div 2] = m \div 2 /\ m = 2 * (m \div 2) /\ m \div 2 < m
  BY <1>1, <1>2, <1>3, SMT
<1>5. QED
  BY <1>1, <1>4 DEF PowerOfTwo

\* round_down_to_power_of_2 does what its name says.
THEOREM RoundDownIsPower ==
  ASSUME NEW x \in Nat \ {0}
  PROVE  LET p == round_down_to_power_of_2[x]
         IN  PowerOfTwo(p) /\ p <= x /\ x < 2 * p
<1> DEFINE p(y) == round_down_to_power_of_2[y]
           P == {y \in Nat : y # 0 => PowerOfTwo(p(y)) /\ p(y) <= y /\ y < 2 * p(y)}
<1>1. ASSUME NEW n \in Nat, \A k \in 0 .. n - 1 : k \in P
      PROVE  n \in P
  <2>1. CASE n <= 1
    <3>1. p(n) = 1
      BY <2>1, RoundDownDef
    <3>2. QED
      BY <2>1, <3>1, DoubledPower, SMT
  <2>2. CASE ~ (n <= 1)
    <3>1. /\ n \div 2 \in 0 .. n - 1 /\ n \div 2 \in Nat \ {0}
          /\ 2 * (n \div 2) <= n /\ n < 2 * (n \div 2) + 2
      BY <2>2, SMT
    <3>2. PowerOfTwo(p(n \div 2)) /\ p(n \div 2) <= n \div 2 /\ n \div 2 < 2 * p(n \div 2)
      BY <1>1, <3>1
    <3>3. p(n) = 2 * p(n \div 2)
      BY <2>2, RoundDownDef
    <3>4. PowerOfTwo(p(n))
      BY <3>2, <3>3, DoubledPower
    <3>5. p(n) <= n /\ n < 2 * p(n)
      BY <3>1, <3>2, <3>3, SMT DEF PowerOfTwo
    <3>6. QED
      BY <3>4, <3>5
  <2>3. QED
    BY <2>1, <2>2
<1>2. \A n \in Nat : n \in P
  BY <1>1, StrongInduction
<1>3. QED
  BY <1>2

\* Of two powers of two the smaller divides the other, and the quotient is a
\* power of two.
LEMMA PowerDivides ==
  ASSUME NEW a, NEW b, PowerOfTwo(a), PowerOfTwo(b), a <= b
  PROVE  \E q : PowerOfTwo(q) /\ b = a * q
<1> DEFINE Divides(x, y) == \E q : PowerOfTwo(q) /\ y = x * q
           P == {x \in Nat : PowerOfTwo(x) => \A y : PowerOfTwo(y) /\ x <= y => Divides(x, y)}
<1>1. ASSUME NEW n \in Nat, \A k \in 0 .. n - 1 : k \in P
      PROVE  n \in P
  <2> SUFFICES ASSUME PowerOfTwo(n), NEW y, PowerOfTwo(y), n <= y
               PROVE  Divides(n, y)
    OBVIOUS
  <2>1. CASE n = 1
    <3>1. y = 1 * y
      BY SMT DEF PowerOfTwo
    <3>2. QED
      BY <2>1, <3>1
  <2>2. CASE n # 1
    <3>1. PowerOfTwo(n \div 2) /\ n = 2 * (n \div 2) /\ n \div 2 < n
      BY <2>2, HalvedPower
    <3>2. y # 1
      BY <2>2, SMT DEF PowerOfTwo
    <3>3. PowerOfTwo(y \div 2) /\ y = 2 * (y \div 2)
      BY <3>2, HalvedPower
    <3>4. n \div 2 \in 0 .. n - 1 /\ n \div 2 <= y \div 2
      BY <3>1, <3>3, SMT DEF PowerOfTwo
    <3>5. PICK q : PowerOfTwo(q) /\ y \div 2 = (n \div 2) * q
      BY <1>1, <3>1, <3>3, <3>4
    <3>6. y = n * q
      <4>1. q \in Nat /\ n \div 2 \in Nat
        BY <3>5, SMT DEF PowerOfTwo
      <4>2. 2 * ((n \div 2) * q) = (2 * (n \div 2)) * q
        BY <4>1, SMT
      <4>3. QED
        BY <3>1, <3>3, <3>5, <4>2
    <3>7. QED
      BY <3>5, <3>6
  <2>3. QED
    BY <2>1, <2>2
<1>2. \A n \in Nat : n \in P
  BY <1>1, StrongInduction
<1>3. QED
  BY <1>2 DEF PowerOfTwo

\* A power of two smaller than another is at most half of it.
LEMMA PowerBelow ==
  ASSUME NEW a, NEW b, PowerOfTwo(a), PowerOfTwo(b), a < b
  PROVE  a <= b \div 2
<1>0. a <= b
  BY SMT DEF PowerOfTwo
<1>1. PICK q : PowerOfTwo(q) /\ b = a * q
  BY <1>0, PowerDivides
<1>2. a \in Nat /\ b \in Nat /\ q \in Nat \ {0}
  BY <1>1 DEF PowerOfTwo
<1>3. q # 1
  BY <1>1, <1>2, SMT
<1>4. q = 2 * (q \div 2) /\ q \div 2 \in Nat \ {0}
  BY <1>1, <1>3, HalvedPower DEF PowerOfTwo
<1>5. b = 2 * (a * (q \div 2)) /\ a <= a * (q \div 2) /\ a * (q \div 2) \in Nat
  BY <1>1, <1>2, <1>4, SMT
<1>6. QED
  BY <1>2, <1>5, SMT

\* Rounding down does not go below a power of two that fits.
LEMMA RoundDownAtLeast ==
  ASSUME NEW a, PowerOfTwo(a), NEW x \in Nat, a <= x
  PROVE  a <= round_down_to_power_of_2[x]
<1> DEFINE p == round_down_to_power_of_2[x]
<1>1. a \in Nat /\ x \in Nat \ {0}
  BY SMT DEF PowerOfTwo
<1>2. PowerOfTwo(p) /\ p \in Nat /\ x < 2 * p
  BY <1>1, RoundDownIsPower DEF PowerOfTwo
<1>3. CASE p < a
  <2>1. p <= a \div 2
    BY <1>2, <1>3, PowerBelow
  <2>2. p # a /\ a # 1
    BY <1>1, <1>2, <1>3, SMT DEF PowerOfTwo
  <2>3. a = 2 * (a \div 2)
    BY <2>2, HalvedPower
  <2>4. QED
    BY <1>1, <1>2, <2>1, <2>3, SMT
<1>4. QED
  BY <1>1, <1>2, <1>3, SMT

\* The loop that halves a length stops at a power of two that divides the count,
\* and not below one that is known to.
THEOREM HalvedIsAligned ==
  ASSUME NEW count \in Nat, NEW a, PowerOfTwo(a), count % a = 0,
         NEW x, PowerOfTwo(x), a <= x
  PROVE  LET h == halved_until_aligned(count)[x]
         IN  PowerOfTwo(h) /\ a <= h /\ h <= x /\ count % h = 0
<1> DEFINE h(y) == halved_until_aligned(count)[y]
           P == {y \in Nat : PowerOfTwo(y) /\ a <= y =>
                   PowerOfTwo(h(y)) /\ a <= h(y) /\ h(y) <= y /\ count % h(y) = 0}
<1>1. ASSUME NEW n \in Nat, \A k \in 0 .. n - 1 : k \in P
      PROVE  n \in P
  <2> SUFFICES ASSUME PowerOfTwo(n), a <= n
               PROVE  PowerOfTwo(h(n)) /\ a <= h(n) /\ h(n) <= n /\ count % h(n) = 0
    OBVIOUS
  <2>1. a \in Nat \ {0} /\ n \in Nat \ {0}
    BY DEF PowerOfTwo
  <2>2. CASE count % n = 0
    <3>1. h(n) = n
      BY <2>2, HalvedDef
    <3>2. QED
      BY <2>1, <2>2, <3>1, SMT
  <2>3. CASE count % n # 0
    <3>1. a # n /\ a < n /\ ~ (n <= 1) /\ n # 1
      BY <2>1, <2>3, SMT
    <3>2. PowerOfTwo(n \div 2) /\ n \div 2 < n /\ n \div 2 \in 0 .. n - 1
      BY <2>1, <3>1, HalvedPower, SMT
    <3>3. a <= n \div 2
      BY <3>1, PowerBelow
    <3>4. h(n) = h(n \div 2)
      BY <2>3, <3>1, HalvedDef
    <3>5. PowerOfTwo(h(n \div 2)) /\ a <= h(n \div 2) /\ h(n \div 2) <= n \div 2
          /\ count % h(n \div 2) = 0
      BY <1>1, <3>2, <3>3
    <3>6. QED
      BY <2>1, <3>2, <3>4, <3>5, SMT DEF PowerOfTwo
  <2>4. QED
    BY <2>2, <2>3
<1>2. \A n \in Nat : n \in P
  BY <1>1, StrongInduction
<1>3. QED
  BY <1>2 DEF PowerOfTwo

\* A positive number has a 1 bit.
LEMMA PopcntPositive ==
  ASSUME NEW x \in Nat \ {0}
  PROVE  popcnt[x] \in Nat \ {0}
<1> DEFINE P == {y \in Nat : y # 0 => popcnt[y] > 0}
<1>1. ASSUME NEW n \in Nat, \A k \in 0 .. n - 1 : k \in P
      PROVE  n \in P
  <2> SUFFICES ASSUME n # 0
               PROVE  popcnt[n] > 0
    OBVIOUS
  <2>1. popcnt[n] = (n % 2) + popcnt[n \div 2] /\ popcnt[n \div 2] \in Nat
    BY PopcntDef, Halving
  <2>2. CASE n = 1
    BY <2>1, <2>2, SMT
  <2>3. CASE n # 1
    <3>1. n \div 2 \in 0 .. n - 1 /\ n \div 2 # 0 /\ n % 2 \in {0, 1}
      BY <2>3, Halving, SMT
    <3>2. popcnt[n \div 2] > 0
      BY <1>1, <3>1
    <3>3. QED
      BY <2>1, <3>1, <3>2, SMT
  <2>4. QED
    BY <2>2, <2>3
<1>2. \A n \in Nat : n \in P
  BY <1>1, StrongInduction
<1>3. QED
  BY <1>2, PopcntDef, SMT

-----------------------------------------------------------------------------
(* The number of 1 bits of consecutive numbers of chunks, which tells when *)
(* subtrees are complete.                                                  *)

\* A bit appended at the low end counts if it is set.
LEMMA PopcntDoubled ==
  ASSUME NEW x \in Nat
  PROVE  popcnt[2 * x] = popcnt[x] /\ popcnt[2 * x + 1] = popcnt[x] + 1
<1>1. popcnt[x] \in Nat /\ popcnt[0] = 0
  BY PopcntDef
<1>2. /\ 2 * x \in Nat /\ (2 * x) \div 2 = x /\ (2 * x) % 2 = 0
      /\ 2 * x + 1 \in Nat /\ (2 * x + 1) \div 2 = x /\ (2 * x + 1) % 2 = 1 /\ 2 * x + 1 # 0
  BY SMT
<1>3. popcnt[2 * x + 1] = 1 + popcnt[x]
  BY <1>2, PopcntDef
<1>4. popcnt[2 * x] = popcnt[x]
  <2>1. CASE x = 0
    BY <1>2, <2>1, SMT
  <2>2. CASE x # 0
    <3>1. popcnt[2 * x] = 0 + popcnt[x]
      <4>1. 2 * x # 0
        BY <2>2, SMT
      <4>2. QED
        BY <1>2, <4>1, PopcntDef
    <3>2. QED
      BY <1>1, <3>1, SMT
  <2>3. QED
    BY <2>1, <2>2
<1>5. QED
  BY <1>1, <1>3, <1>4, SMT

\* Counting on from an even number adds a 1 bit, from an odd one it adds none.
LEMMA PopcntNext ==
  ASSUME NEW x \in Nat
  PROVE  /\ x % 2 = 0 => popcnt[x + 1] = popcnt[x] + 1
         /\ x % 2 # 0 => popcnt[x + 1] <= popcnt[x]
<1> DEFINE Next2(y) == /\ y % 2 = 0 => popcnt[y + 1] = popcnt[y] + 1
                       /\ y % 2 # 0 => popcnt[y + 1] <= popcnt[y]
           P == {y \in Nat : Next2(y)}
<1>1. ASSUME NEW n \in Nat, \A k \in 0 .. n - 1 : k \in P
      PROVE  n \in P
  <2> DEFINE h == n \div 2
  <2>1. h \in Nat /\ popcnt[h] \in Nat /\ popcnt[h + 1] \in Nat
    BY PopcntDef, Halving, SMT
  <2>2. CASE n % 2 = 0
    <3>1. n = 2 * h /\ n + 1 = 2 * h + 1
      BY <2>2, SMT
    <3>2. QED
      BY <2>1, <2>2, <3>1, PopcntDoubled
  <2>3. CASE n % 2 # 0
    <3>1. n = 2 * h + 1 /\ n + 1 = 2 * (h + 1) /\ h \in 0 .. n - 1
      BY <2>3, SMT
    <3>2. Next2(h)
      BY <1>1, <3>1
    <3>3. popcnt[n] = popcnt[h] + 1 /\ popcnt[n + 1] = popcnt[h + 1]
      <4>1. h + 1 \in Nat
        BY <2>1, SMT
      <4>2. popcnt[2 * h + 1] = popcnt[h] + 1 /\ popcnt[2 * (h + 1)] = popcnt[h + 1]
        BY <2>1, <4>1, PopcntDoubled
      <4> HIDE DEF h
      <4>3. QED
        BY <3>1, <4>2
    <3>4. popcnt[h + 1] <= popcnt[h] + 1
      BY <2>1, <3>2, SMT
    <3>5. QED
      BY <2>3, <3>3, <3>4
  <2>4. QED
    BY <2>2, <2>3
<1>2. \A n \in Nat : n \in P
  BY <1>1, StrongInduction
<1>3. QED
  BY <1>2

\* A power of two as a factor moves the bits.
LEMMA PopcntScaled ==
  ASSUME NEW a, PowerOfTwo(a), NEW y \in Nat
  PROVE  popcnt[a * y] = popcnt[y]
<1> DEFINE P == {x \in Nat : PowerOfTwo(x) => popcnt[x * y] = popcnt[y]}
<1>1. ASSUME NEW n \in Nat, \A k \in 0 .. n - 1 : k \in P
      PROVE  n \in P
  <2> SUFFICES ASSUME PowerOfTwo(n)
               PROVE  popcnt[n * y] = popcnt[y]
    OBVIOUS
  <2>1. CASE n = 1
    <3>1. 1 * y = y
      BY SMT
    <3>2. QED
      BY <2>1, <3>1
  <2>2. CASE n # 1
    <3> DEFINE h == n \div 2
    <3>1. PowerOfTwo(h) /\ n = 2 * h /\ h < n /\ h \in Nat
      BY <2>2, HalvedPower DEF PowerOfTwo
    <3> HIDE DEF h
    <3>2. h \in 0 .. n - 1 /\ n * y = 2 * (h * y) /\ h * y \in Nat
      <4>1. h \in 0 .. n - 1
        BY <3>1, SMT
      <4>2. (2 * h) * y = 2 * (h * y) /\ h * y \in Nat
        BY <3>1, SMT
      <4>3. QED
        BY <3>1, <4>1, <4>2
    <3>3. popcnt[h * y] = popcnt[y]
      BY <1>1, <3>1, <3>2
    <3>4. QED
      BY <3>2, <3>3, PopcntDoubled
  <2>3. QED
    BY <2>1, <2>2
<1>2. \A n \in Nat : n \in P
  BY <1>1, StrongInduction
<1>3. QED
  BY <1>2 DEF PowerOfTwo

\* The remainder of a multiple and a smaller number.
LEMMA Remainder ==
  ASSUME NEW b \in Nat \ {0}, NEW z \in Nat, NEW r \in 0 .. b - 1
  PROVE  (b * z + r) % b = r
BY SMT

\* A multiple of a is an even or an odd one: then the next one is not.
LEMMA EvenMultiples ==
  ASSUME NEW a \in Nat \ {0}, NEW f \in Nat, f % a = 0
  PROVE  /\ f = a * (f \div a) /\ f + a = a * (f \div a + 1) /\ f \div a \in Nat
         /\ f % (2 * a) = 0 <=> (f \div a) % 2 = 0
         /\ f % (2 * a) = 0 <=> (f + a) % (2 * a) # 0
<1> DEFINE y == f \div a
           z == y \div 2
<1>1. y \in Nat /\ f = a * y
  BY SMT
<1> HIDE DEF y
<1>2. z \in Nat /\ y % 2 \in {0, 1} /\ y = 2 * z + (y % 2)
  BY <1>1, Halving
<1> HIDE DEF z
<1>3. f + a = a * (y + 1)
  BY <1>1, SMT
<1>4. CASE y % 2 = 0
  <2>1. f = (2 * a) * z /\ 2 * a \in Nat \ {0} /\ a \in 0 .. 2 * a - 1
    <3>1. y = 2 * z
      BY <1>2, <1>4, SMT
    <3>2. a * (2 * z) = (2 * a) * z
      BY <1>2, SMT
    <3>3. QED
      BY <1>1, <3>1, <3>2, SMT
  <2>2. f % (2 * a) = 0 /\ (f + a) % (2 * a) = a
    <3> DEFINE b == 2 * a
    <3>1. b \in Nat \ {0} /\ f = b * z /\ a \in 0 .. b - 1
      BY <2>1
    <3> HIDE DEF b
    <3>2. (b * z) % b = 0 /\ (b * z + a) % b = a
      BY <1>2, <3>1, SMT
    <3>3. QED
      BY <3>1, <3>2 DEF b
  <2>3. QED
    BY <1>1, <1>3, <1>4, <2>2 DEF y
<1>5. CASE y % 2 = 1
  <2>1. f = (2 * a) * z + a /\ f + a = (2 * a) * (z + 1) /\ 2 * a \in Nat \ {0} /\ a \in 0 .. 2 * a - 1
    <3>1. y = 2 * z + 1
      BY <1>2, <1>5, SMT
    <3>2. a * (2 * z + 1) = (2 * a) * z + a /\ a * ((2 * z + 1) + 1) = (2 * a) * (z + 1)
      BY <1>2, SMT
    <3>3. QED
      BY <1>1, <1>3, <3>1, <3>2, SMT
  <2>2. f % (2 * a) = a /\ (f + a) % (2 * a) = 0
    <3> DEFINE b == 2 * a
    <3>1. b \in Nat \ {0} /\ f = b * z + a /\ f + a = b * (z + 1) /\ a \in 0 .. b - 1
      BY <2>1
    <3> HIDE DEF b
    <3>2. (b * z + a) % b = a
      BY <1>2, <3>1, Remainder
    <3>3. (b * (z + 1)) % b = 0
      <4>1. z + 1 \in Nat
        BY <1>2, SMT
      <4>2. QED
        BY <3>1, <4>1, MultipleDivided
    <3>4. QED
      BY <3>1, <3>2, <3>3 DEF b
  <2>3. QED
    BY <1>1, <1>3, <1>5, <2>2 DEF y
<1>6. QED
  BY <1>2, <1>4, <1>5

\* Behind an aligned subtree of a chunks the number of 1 bits has grown by one
\* if its first chunk is a multiple of 2 * a, and has not grown otherwise.
THEOREM PopcntOfNextSubtree ==
  ASSUME NEW a, PowerOfTwo(a), NEW f \in Nat, f % a = 0
  PROVE  /\ f % (2 * a) = 0 => popcnt[f + a] = popcnt[f] + 1
         /\ f % (2 * a) # 0 => popcnt[f + a] <= popcnt[f]
<1> DEFINE y == f \div a
<1>1. a \in Nat \ {0}
  BY DEF PowerOfTwo
<1>2. /\ f = a * y /\ f + a = a * (y + 1) /\ y \in Nat
      /\ f % (2 * a) = 0 <=> y % 2 = 0
  BY <1>1, EvenMultiples
<1> HIDE DEF y
<1>3. popcnt[f] = popcnt[y] /\ popcnt[f + a] = popcnt[y + 1]
  <2>1. y + 1 \in Nat
    BY <1>2, SMT
  <2>2. QED
    BY <1>2, <2>1, PopcntScaled
<1>4. QED
  BY <1>2, <1>3, PopcntNext

\* What a power of two divides, the smaller ones divide.
LEMMA SmallerPowers ==
  ASSUME NEW a, NEW b, PowerOfTwo(a), PowerOfTwo(b), NEW f \in Nat, f % b = 0
  PROVE  /\ a <= b => f % a = 0
         /\ a < b => f % (2 * a) = 0 /\ 2 * a <= b
<1>1. a \in Nat \ {0} /\ b \in Nat \ {0}
  BY DEF PowerOfTwo
<1>2. ASSUME NEW c, PowerOfTwo(c), c <= b
      PROVE  f % c = 0
  <2>1. PICK q : PowerOfTwo(q) /\ b = c * q
    BY <1>2, PowerDivides
  <2>2. c \in Nat \ {0} /\ q \in Nat
    BY <1>2, <2>1 DEF PowerOfTwo
  <2>3. f \div b \in Nat /\ f = b * (f \div b)
    BY <1>1, SMT
  <2> DEFINE z == f \div b
  <2> HIDE DEF z
  <2>4. f = c * (q * z) /\ q * z \in Nat
    <3>1. z \in Nat /\ f = (c * q) * z
      BY <2>1, <2>3 DEF z
    <3>2. (c * q) * z = c * (q * z) /\ q * z \in Nat
      BY <2>2, <3>1, SMT
    <3>3. QED
      BY <3>1, <3>2
  <2>5. QED
    BY <2>2, <2>4, MultipleDivided
<1>3. ASSUME a < b
      PROVE  f % (2 * a) = 0 /\ 2 * a <= b
  <2>1. a <= b \div 2 /\ b # 1
    BY <1>1, <1>3, PowerBelow, SMT
  <2>2. b = 2 * (b \div 2)
    BY <2>1, HalvedPower
  <2>3. 2 * a <= b
    BY <1>1, <2>1, <2>2, SMT
  <2>4. QED
    BY <1>2, <2>3, DoubledPower
<1>4. QED
  BY <1>2, <1>3

\* The powers of two of arithmetic: a set with one element more has twice as
\* many subsets.
LEMMA TwoToNext ==
  ASSUME NEW n \in Nat
  PROVE  2 ^ n \in Nat /\ 2 ^ (n + 1) = 2 * 2 ^ n
<1> DEFINE A == 1 .. n
           B == 1 .. n + 1
           x == n + 1
           with == {s \cup {x} : s \in SUBSET A}
<1>1. /\ IsFiniteSet(A) /\ Cardinality(A) = n /\ IsFiniteSet(B) /\ Cardinality(B) = n + 1
  <2>1. 1 \in Int /\ n \in Int /\ n + 1 \in Int /\ (1 > n => n = 0) /\ ~ (1 > n + 1)
        /\ n - 1 + 1 = n /\ (n + 1) - 1 + 1 = n + 1
    BY SMT
  <2>2. QED
    BY <2>1, FS_Interval
<1>2. /\ IsFiniteSet(SUBSET A) /\ Cardinality(SUBSET A) = 2 ^ n
      /\ IsFiniteSet(SUBSET B) /\ Cardinality(SUBSET B) = 2 ^ (n + 1)
  BY <1>1, FS_SUBSET
<1>3. x \notin A /\ B = A \cup {x}
  BY SMT
<1> HIDE DEF A, B, x
<1>4. SUBSET B = (SUBSET A) \cup with
  <2>1. ASSUME NEW s \in SUBSET B, s \notin SUBSET A
        PROVE  s \in with
    <3>1. s \ {x} \in SUBSET A /\ s = (s \ {x}) \cup {x}
      BY <1>3, <2>1
    <3>2. QED
      BY <3>1
  <2>2. with \subseteq SUBSET B
    BY <1>3
  <2>3. QED
    BY <1>3, <2>1, <2>2
<1>5. (SUBSET A) \cap with = {}
  BY <1>3
<1>6. IsFiniteSet(with) /\ Cardinality(with) = Cardinality(SUBSET A)
  <2> DEFINE f == [s \in SUBSET A |-> s \cup {x}]
  <2>1. f \in Bijection(SUBSET A, with)
    <3>1. \A s, t \in SUBSET A : f[s] = f[t] => s = t
      BY <1>3
    <3>2. f \in Injection(SUBSET A, with)
      <4>1. f \in [SUBSET A -> with]
        OBVIOUS
      <4>2. IsInjective(f)
        BY <3>1 DEF IsInjective
      <4>3. QED
        BY <4>1, <4>2 DEF Injection
    <3>3. f \in Surjection(SUBSET A, with)
      BY DEF Surjection
    <3>4. QED
      BY <3>2, <3>3 DEF Bijection
  <2>2. QED
    BY <1>2, <2>1, FS_Bijection DEF ExistsBijection
<1> HIDE DEF with
<1>7. Cardinality(SUBSET B) = Cardinality(SUBSET A) + Cardinality(with) - Cardinality({})
  <2>1. Cardinality((SUBSET A) \cup with)
          = Cardinality(SUBSET A) + Cardinality(with) - Cardinality((SUBSET A) \cap with)
    BY <1>2, <1>6, FS_Union
  <2>2. QED
    BY <1>4, <1>5, <2>1
<1>8. Cardinality({}) = 0 /\ 2 ^ n \in Nat
  BY <1>2, FS_EmptySet, FS_CardinalityType
<1>9. QED
  BY <1>2, <1>6, <1>7, <1>8, SMT

\* A number of at most d bits has at most d of them set.
LEMMA PopcntOfBits ==
  ASSUME NEW d \in Nat, NEW x \in Nat, x < 2 ^ d
  PROVE  popcnt[x] <= d
<1> DEFINE P == {e \in Nat : \A y \in Nat : y < 2 ^ e => popcnt[y] <= e}
<1>1. ASSUME NEW n \in Nat, \A k \in 0 .. n - 1 : k \in P
      PROVE  n \in P
  <2> SUFFICES ASSUME NEW y \in Nat, y < 2 ^ n
               PROVE  popcnt[y] <= n
    OBVIOUS
  <2>1. CASE n = 0
    <3>1. 2 ^ 0 = 1
      BY SMT
    <3>2. y = 0
      BY <2>1, <3>1, SMT
    <3>3. QED
      BY <2>1, <3>2, PopcntDef, SMT
  <2>2. CASE n # 0
    <3> DEFINE m == n - 1
               h == y \div 2
    <3>1. m \in Nat /\ m \in 0 .. n - 1 /\ n = m + 1
      BY <2>2, SMT
    <3>2. 2 ^ n = 2 * 2 ^ m /\ 2 ^ m \in Nat
      BY <3>1, TwoToNext
    <3> DEFINE t == 2 ^ m
    <3>3. h \in Nat /\ h < t
      <4>1. t \in Nat /\ y < 2 * t
        BY <3>2
      <4> HIDE DEF t
      <4>2. QED
        BY <4>1, SMT
    <3>4. popcnt[h] <= m
      BY <1>1, <3>1, <3>3
    <3>5. popcnt[y] \in Nat /\ popcnt[h] \in Nat /\ popcnt[y] <= 1 + popcnt[h]
      <4>1. popcnt[y] \in Nat /\ popcnt[h] \in Nat
            /\ popcnt[y] = IF y = 0 THEN 0 ELSE (y % 2) + popcnt[h]
        BY <3>3, PopcntDef
      <4>2. QED
        BY <4>1, Halving, SMT
    <3>6. QED
      BY <3>1, <3>4, <3>5, SMT
  <2>3. QED
    BY <2>1, <2>2
<1>2. \A n \in Nat : n \in P
  BY <1>1, StrongInduction
<1>3. QED
  BY <1>2

-----------------------------------------------------------------------------
(* The tree.  Its outputs are in no set that could be named, so that the   *)
(* recursion is shown to define a function by way of its beginnings.       *)

\* The left side of an input longer than a chunk leaves a byte for the right.
LEMMA LeftSubtree ==
  ASSUME NEW n \in Nat, n > ChunkLen
  PROVE  LET l == left_subtree_len(n)
         IN  l \in 0 .. n - 1 /\ n - l \in 0 .. n - 1 /\ l \div ChunkLen \in Nat
<1> DEFINE x == (n - 1) \div ChunkLen
           p == round_down_to_power_of_2[x]
<1>1. ChunkLen \in Nat \ {0}
  BY HashTreeAssumption
<1>2. x \in Nat \ {0} /\ x * ChunkLen <= n - 1
  <2>1. n - 1 \in Nat /\ ChunkLen <= n - 1
    BY <1>1, SMT
  <2>2. x \in Nat /\ n - 1 = ChunkLen * x + ((n - 1) % ChunkLen) /\ (n - 1) % ChunkLen \in 0 .. ChunkLen - 1
    BY <1>1, <2>1, SMT
  <2> HIDE DEF x
  <2>3. QED
    BY <1>1, <2>1, <2>2, SMT
<1>3. p \in Nat \ {0} /\ p <= x
  BY <1>2, RoundDownIsPower DEF PowerOfTwo
<1>4. left_subtree_len(n) = p * ChunkLen
  BY DEF left_subtree_len
<1> HIDE DEF p, x
<1>5. p * ChunkLen \in 1 .. n - 1
  BY <1>1, <1>2, <1>3, SMT
<1>6. (p * ChunkLen) \div ChunkLen = p
  BY <1>1, <1>3, MultipleDivided
<1> DEFINE l == p * ChunkLen
<1> HIDE DEF l
<1>7. l \in 0 .. n - 1 /\ n - l \in 0 .. n - 1
  BY <1>5, SMT DEF l
<1>8. QED
  BY <1>3, <1>4, <1>6, <1>7 DEF l

\* The outputs of the subtrees of n bytes, from those of shorter ones.
Node(key, flags, g, n) ==
  IF n <= ChunkLen THEN [c \in Nat |-> ChunkOutput(key, flags, c, n)]
  ELSE LET l == left_subtree_len(n)
       IN  [c \in Nat |-> parent_output(output_chaining_value(g[l][c]),
                                        output_chaining_value(g[n - l][c + (l \div ChunkLen)]),
                                        key, flags)]

\* A node depends on the trees over shorter inputs only.
LEMMA NodeOfShorter ==
  ASSUME NEW key, NEW flags, NEW n \in Nat, NEW f, NEW g, \A i \in 0 .. n - 1 : f[i] = g[i]
  PROVE  Node(key, flags, f, n) = Node(key, flags, g, n)
<1>1. CASE n <= ChunkLen
  BY <1>1 DEF Node
<1>2. CASE ~ (n <= ChunkLen)
  <2> DEFINE l == left_subtree_len(n)
  <2>1. n > ChunkLen
    BY <1>2, HashTreeAssumption, SMT
  <2>2. f[l] = g[l] /\ f[n - l] = g[n - l]
    BY <2>1, LeftSubtree
  <2> HIDE DEF l
  <2>3. QED
    BY <1>2, <2>2, Zenon DEF Node, l
<1>3. QED
  BY <1>1, <1>2

\* What f satisfies if it is the beginning of that recursion.
Begins(key, flags, f, m) == \A n \in 0 .. m : f[n] = Node(key, flags, f, n)

\* Two beginnings of the recursion agree as far as both go.
LEMMA BeginningsAgree ==
  ASSUME NEW key, NEW flags, NEW m \in Nat, NEW p \in Nat, NEW f, NEW g,
         Begins(key, flags, f, m), Begins(key, flags, g, p)
  PROVE  \A n \in 0 .. m : n <= p => f[n] = g[n]
<1> DEFINE P == {n \in Nat : n <= m /\ n <= p => f[n] = g[n]}
<1>1. ASSUME NEW n \in Nat, \A k \in 0 .. n - 1 : k \in P
      PROVE  n \in P
  <2> SUFFICES ASSUME n <= m, n <= p
               PROVE  f[n] = g[n]
    OBVIOUS
  <2>1. n \in 0 .. m /\ n \in 0 .. p /\ \A k \in 0 .. n - 1 : k <= m /\ k <= p
    BY SMT
  <2>2. \A k \in 0 .. n - 1 : f[k] = g[k]
    BY <1>1, <2>1
  <2>3. Node(key, flags, f, n) = Node(key, flags, g, n)
    BY <2>2, NodeOfShorter
  <2>4. f[n] = Node(key, flags, f, n)
    BY <2>1 DEF Begins
  <2>5. g[n] = Node(key, flags, g, n)
    BY <2>1 DEF Begins
  <2>6. QED
    BY <2>3, <2>4, <2>5
<1>2. \A n \in Nat : n \in P
  BY <1>1, StrongInduction
<1> HIDE DEF P
<1>3. \A n \in 0 .. m : n \in P /\ n <= m
  BY <1>2, SMT
<1>4. QED
  BY <1>3 DEF P

\* The recursion has a beginning of every length.
LEMMA BeginningExists ==
  ASSUME NEW key, NEW flags, NEW m \in Nat
  PROVE  \E f : f = [n \in 0 .. m |-> Node(key, flags, f, n)]
<1> DEFINE P == {p \in Nat : \E f : f = [n \in 0 .. p |-> Node(key, flags, f, n)]}
<1>1. ASSUME NEW p \in Nat, \A k \in 0 .. p - 1 : k \in P
      PROVE  p \in P
  <2>1. \E f : \A n \in 0 .. p - 1 : f[n] = Node(key, flags, f, n)
    <3>1. CASE p = 0
      <4>1. 0 .. p - 1 = {}
        BY <3>1, SMT
      <4>2. QED
        BY <4>1
    <3>2. CASE p # 0
      <4>1. p - 1 \in 0 .. p - 1
        BY <3>2, SMT
      <4>2. PICK f : f = [n \in 0 .. p - 1 |-> Node(key, flags, f, n)]
        BY <1>1, <4>1
      <4>3. ASSUME NEW n \in 0 .. p - 1
            PROVE  f[n] = Node(key, flags, f, n)
        BY <4>2
      <4>4. QED
        BY <4>3
    <3>3. QED
      BY <3>1, <3>2
  <2>2. PICK f : \A n \in 0 .. p - 1 : f[n] = Node(key, flags, f, n)
    BY <2>1
  <2> DEFINE g == [n \in 0 .. p |-> Node(key, flags, f, n)]
  <2>3. ASSUME NEW n \in 0 .. p
        PROVE  Node(key, flags, g, n) = Node(key, flags, f, n)
    <3>1. n \in Nat /\ \A i \in 0 .. n - 1 : i \in 0 .. p - 1 /\ i \in 0 .. p
      BY SMT
    <3>2. \A i \in 0 .. n - 1 : g[i] = f[i]
      BY <2>2, <3>1
    <3> HIDE DEF g
    <3>3. QED
      BY <3>1, <3>2, NodeOfShorter
  <2>4. g = [n \in 0 .. p |-> Node(key, flags, g, n)]
    <3> DEFINE a(n) == Node(key, flags, g, n)
               b(n) == Node(key, flags, f, n)
    <3>1. \A n \in 0 .. p : a(n) = b(n)
      BY <2>3
    <3>2. g = [n \in 0 .. p |-> b(n)]
      OBVIOUS
    <3> HIDE DEF a, b, g
    <3>3. g = [n \in 0 .. p |-> a(n)]
      BY <3>1, <3>2
    <3>4. QED
      BY <3>3 DEF a
  <2> HIDE DEF g
  <2>5. QED
    BY <2>4
<1>2. \A p \in Nat : p \in P
  BY <1>1, StrongInduction
<1>3. QED
  BY <1>2

\* The recursion of TreeOutput defines a function.
LEMMA TreeExists ==
  ASSUME NEW key, NEW flags
  PROVE  \E f : f = [n \in Nat |-> Node(key, flags, f, n)]
<1> DEFINE Is(f, m) == f = [n \in 0 .. m |-> Node(key, flags, f, n)]
           F(m) == CHOOSE f : Is(f, m)
           h == [n \in Nat |-> F(n)[n]]
<1>1. \A m \in Nat : Begins(key, flags, F(m), m)
  <2> SUFFICES ASSUME NEW m \in Nat
               PROVE  Begins(key, flags, F(m), m)
    OBVIOUS
  <2>1. Is(F(m), m)
    BY BeginningExists
  <2> HIDE DEF F
  <2>2. QED
    BY <2>1 DEF Begins
<1> HIDE DEF F, Is
<1>2. ASSUME NEW n \in Nat
      PROVE  h[n] = Node(key, flags, h, n)
  <2>1. ASSUME NEW i \in 0 .. n - 1
        PROVE  h[i] = F(n)[i]
    <3>1. i \in Nat /\ i \in 0 .. i /\ i <= n
      BY SMT
    <3>2. Begins(key, flags, F(i), i) /\ Begins(key, flags, F(n), n)
      BY <1>1, <3>1
    <3> DEFINE f == F(i)
               g == F(n)
    <3> HIDE DEF f, g
    <3>3. \A j \in 0 .. i : j <= n => f[j] = g[j]
      <4>1. Begins(key, flags, f, i) /\ Begins(key, flags, g, n)
        BY <3>2 DEF f, g
      <4>2. QED
        BY <3>1, <4>1, BeginningsAgree, SMTT(30)
    <3>4. QED
      BY <3>1, <3>3 DEF f, g
  <2> HIDE DEF h
  <2>2. Node(key, flags, h, n) = Node(key, flags, F(n), n)
    BY <2>1, NodeOfShorter
  <2>3. n \in 0 .. n
    BY SMT
  <2>4. F(n)[n] = Node(key, flags, F(n), n)
    BY <1>1, <2>3 DEF Begins
  <2>5. QED
    BY <2>2, <2>4 DEF h
<1>3. h = [n \in Nat |-> Node(key, flags, h, n)]
  <2> DEFINE a(n) == Node(key, flags, h, n)
             b(n) == F(n)[n]
  <2>1. \A n \in Nat : a(n) = b(n)
    <3> HIDE DEF a
    <3>1. \A n \in Nat : h[n] = b(n)
      OBVIOUS
    <3> HIDE DEF b, h
    <3>2. \A n \in Nat : h[n] = a(n)
      BY <1>2 DEF a
    <3>3. QED
      BY <3>1, <3>2
  <2>2. h = [n \in Nat |-> b(n)]
    OBVIOUS
  <2> HIDE DEF a, b, h
  <2>3. h = [n \in Nat |-> a(n)]
    BY <2>1, <2>2
  <2>4. QED
    BY <2>3 DEF a
<1> HIDE DEF h
<1>4. QED
  BY <1>3

\* A subtree is a chunk, or a parent over its left and right sides.
THEOREM TreeOutputRecursion ==
  ASSUME NEW key, NEW flags, NEW c \in Nat, NEW n \in Nat
  PROVE  /\ n <= ChunkLen => TreeOutput(key, flags, c, n) = ChunkOutput(key, flags, c, n)
         /\ n > ChunkLen =>
              LET l == left_subtree_len(n)
              IN  TreeOutput(key, flags, c, n) =
                    parent_output(SubtreeCV(key, flags, c, l),
                                  SubtreeCV(key, flags, c + (l \div ChunkLen), n - l), key, flags)
<1> DEFINE T == CHOOSE f : f = [m \in Nat |-> Node(key, flags, f, m)]
<1>1. T = [m \in Nat |-> Node(key, flags, T, m)]
  BY TreeExists
<1>2. \A d, m : TreeOutput(key, flags, d, m) = T[m][d]
  BY DEF TreeOutput, Node
<1> HIDE DEF T
<1>3. \A m \in Nat : T[m] = Node(key, flags, T, m)
  BY <1>1
<1>4. CASE n <= ChunkLen
  <2>1. T[n][c] = ChunkOutput(key, flags, c, n)
    BY <1>3, <1>4 DEF Node
  <2>2. ~ (n > ChunkLen)
    BY <1>4, HashTreeAssumption, SMT
  <2>3. QED
    BY <1>2, <2>1, <2>2
<1>5. CASE n > ChunkLen
  <2> DEFINE l == left_subtree_len(n)
  <2>1. l \in 0 .. n - 1 /\ n - l \in 0 .. n - 1 /\ l \div ChunkLen \in Nat
    BY <1>5, LeftSubtree
  <2> HIDE DEF l
  <2>2. ~ (n <= ChunkLen)
    BY <1>5, HashTreeAssumption, SMT
  <2>3. T[n][c] = parent_output(output_chaining_value(T[l][c]),
                                output_chaining_value(T[n - l][c + (l \div ChunkLen)]), key, flags)
    BY <1>3, <2>2 DEF Node, l
  <2>4. QED
    BY <1>2, <2>2, <2>3 DEF SubtreeCV, l
<1>6. QED
  BY <1>4, <1>5, HashTreeAssumption, SMT

\* A number is rounded down to the power of two that is at most it and more
\* than half of it.
LEMMA RoundedDown ==
  ASSUME NEW a, PowerOfTwo(a), NEW x \in Nat, a <= x, x < 2 * a
  PROVE  round_down_to_power_of_2[x] = a
<1> DEFINE p == round_down_to_power_of_2[x]
<1>1. a \in Nat \ {0} /\ x \in Nat \ {0}
  BY SMT DEF PowerOfTwo
<1>2. PowerOfTwo(p) /\ p <= x /\ x < 2 * p /\ p \in Nat \ {0}
  BY <1>1, RoundDownIsPower DEF PowerOfTwo
<1> HIDE DEF p
<1>3. 0 % p = 0 /\ 0 % a = 0 /\ 0 \in Nat
  BY <1>1, <1>2, SMT
<1>4. ~ (a < p)
  <2>1. a < p => 2 * a <= p
    BY <1>2, <1>3, SmallerPowers
  <2>2. QED
    BY <1>1, <1>2, <2>1, SMT
<1>5. ~ (p < a)
  <2>1. p < a => 2 * p <= a
    BY <1>2, <1>3, SmallerPowers
  <2>2. QED
    BY <1>1, <1>2, <2>1, SMT
<1>6. QED
  BY <1>1, <1>2, <1>4, <1>5, SMT DEF p

\* A tree of more than a chunks and at most 2 * a, for a power of two a, has a
\* left side of a chunks.
THEOREM TreeOfSides ==
  ASSUME NEW key, NEW flags, NEW c \in Nat, NEW a, PowerOfTwo(a), NEW n \in Nat,
         a * ChunkLen < n, n <= 2 * (a * ChunkLen)
  PROVE  TreeOutput(key, flags, c, n) =
           parent_output(SubtreeCV(key, flags, c, a * ChunkLen),
                         SubtreeCV(key, flags, c + a, n - a * ChunkLen), key, flags)
<1> DEFINE x == (n - 1) \div ChunkLen
           m == a * ChunkLen
<1>1. ChunkLen \in Nat \ {0} /\ a \in Nat \ {0}
  BY HashTreeAssumption DEF PowerOfTwo
<1>2. m \in Nat /\ m \div ChunkLen = a /\ m >= ChunkLen
  <2>1. m \in Nat /\ m \div ChunkLen = a
    BY <1>1, MultipleDivided
  <2>2. m >= ChunkLen
    BY <1>1, SMT
  <2>3. QED
    BY <2>1, <2>2
<1>3. n > ChunkLen
  <2> HIDE DEF m
  <2>1. n > m
    BY SMT DEF m
  <2>2. QED
    BY <1>1, <1>2, <2>1, SMT
<1>4. x \in Nat /\ a <= x /\ x < 2 * a
  <2> DEFINE y == n - 1
  <2>1. y \in Nat /\ m <= y /\ y < 2 * m
    <3>1. m < n /\ n <= 2 * m
      OBVIOUS
    <3> HIDE DEF m
    <3>2. QED
      BY <1>2, <3>1, SMT
  <2>2. x = y \div ChunkLen
    OBVIOUS
  <2> HIDE DEF x, y
  <2>3. x \in Nat /\ y = ChunkLen * x + (y % ChunkLen) /\ (y % ChunkLen) \in 0 .. ChunkLen - 1
    BY <1>1, <2>1, <2>2, SMT
  <2>4. a <= x
    BY <1>1, <2>1, <2>3, SMT
  <2>5. x < 2 * a
    BY <1>1, <2>1, <2>3, SMT
  <2>6. QED
    BY <2>3, <2>4, <2>5
<1>5. left_subtree_len(n) = m
  <2>1. left_subtree_len(n) = round_down_to_power_of_2[x] * ChunkLen
    BY DEF left_subtree_len
  <2> HIDE DEF x
  <2>2. round_down_to_power_of_2[x] = a
    BY <1>4, RoundedDown
  <2>3. QED
    BY <2>1, <2>2
<1> HIDE DEF m
<1>6. TreeOutput(key, flags, c, n) =
        parent_output(SubtreeCV(key, flags, c, m), SubtreeCV(key, flags, c + a, n - m), key, flags)
  BY <1>2, <1>3, <1>5, TreeOutputRecursion
<1>7. QED
  BY <1>6 DEF m

-----------------------------------------------------------------------------
(* The chunk state. *)

\* A chunk state, with a buffer of at most a block.
ChunkOK(ch) ==
  \E cv, flags, from : \E counter, blocks \in Nat : \E len \in 0 .. BlockLen :
    ch = [cv |-> cv, counter |-> counter, blocks |-> blocks,
          buf |-> DataBlock(from, len), flags |-> flags]

\* The fields of a chunk state, and the bytes it has absorbed.
LEMMA ChunkTypes ==
  ASSUME NEW ch, ChunkOK(ch)
  PROVE  ch.counter \in Nat /\ ch.blocks \in Nat /\ ch.buf.len \in 0 .. BlockLen
         /\ chunk_state_len(ch) \in Nat /\ chunk_state_len(ch) = BlockLen * ch.blocks + ch.buf.len
<1>1. ch.counter \in Nat /\ ch.blocks \in Nat /\ ch.buf.len \in 0 .. BlockLen
  BY DEF ChunkOK, DataBlock
<1>2. QED
  BY <1>1, HashTreeAssumption, SMT DEF chunk_state_len

\* A chunk state that has just been initialised holds nothing.
LEMMA FreshChunk ==
  ASSUME NEW cv, NEW counter \in Nat, NEW flags
  PROVE  LET ch == chunk_state_init(cv, counter, flags)
         IN  ChunkOK(ch) /\ ch.counter = counter /\ chunk_state_len(ch) = 0
<1> DEFINE ch == chunk_state_init(cv, counter, flags)
<1>1. ch = [cv |-> cv, counter |-> counter, blocks |-> 0, buf |-> DataBlock(0, 0), flags |-> flags]
  BY DEF chunk_state_init, EmptyBuf
<1>2. 0 \in 0 .. BlockLen /\ 0 \in Nat
  BY HashTreeAssumption, SMT
<1>3. ChunkOK(ch)
  BY <1>1, <1>2 DEF ChunkOK
<1>4. ch.counter = counter /\ ch.blocks = 0 /\ ch.buf.len = 0
  BY <1>1 DEF DataBlock
<1>5. chunk_state_len(ch) = 0
  BY <1>4, HashTreeAssumption, SMT DEF chunk_state_len
<1>6. QED
  BY <1>3, <1>4, <1>5

\* Copying into the buffer changes nothing but the buffer.
LEMMA FilledChunk ==
  ASSUME NEW ch, ChunkOK(ch), NEW from, NEW n \in Nat
  PROVE  LET filled == chunk_state_fill_buf(ch, from, n)
         IN  /\ ChunkOK(filled)
             /\ filled.counter = ch.counter /\ filled.blocks = ch.blocks
             /\ filled.buf.len = ch.buf.len + AtMost(BlockLen - ch.buf.len, n)
<1> DEFINE filled == chunk_state_fill_buf(ch, from, n)
           len == ch.buf.len + AtMost(BlockLen - ch.buf.len, n)
           first == IF ch.buf.len = 0 THEN from ELSE ch.buf.from
<1>1. len \in 0 .. BlockLen
  BY ChunkTypes, HashTreeAssumption, SMT DEF AtMost
<1>2. filled = [cv |-> ch.cv, counter |-> ch.counter, blocks |-> ch.blocks,
                buf |-> DataBlock(first, len), flags |-> ch.flags]
  BY DEF chunk_state_fill_buf, ChunkOK, DataBlock
<1> HIDE DEF len, first
<1>3. ch.counter \in Nat /\ ch.blocks \in Nat
  BY ChunkTypes
<1>4. ChunkOK(filled)
  BY <1>1, <1>2, <1>3 DEF ChunkOK
<1>5. filled.counter = ch.counter /\ filled.blocks = ch.blocks /\ filled.buf.len = len
  BY <1>2 DEF DataBlock
<1>6. QED
  BY <1>4, <1>5 DEF len

\* Compressing whole blocks empties the buffer and counts them.
LEMMA CompressedChunk ==
  ASSUME NEW ch, ChunkOK(ch), NEW from, NEW k \in Nat
  PROVE  LET after == after_blocks(ch, from, k)
         IN  /\ ChunkOK(after)
             /\ after.counter = ch.counter /\ after.blocks = ch.blocks + k /\ after.buf.len = 0
<1> DEFINE after == after_blocks(ch, from, k)
<1>1. after = [cv |-> compress_blocks(ch, from, k), counter |-> ch.counter,
               blocks |-> ch.blocks + k, buf |-> DataBlock(0, 0), flags |-> ch.flags]
  <2> DEFINE run == compress_blocks(ch, from, k)
             blocks == ch.blocks + k
  <2>1. after = [ch EXCEPT !.cv = run, !.blocks = blocks, !.buf = DataBlock(0, 0)]
    BY DEF after_blocks, EmptyBuf
  <2> HIDE DEF run, blocks, after
  <2>2. after = [cv |-> run, counter |-> ch.counter, blocks |-> blocks,
                 buf |-> DataBlock(0, 0), flags |-> ch.flags]
    BY <2>1 DEF ChunkOK
  <2>3. QED
    BY <2>2 DEF run, blocks
<1>2. ch.counter \in Nat /\ ch.blocks + k \in Nat /\ 0 \in 0 .. BlockLen
  BY ChunkTypes, HashTreeAssumption, SMT
<1>3. ChunkOK(after)
  BY <1>1, <1>2 DEF ChunkOK
<1>4. after.counter = ch.counter /\ after.blocks = ch.blocks + k /\ after.buf.len = 0
  BY <1>1 DEF DataBlock
<1>5. QED
  BY <1>3, <1>4

\* The whole blocks compressed and the block held back are the input.
LEMMA BlocksOfInput ==
  ASSUME NEW left \in Nat
  PROVE  LET whole == IF left > BlockLen THEN (left - 1) \div BlockLen ELSE 0
         IN  /\ whole \in Nat
             /\ left - whole * BlockLen \in 0 .. BlockLen
<1>1. CASE left > BlockLen
  <2> DEFINE whole == (left - 1) \div BlockLen
  <2>1. left - 1 \in Nat /\ BlockLen \in Nat \ {0}
    BY <1>1, HashTreeAssumption, SMT
  <2>2. whole \in Nat /\ left - 1 = BlockLen * whole + ((left - 1) % BlockLen)
        /\ (left - 1) % BlockLen \in 0 .. BlockLen - 1
    BY <2>1, SMT
  <2> HIDE DEF whole
  <2>3. left - whole * BlockLen \in 0 .. BlockLen
    BY <2>1, <2>2, SMT
  <2>4. QED
    BY <1>1, <2>2, <2>3 DEF whole
<1>2. CASE ~ (left > BlockLen)
  BY <1>2, HashTreeAssumption, SMT
<1>3. QED
  BY <1>1, <1>2

\* Absorbing n bytes makes the chunk n bytes longer, whatever the buffer held.
THEOREM UpdatedChunk ==
  ASSUME NEW ch, ChunkOK(ch), NEW from \in Nat, NEW n \in Nat
  PROVE  LET new == chunk_state_update(ch, from, n)
         IN  /\ ChunkOK(new)
             /\ new.counter = ch.counter
             /\ chunk_state_len(new) = chunk_state_len(ch) + n
<1> DEFINE take   == IF ch.buf.len > 0 THEN AtMost(BlockLen - ch.buf.len, n) ELSE 0
           filled == IF ch.buf.len > 0 THEN chunk_state_fill_buf(ch, from, n) ELSE ch
           left   == n - take
           flushed == IF ch.buf.len > 0 /\ left > 0
                      THEN after_blocks(filled, filled.buf.from, 1) ELSE filled
           whole  == IF left > BlockLen THEN (left - 1) \div BlockLen ELSE 0
           run    == IF whole > 0 THEN after_blocks(flushed, from + take, whole) ELSE flushed
           rest   == left - whole * BlockLen
           new    == chunk_state_fill_buf(run, from + take + whole * BlockLen, rest)
<1>1. chunk_state_update(ch, from, n) = new
  BY DEF chunk_state_update
<1>2. ch.blocks \in Nat /\ ch.buf.len \in 0 .. BlockLen /\ BlockLen \in Nat \ {0}
  BY ChunkTypes, HashTreeAssumption
<1>3. take \in Nat /\ left \in Nat /\ n = take + left
      /\ (left > 0 /\ ch.buf.len > 0 => ch.buf.len + take = BlockLen)
      /\ ch.buf.len + take \in 0 .. BlockLen
  <2> DEFINE held == ch.buf.len
  <2>1. held \in 0 .. BlockLen /\ n \in Nat
    BY <1>2
  <2>2. take = IF held > 0 THEN IF BlockLen - held < n THEN BlockLen - held ELSE n ELSE 0
    BY DEF AtMost
  <2> HIDE DEF take, held
  <2>3. /\ take \in Nat /\ n - take \in Nat
        /\ n - take > 0 /\ held > 0 => held + take = BlockLen
        /\ held + take \in 0 .. BlockLen
    BY <1>2, <2>1, <2>2, SMT
  <2>4. n = take + (n - take)
    BY <2>1, <2>3, SMT
  <2>5. QED
    BY <2>3, <2>4 DEF held
<1>4. ChunkOK(filled) /\ filled.counter = ch.counter /\ filled.blocks = ch.blocks
      /\ filled.buf.len = ch.buf.len + take
  BY <1>2, FilledChunk, SMT
<1> HIDE DEF take, filled, left
<1>5. /\ ChunkOK(flushed) /\ flushed.counter = ch.counter
      /\ left > 0 => flushed.buf.len = 0
      /\ BlockLen * flushed.blocks + flushed.buf.len
           = BlockLen * ch.blocks + ch.buf.len + take
  <2>1. CASE ch.buf.len > 0 /\ left > 0
    <3>1. /\ ChunkOK(flushed) /\ flushed.counter = ch.counter
          /\ flushed.blocks = ch.blocks + 1 /\ flushed.buf.len = 0
      BY <2>1, <1>4, CompressedChunk
    <3>2. QED
      BY <1>2, <1>3, <2>1, <3>1, SMT
  <2>2. CASE ~ (ch.buf.len > 0 /\ left > 0)
    <3>1. flushed = filled
      BY <2>2
    <3>2. left > 0 => take = 0
      BY <1>2, <2>2 DEF take
    <3>3. QED
      BY <1>2, <1>3, <1>4, <2>2, <3>1, <3>2, SMT
  <2>3. QED
    BY <2>1, <2>2
<1> HIDE DEF flushed
<1>6. whole \in Nat /\ rest \in 0 .. BlockLen /\ (whole > 0 => left > 0)
      /\ left = BlockLen * whole + rest /\ (left = 0 => rest = 0)
  <2>1. whole \in Nat /\ rest \in 0 .. BlockLen
    BY <1>3, BlocksOfInput
  <2>2. whole > 0 => left > 0
    BY <1>2, <1>3, SMT
  <2> HIDE DEF whole
  <2>3. left = BlockLen * whole + rest
    BY <1>2, <1>3, <2>1, SMT
  <2>4. left = 0 => rest = 0
    BY <1>2, <1>3, <2>1, <2>2, SMT
  <2>5. QED
    BY <2>1, <2>2, <2>3, <2>4
<1> HIDE DEF whole, rest
<1>7. /\ ChunkOK(run) /\ run.counter = ch.counter
      /\ left > 0 => run.buf.len = 0
      /\ BlockLen * run.blocks + run.buf.len
           = BlockLen * ch.blocks + ch.buf.len + take + BlockLen * whole
  <2>1. CASE whole > 0
    <3>1. /\ ChunkOK(run) /\ run.counter = flushed.counter
          /\ run.blocks = flushed.blocks + whole /\ run.buf.len = 0
      BY <1>5, <1>6, <2>1, CompressedChunk
    <3>2. flushed.blocks \in Nat
      BY <1>5, ChunkTypes
    <3>3. QED
      BY <1>2, <1>3, <1>5, <1>6, <2>1, <3>1, <3>2, SMT
  <2>2. CASE ~ (whole > 0)
    <3>1. run = flushed /\ whole = 0
      BY <1>6, <2>2, SMT
    <3>2. QED
      BY <1>2, <1>3, <1>5, <3>1, SMT
  <2>3. QED
    BY <2>1, <2>2
<1> HIDE DEF run
<1>8. /\ ChunkOK(new) /\ new.counter = run.counter /\ new.blocks = run.blocks
      /\ new.buf.len = run.buf.len + AtMost(BlockLen - run.buf.len, rest)
  <2>1. rest \in Nat
    BY <1>2, <1>6, SMT
  <2>2. QED
    BY <1>7, <2>1, FilledChunk
<1>9. new.buf.len = run.buf.len + rest
  <2>1. run.buf.len \in 0 .. BlockLen
    BY <1>7, ChunkTypes
  <2>2. QED
    BY <1>2, <1>3, <1>6, <1>7, <1>8, <2>1, SMT DEF AtMost
<1> HIDE DEF new
<1>10. chunk_state_len(new) = chunk_state_len(ch) + n
  <2>1. run.blocks \in Nat /\ run.buf.len \in Nat
    BY <1>2, <1>7, ChunkTypes, SMT
  <2>2. chunk_state_len(new) = BlockLen * run.blocks + run.buf.len + rest
    BY <1>2, <1>6, <1>8, <1>9, <2>1, SMT DEF chunk_state_len
  <2>3. BlockLen * ch.blocks \in Nat /\ BlockLen * whole \in Nat /\ BlockLen * run.blocks \in Nat
    BY <1>2, <1>6, <2>1, SMT
  <2>4. QED
    BY <1>2, <1>3, <1>6, <1>7, <2>1, <2>2, <2>3, SMT DEF chunk_state_len
<1>11. QED
  BY <1>1, <1>7, <1>8, <1>10

-----------------------------------------------------------------------------
(* The chaining values of a chunk. *)

\* The chaining value after i blocks, from the ones before.
Linked(ch, from, g, i) ==
  IF i = 0 THEN ch.cv
  ELSE output_chaining_value(
         make_output(g[i - 1], DataBlock(from + (i - 1) * BlockLen, BlockLen), BlockLen,
                     ch.counter, ch.flags \cup start_flag(ch.blocks + i - 1)))

Links(ch, from, f, k) == \A i \in 0 .. k : f[i] = Linked(ch, from, f, i)

\* Two chains of compressions that begin alike agree as far as both go.
LEMMA LinksAgree ==
  ASSUME NEW ch, NEW from, NEW m \in Nat, NEW p \in Nat, NEW f, NEW g,
         Links(ch, from, f, m), Links(ch, from, g, p), m <= p
  PROVE  f[m] = g[m]
<1> DEFINE P == {i \in Nat : i <= m => f[i] = g[i]}
<1>1. ASSUME NEW i \in Nat, \A k \in 0 .. i - 1 : k \in P
      PROVE  i \in P
  <2> SUFFICES ASSUME i <= m
               PROVE  f[i] = g[i]
    OBVIOUS
  <2>1. i \in 0 .. m /\ i \in 0 .. p
    BY SMT
  <2>2. f[i] = Linked(ch, from, f, i)
    BY <2>1 DEF Links
  <2>3. g[i] = Linked(ch, from, g, i)
    BY <2>1 DEF Links
  <2>4. CASE i = 0
    BY <2>2, <2>3, <2>4 DEF Linked
  <2>5. CASE i # 0
    <3>1. i - 1 \in 0 .. i - 1 /\ i - 1 <= m
      BY <2>5, SMT
    <3>2. f[i - 1] = g[i - 1]
      BY <1>1, <3>1
    <3>3. Linked(ch, from, f, i) = Linked(ch, from, g, i)
      BY <2>5, <3>2, Zenon DEF Linked
    <3>4. QED
      BY <2>2, <2>3, <3>3
  <2>6. QED
    BY <2>4, <2>5
<1>2. \A i \in Nat : i \in P
  BY <1>1, StrongInduction
<1>3. m \in P /\ m <= m
  BY <1>2, SMT
<1>4. QED
  BY <1>3

\* The recursion of compress_blocks defines a function.
LEMMA LinksExist ==
  ASSUME NEW ch, NEW from, NEW m \in Nat
  PROVE  \E f : f = [i \in 0 .. m |-> Linked(ch, from, f, i)]
<1> DEFINE P == {p \in Nat : \E f : f = [i \in 0 .. p |-> Linked(ch, from, f, i)]}
<1>1. ASSUME NEW p \in Nat, \A k \in 0 .. p - 1 : k \in P
      PROVE  p \in P
  <2>1. \E f : \A i \in 0 .. p - 1 : f[i] = Linked(ch, from, f, i)
    <3>1. CASE p = 0
      <4>1. 0 .. p - 1 = {}
        BY <3>1, SMT
      <4>2. QED
        BY <4>1
    <3>2. CASE p # 0
      <4>1. p - 1 \in 0 .. p - 1
        BY <3>2, SMT
      <4>2. PICK f : f = [i \in 0 .. p - 1 |-> Linked(ch, from, f, i)]
        BY <1>1, <4>1
      <4>3. ASSUME NEW i \in 0 .. p - 1
            PROVE  f[i] = Linked(ch, from, f, i)
        BY <4>2
      <4>4. QED
        BY <4>3
    <3>3. QED
      BY <3>1, <3>2
  <2>2. PICK f : \A i \in 0 .. p - 1 : f[i] = Linked(ch, from, f, i)
    BY <2>1
  <2> DEFINE g == [i \in 0 .. p |-> Linked(ch, from, f, i)]
  <2>3. ASSUME NEW i \in 0 .. p
        PROVE  Linked(ch, from, g, i) = Linked(ch, from, f, i)
    <3>1. CASE i = 0
      BY <3>1 DEF Linked
    <3>2. CASE i # 0
      <4>1. i - 1 \in 0 .. p - 1 /\ i - 1 \in 0 .. p
        BY <3>2, SMT
      <4>2. g[i - 1] = f[i - 1]
        BY <2>2, <4>1
      <4> HIDE DEF g
      <4>3. QED
        BY <3>2, <4>2, Zenon DEF Linked
    <3>3. QED
      BY <3>1, <3>2
  <2>4. g = [i \in 0 .. p |-> Linked(ch, from, g, i)]
    <3> DEFINE a(i) == Linked(ch, from, g, i)
               b(i) == Linked(ch, from, f, i)
    <3>1. \A i \in 0 .. p : a(i) = b(i)
      BY <2>3
    <3>2. g = [i \in 0 .. p |-> b(i)]
      OBVIOUS
    <3> HIDE DEF a, b, g
    <3>3. g = [i \in 0 .. p |-> a(i)]
      BY <3>1, <3>2
    <3>4. QED
      BY <3>3 DEF a
  <2> HIDE DEF g
  <2>5. QED
    BY <2>4
<1>2. \A p \in Nat : p \in P
  BY <1>1, StrongInduction
<1>3. QED
  BY <1>2

\* compress_blocks is the last link of a chain.
LEMMA CompressedIsLink ==
  ASSUME NEW ch, NEW from, NEW k \in Nat
  PROVE  \E f : Links(ch, from, f, k) /\ compress_blocks(ch, from, k) = f[k]
<1> DEFINE F == CHOOSE f : f = [i \in 0 .. k |-> Linked(ch, from, f, i)]
<1>1. F = [i \in 0 .. k |-> Linked(ch, from, F, i)]
  BY LinksExist
<1>2. compress_blocks(ch, from, k) = F[k]
  BY DEF compress_blocks, Linked
<1> HIDE DEF F
<1>3. Links(ch, from, F, k)
  <2>1. ASSUME NEW i \in 0 .. k
        PROVE  F[i] = Linked(ch, from, F, i)
    BY <1>1
  <2>2. QED
    BY <2>1 DEF Links
<1>4. QED
  BY <1>2, <1>3

\* compress_blocks takes one block after the other.
LEMMA CompressNext ==
  ASSUME NEW ch, ch.blocks \in Nat, NEW from, NEW k \in Nat
  PROVE  /\ compress_blocks(ch, from, 0) = ch.cv
         /\ compress_blocks(ch, from, k + 1) =
              output_chaining_value(
                make_output(compress_blocks(ch, from, k),
                            DataBlock(from + k * BlockLen, BlockLen), BlockLen, ch.counter,
                            ch.flags \cup start_flag(ch.blocks + k)))
<1>1. compress_blocks(ch, from, 0) = ch.cv
  <2>1. PICK f : Links(ch, from, f, 0) /\ compress_blocks(ch, from, 0) = f[0]
    BY CompressedIsLink
  <2>2. 0 \in 0 .. 0
    BY SMT
  <2>3. QED
    BY <2>1, <2>2 DEF Links, Linked
<1>2. PICK f : Links(ch, from, f, k) /\ compress_blocks(ch, from, k) = f[k]
  BY CompressedIsLink
<1>3. k + 1 \in Nat /\ k <= k + 1 /\ k + 1 # 0 /\ k + 1 - 1 = k /\ k + 1 \in 0 .. k + 1
  BY SMT
<1>4. PICK g : Links(ch, from, g, k + 1) /\ compress_blocks(ch, from, k + 1) = g[k + 1]
  BY <1>3, CompressedIsLink
<1>5. f[k] = g[k]
  BY <1>2, <1>3, <1>4, LinksAgree
<1>6. g[k + 1] = Linked(ch, from, g, k + 1)
  BY <1>3, <1>4 DEF Links
<1>7. ch.blocks + (k + 1) - 1 = ch.blocks + k
  BY SMT
<1>8. QED
  BY <1>1, <1>2, <1>3, <1>4, <1>5, <1>6, <1>7 DEF Linked

\* Where block b of chunk c begins.
Position(c, b) == c * ChunkLen + b * BlockLen

\* The chaining value of the first b blocks of chunk c.
Chain(key, flags, c, b) == compress_blocks(chunk_state_init(key, c, flags), c * ChunkLen, b)

\* The chunk state after b whole blocks of chunk c, and what is in its buffer.
After(key, flags, c, b, buf) ==
  [cv |-> Chain(key, flags, c, b),
   counter |-> c, blocks |-> b, buf |-> buf, flags |-> flags]

\* Compressing j blocks more continues the chain.
LEMMA CompressMore ==
  ASSUME NEW key, NEW flags, NEW c \in Nat, NEW b \in Nat, NEW buf, NEW j \in Nat
  PROVE  compress_blocks(After(key, flags, c, b, buf), Position(c, b), j)
           = Chain(key, flags, c, b + j)
<1> DEFINE ch == After(key, flags, c, b, buf)
           init == chunk_state_init(key, c, flags)
           at == c * ChunkLen
           from == at + b * BlockLen
           P == {i \in Nat : compress_blocks(ch, from, i) = compress_blocks(init, at, b + i)}
<1>1. ch.cv = compress_blocks(init, at, b) /\ ch.counter = c /\ ch.blocks = b /\ ch.flags = flags
  BY DEF After, Chain
<1>2. init.counter = c /\ init.blocks = 0 /\ init.flags = flags
  BY DEF chunk_state_init
<1>3. at \in Nat /\ BlockLen \in Nat \ {0}
  BY HashTreeAssumption, SMT
<1>4. \A i \in Nat : from + i * BlockLen = at + (b + i) * BlockLen
  <2> HIDE DEF at
  <2>1. QED
    BY <1>3, SMT
<1> HIDE DEF ch, init, at, from
<1>5. ASSUME NEW i \in Nat, \A h \in 0 .. i - 1 : h \in P
      PROVE  i \in P
  <2>1. CASE i = 0
    <3>1. b + 0 = b
      BY SMT
    <3>2. compress_blocks(ch, from, 0) = ch.cv
      BY <1>1, CompressNext
    <3>3. QED
      BY <1>1, <2>1, <3>1, <3>2
  <2>2. CASE i # 0
    <3> DEFINE h == i - 1
    <3>1. h \in 0 .. i - 1 /\ h \in Nat /\ i = h + 1 /\ b + h \in Nat /\ b + i = (b + h) + 1
          /\ 0 + (b + h) = b + h
      BY <2>2, SMT
    <3> HIDE DEF h
    <3>2. compress_blocks(ch, from, h) = compress_blocks(init, at, b + h)
      BY <1>5, <3>1
    <3>3. compress_blocks(ch, from, h + 1) =
            output_chaining_value(
              make_output(compress_blocks(ch, from, h),
                          DataBlock(from + h * BlockLen, BlockLen), BlockLen, c,
                          flags \cup start_flag(b + h)))
      <4>1. ch.blocks \in Nat
        BY <1>1
      <4>2. compress_blocks(ch, from, h + 1) =
              output_chaining_value(
                make_output(compress_blocks(ch, from, h),
                            DataBlock(from + h * BlockLen, BlockLen), BlockLen, ch.counter,
                            ch.flags \cup start_flag(ch.blocks + h)))
        BY <3>1, <4>1, CompressNext
      <4>3. QED
        BY <1>1, <4>2
    <3> DEFINE m == b + h
    <3>4. m \in Nat /\ 0 + m = m
      BY <3>1
    <3> HIDE DEF m
    <3>5. compress_blocks(init, at, m + 1) =
            output_chaining_value(
              make_output(compress_blocks(init, at, m),
                          DataBlock(at + m * BlockLen, BlockLen), BlockLen, c,
                          flags \cup start_flag(m)))
      <4>1. init.blocks \in Nat
        BY <1>2
      <4>2. compress_blocks(init, at, m + 1) =
              output_chaining_value(
                make_output(compress_blocks(init, at, m),
                            DataBlock(at + m * BlockLen, BlockLen), BlockLen, init.counter,
                            init.flags \cup start_flag(init.blocks + m)))
        BY <3>4, <4>1, CompressNext
      <4>3. QED
        BY <1>2, <3>4, <4>2
    <3>6. from + h * BlockLen = at + (b + h) * BlockLen
      BY <1>4, <3>1
    <3>7. compress_blocks(ch, from, h + 1) = compress_blocks(init, at, m + 1)
      BY <3>2, <3>3, <3>5, <3>6 DEF m
    <3>8. QED
      BY <3>1, <3>7 DEF m
  <2>3. QED
    BY <2>1, <2>2
<1>6. \A i \in Nat : i \in P
  BY <1>5, StrongInduction
<1>7. QED
  BY <1>6 DEF ch, init, at, from, Position, Chain

\* after_blocks moves the chunk state on by as many blocks.
LEMMA AfterBlocks ==
  ASSUME NEW key, NEW flags, NEW c \in Nat, NEW b \in Nat, NEW buf, NEW j \in Nat
  PROVE  after_blocks(After(key, flags, c, b, buf), Position(c, b), j)
           = After(key, flags, c, b + j, EmptyBuf)
<1> DEFINE ch == After(key, flags, c, b, buf)
           from == Position(c, b)
           run == compress_blocks(ch, from, j)
           old == Chain(key, flags, c, b)
           blocks == b + j
<1>1. run = Chain(key, flags, c, blocks)
  BY CompressMore
<1>2. ch = [cv |-> old, counter |-> c, blocks |-> b, buf |-> buf, flags |-> flags]
  BY DEF After
<1>3. after_blocks(ch, from, j) = [ch EXCEPT !.cv = run, !.blocks = @ + j, !.buf = EmptyBuf]
  BY DEF after_blocks
<1> HIDE DEF run, old, ch
<1>4. ch.blocks + j = blocks
  BY <1>2
<1> HIDE DEF blocks
<1>5. after_blocks(ch, from, j)
        = [cv |-> run, counter |-> c, blocks |-> blocks, buf |-> EmptyBuf, flags |-> flags]
  BY <1>2, <1>3, <1>4
<1>6. QED
  BY <1>1, <1>5 DEF After, ch, blocks

\* The chunk state after len bytes of chunk c: the last block is held back.
Holding(key, flags, c, len) ==
  IF len = 0 THEN After(key, flags, c, 0, EmptyBuf)
  ELSE LET b == (len - 1) \div BlockLen
       IN  After(key, flags, c, b, DataBlock(Position(c, b), len - b * BlockLen))

\* The last block of a chunk holds between one byte and a whole block.
LEMMA LastBlock ==
  ASSUME NEW b \in Nat, NEW l \in 1 .. BlockLen, NEW len, len = b * BlockLen + l
  PROVE  len \in Nat \ {0} /\ (len - 1) \div BlockLen = b /\ len - b * BlockLen = l
<1>1. BlockLen \in Nat \ {0}
  BY HashTreeAssumption
<1>2. b * BlockLen \in Nat /\ b * BlockLen = BlockLen * b
  BY <1>1, MultipleDivided
<1>3. len \in Nat \ {0} /\ len - b * BlockLen = l
  BY <1>1, <1>2, SMT
<1> DEFINE x == len - 1
<1>4. x \in Nat /\ x = BlockLen * b + (l - 1) /\ l - 1 \in 0 .. BlockLen - 1
  BY <1>1, <1>2, SMT
<1> HIDE DEF x
<1>5. x \div BlockLen = b
  BY <1>1, <1>4, SMT
<1>6. QED
  BY <1>3, <1>5 DEF x

\* A chunk that is not empty has a last block.
LEMMA LastBlockExists ==
  ASSUME NEW len \in Nat \ {0}
  PROVE  \E b \in Nat : \E l \in 1 .. BlockLen : len = b * BlockLen + l
<1>1. BlockLen \in Nat \ {0}
  BY HashTreeAssumption
<1> DEFINE x == len - 1
           b == x \div BlockLen
           r == x % BlockLen
<1>2. x \in Nat /\ len = x + 1
  BY SMT
<1> HIDE DEF x
<1>3. b \in Nat /\ r \in 0 .. BlockLen - 1 /\ x = BlockLen * b + r
  BY <1>1, <1>2, SMT
<1> HIDE DEF b, r
<1>4. b * BlockLen = BlockLen * b
  BY <1>1, <1>3, MultipleDivided
<1>5. r + 1 \in 1 .. BlockLen /\ len = b * BlockLen + (r + 1)
  BY <1>1, <1>2, <1>3, <1>4, SMT
<1>6. QED
  BY <1>3, <1>5

\* What a chunk state holds, in terms of its last block.
LEMMA HoldingBlock ==
  ASSUME NEW key, NEW flags, NEW c \in Nat, NEW b \in Nat, NEW l \in 1 .. BlockLen,
         NEW len, len = b * BlockLen + l
  PROVE  Holding(key, flags, c, len) = After(key, flags, c, b, DataBlock(Position(c, b), l))
<1>1. len # 0 /\ (len - 1) \div BlockLen = b /\ len - b * BlockLen = l
  BY LastBlock
<1>2. QED
  BY <1>1, Zenon DEF Holding

\* A chunk state that has just been initialised holds no byte.
LEMMA HoldingNothing ==
  ASSUME NEW key, NEW flags, NEW c \in Nat
  PROVE  chunk_state_init(key, c, flags) = Holding(key, flags, c, 0)
<1>1. chunk_state_init(key, c, flags)
        = [cv |-> key, counter |-> c, blocks |-> 0, buf |-> EmptyBuf, flags |-> flags]
  BY DEF chunk_state_init
<1>2. Chain(key, flags, c, 0) = key
  <2> DEFINE init == chunk_state_init(key, c, flags)
  <2>1. init.cv = key /\ init.blocks \in Nat
    BY <1>1
  <2> HIDE DEF init
  <2>2. compress_blocks(init, c * ChunkLen, 0) = init.cv
    BY <2>1, CompressNext
  <2>3. QED
    BY <2>1, <2>2 DEF Chain, init
<1>3. QED
  BY <1>1, <1>2 DEF Holding, After

\* Bytes that fit in the buffer go there.
LEMMA FilledAfter ==
  ASSUME NEW key, NEW flags, NEW c \in Nat, NEW b \in Nat, NEW from,
         NEW l \in 0 .. BlockLen, NEW n \in Nat, l + n <= BlockLen, NEW at
  PROVE  chunk_state_fill_buf(After(key, flags, c, b, DataBlock(from, l)), at, n)
           = After(key, flags, c, b, DataBlock(IF l = 0 THEN at ELSE from, l + n))
<1> DEFINE cv == Chain(key, flags, c, b)
<1>1. AtMost(BlockLen - l, n) = n
  BY HashTreeAssumption, SMT DEF AtMost
<1>2. After(key, flags, c, b, DataBlock(from, l))
        = [cv |-> cv, counter |-> c, blocks |-> b, buf |-> [from |-> from, len |-> l], flags |-> flags]
  BY DEF After, DataBlock
<1> DEFINE ch == After(key, flags, c, b, DataBlock(from, l))
           new == DataBlock(IF l = 0 THEN at ELSE from, l + n)
<1> HIDE DEF cv, ch
<1>3. ch.buf.from = from /\ ch.buf.len = l
  BY <1>2 DEF ch
<1>4. chunk_state_fill_buf(ch, at, n) = [ch EXCEPT !.buf = new]
  <2> DEFINE x == DataBlock(IF ch.buf.len = 0 THEN at ELSE ch.buf.from,
                            ch.buf.len + AtMost(BlockLen - ch.buf.len, n))
  <2>1. chunk_state_fill_buf(ch, at, n) = [ch EXCEPT !.buf = x]
    BY DEF chunk_state_fill_buf
  <2>2. x = new
    BY <1>1, <1>3, Zenon
  <2> HIDE DEF x, new
  <2>3. QED
    BY <2>1, <2>2
<1> HIDE DEF new
<1>5. [ch EXCEPT !.buf = new]
        = [cv |-> cv, counter |-> c, blocks |-> b, buf |-> new, flags |-> flags]
  BY <1>2 DEF ch
<1>6. QED
  BY <1>4, <1>5 DEF After, cv, ch, new

\* The second half of chunk_state_update: whole blocks, and the rest in the buffer.
Absorbed(ch, at, left) ==
  LET whole == IF left > BlockLen THEN (left - 1) \div BlockLen ELSE 0
      run   == IF whole > 0 THEN after_blocks(ch, at, whole) ELSE ch
  IN  chunk_state_fill_buf(run, at + whole * BlockLen, left - whole * BlockLen)

\* With an empty buffer, the blocks before the last are compressed and the last
\* one is held back.
LEMMA RunHeld ==
  ASSUME NEW key, NEW flags, NEW c \in Nat, NEW b \in Nat, NEW left \in Nat \ {0},
         NEW at, at = Position(c, b)
  PROVE  Absorbed(After(key, flags, c, b, EmptyBuf), at, left)
           = Holding(key, flags, c, b * BlockLen + left)
<1> DEFINE ch    == After(key, flags, c, b, EmptyBuf)
           whole == IF left > BlockLen THEN (left - 1) \div BlockLen ELSE 0
           run   == IF whole > 0 THEN after_blocks(ch, at, whole) ELSE ch
           rest  == left - whole * BlockLen
           end   == b + whole
<1>1. BlockLen \in Nat \ {0} /\ left \in Nat
  BY HashTreeAssumption
<1>2. whole \in Nat /\ rest \in 0 .. BlockLen
  BY <1>1, BlocksOfInput
<1>3. rest \in 1 .. BlockLen
  <2>1. CASE left > BlockLen
    <3> DEFINE x == left - 1
    <3>1. x \in Nat /\ left = x + 1 /\ whole = x \div BlockLen
      BY <1>1, <2>1, SMT
    <3> HIDE DEF x, whole
    <3>2. x = BlockLen * whole + (x % BlockLen) /\ x % BlockLen \in 0 .. BlockLen - 1
      BY <1>1, <3>1, SMT
    <3>3. whole * BlockLen = BlockLen * whole /\ whole * BlockLen \in Nat
      BY <1>1, <1>2, MultipleDivided
    <3>4. QED
      BY <1>1, <3>1, <3>2, <3>3, SMT
  <2>2. CASE ~ (left > BlockLen)
    <3>1. whole = 0
      BY <2>2
    <3> HIDE DEF whole
    <3>2. QED
      BY <1>1, <2>2, <3>1, SMT
  <2>3. QED
    BY <2>1, <2>2
<1>a. Absorbed(ch, at, left) = chunk_state_fill_buf(run, at + whole * BlockLen, rest)
  BY Zenon DEF Absorbed
<1> HIDE DEF whole
<1>4. end \in Nat
  BY <1>2
<1>5. Position(c, end) = at + whole * BlockLen
  <2> DEFINE from == c * ChunkLen
  <2>1. from \in Nat
    BY HashTreeAssumption, SMT
  <2> HIDE DEF from
  <2>2. from + (b + whole) * BlockLen = (from + b * BlockLen) + whole * BlockLen
    BY <1>1, <1>2, <2>1, SMT
  <2>3. QED
    BY <2>2 DEF Position, from
<1>6. b * BlockLen + left = end * BlockLen + rest
  <2>1. left = whole * BlockLen + rest
    <3>1. whole * BlockLen \in Nat
      BY <1>1, <1>2, MultipleDivided
    <3>2. QED
      BY <1>1, <3>1, SMT
  <2> HIDE DEF rest
  <2>2. b * BlockLen + (whole * BlockLen + rest) = (b + whole) * BlockLen + rest
    BY <1>1, <1>2, <1>3, SMT
  <2>3. QED
    BY <2>1, <2>2
<1>7. run = After(key, flags, c, end, EmptyBuf)
  <2>1. CASE whole > 0
    <3>1. after_blocks(After(key, flags, c, b, EmptyBuf), Position(c, b), whole)
            = After(key, flags, c, b + whole, EmptyBuf)
      BY <1>2, AfterBlocks
    <3>2. QED
      BY <2>1, <3>1
  <2>2. CASE ~ (whole > 0)
    <3>1. whole = 0 /\ end = b
      BY <1>2, <2>2, SMT
    <3>2. QED
      BY <2>2, <3>1
  <2>3. QED
    BY <2>1, <2>2
<1> HIDE DEF run, ch, end, rest
<1>8. chunk_state_fill_buf(run, Position(c, end), rest)
        = After(key, flags, c, end, DataBlock(Position(c, end), rest))
  <2>1. 0 \in 0 .. BlockLen /\ rest \in Nat /\ 0 + rest = rest /\ rest <= BlockLen
    BY <1>1, <1>3, SMT
  <2>2. chunk_state_fill_buf(After(key, flags, c, end, DataBlock(0, 0)), Position(c, end), rest)
          = After(key, flags, c, end, DataBlock(IF 0 = 0 THEN Position(c, end) ELSE 0, 0 + rest))
    BY <1>4, <2>1, FilledAfter
  <2>3. QED
    BY <1>7, <2>1, <2>2 DEF EmptyBuf
<1>9. Holding(key, flags, c, b * BlockLen + left)
        = After(key, flags, c, end, DataBlock(Position(c, end), rest))
  <2> DEFINE len == b * BlockLen + left
  <2>1. len = end * BlockLen + rest
    BY <1>6
  <2> HIDE DEF len
  <2>2. Holding(key, flags, c, len) = After(key, flags, c, end, DataBlock(Position(c, end), rest))
    BY <1>3, <1>4, <2>1, HoldingBlock
  <2>3. QED
    BY <2>2 DEF len
<1>10. QED
  BY <1>a, <1>5, <1>8, <1>9 DEF ch

\* Absorbing n bytes: what the chunk state holds depends on how many bytes it
\* has absorbed, not on how they were cut into calls.
THEOREM UpdatedHolding ==
  ASSUME NEW key, NEW flags, NEW c \in Nat, NEW len \in Nat, NEW n \in Nat, len + n > 0
  PROVE  chunk_state_update(Holding(key, flags, c, len), c * ChunkLen + len, n)
           = Holding(key, flags, c, len + n)
<1> DEFINE ch     == Holding(key, flags, c, len)
           from   == c * ChunkLen + len
           take   == IF ch.buf.len > 0 THEN AtMost(BlockLen - ch.buf.len, n) ELSE 0
           filled == IF ch.buf.len > 0 THEN chunk_state_fill_buf(ch, from, n) ELSE ch
           left   == n - take
           flushed == IF ch.buf.len > 0 /\ left > 0
                      THEN after_blocks(filled, filled.buf.from, 1) ELSE filled
<1>1. chunk_state_update(ch, from, n) = Absorbed(flushed, from + take, left)
  BY Zenon DEF chunk_state_update, Absorbed
<1>2. BlockLen \in Nat \ {0} /\ c * ChunkLen \in Nat
  BY HashTreeAssumption, SMT
<1>3. CASE len = 0
  <2>1. ch = After(key, flags, c, 0, EmptyBuf) /\ ch.buf.len = 0
    BY <1>3 DEF Holding, After, EmptyBuf, DataBlock
  <2> HIDE DEF ch
  <2>2. ~ (0 > 0) /\ n - 0 = n /\ n \in Nat \ {0} /\ len + n = 0 * BlockLen + n
    BY <1>2, <1>3, SMT
  <2>3. take = 0 /\ filled = ch /\ left = n
    BY <2>1, <2>2
  <2>4. flushed = After(key, flags, c, 0, EmptyBuf)
    BY <2>1, <2>2, <2>3
  <2>5. from + take = Position(c, 0)
    <3>1. c * ChunkLen + len + 0 = c * ChunkLen + 0 * BlockLen
      BY <1>2, <1>3, SMT
    <3>2. QED
      BY <2>3, <3>1 DEF Position
  <2> HIDE DEF take, filled, left, flushed
  <2>6. ASSUME NEW at, at = Position(c, 0)
        PROVE  Absorbed(flushed, at, n) = Holding(key, flags, c, 0 * BlockLen + n)
    BY <2>2, <2>4, <2>6, RunHeld
  <2>7. QED
    BY <1>1, <2>2, <2>3, <2>5, <2>6 DEF ch
<1>4. CASE len # 0
  <2>1. PICK b \in Nat, l \in 1 .. BlockLen : len = b * BlockLen + l
    BY <1>4, LastBlockExists
  <2>2. ch = After(key, flags, c, b, DataBlock(Position(c, b), l))
    BY <2>1, HoldingBlock
  <2>3. ch.buf.len = l /\ l > 0
    BY <2>2, SMT DEF After, DataBlock
  <2> HIDE DEF ch
  <2>4. take = AtMost(BlockLen - l, n) /\ filled = chunk_state_fill_buf(ch, from, n)
    BY <2>3
  <2>5. b * BlockLen \in Nat /\ l \in Nat /\ l <= BlockLen /\ l \in 0 .. BlockLen /\ l # 0
    BY <1>2, <2>3, SMT
  <2>6. CASE l + n <= BlockLen
    <3>1. take = n /\ n - n = 0 /\ ~ (0 > 0) /\ ~ (0 > BlockLen) /\ l + n \in 1 .. BlockLen
          /\ 0 * BlockLen = 0 /\ 0 - 0 = 0 /\ (l + n) + 0 = l + n
      BY <1>2, <2>4, <2>5, <2>6, SMT DEF AtMost
    <3>2. filled = After(key, flags, c, b, DataBlock(Position(c, b), l + n))
      <4> HIDE DEF filled
      <4>1. chunk_state_fill_buf(After(key, flags, c, b, DataBlock(Position(c, b), l)), from, n)
              = After(key, flags, c, b,
                      DataBlock(IF l = 0 THEN from ELSE Position(c, b), l + n))
        BY <2>5, <2>6, FilledAfter
      <4>2. QED
        BY <2>2, <2>4, <2>5, <4>1
    <3>3. left = 0
      BY <3>1
    <3> HIDE DEF take, filled, left
    <3>4. flushed = filled
      BY <3>1, <3>3
    <3> HIDE DEF flushed
    <3> DEFINE at == from + take + 0 * BlockLen
               m == l + n
    <3>7. Absorbed(filled, from + take, 0) = chunk_state_fill_buf(filled, at, 0)
      BY <3>1 DEF Absorbed
    <3>8. m \in 0 .. BlockLen /\ m # 0 /\ m + 0 = m /\ m + 0 <= BlockLen /\ 0 \in Nat
      BY <3>1, SMT
    <3> HIDE DEF at, m
    <3>9. chunk_state_fill_buf(After(key, flags, c, b, DataBlock(Position(c, b), m)), at, 0)
            = After(key, flags, c, b, DataBlock(IF m = 0 THEN at ELSE Position(c, b), m + 0))
      BY <3>8, FilledAfter
    <3>10. Absorbed(filled, from + take, 0) = After(key, flags, c, b, DataBlock(Position(c, b), m))
      BY <3>2, <3>7, <3>8, <3>9 DEF at, m
    <3>11. Holding(key, flags, c, len + n)
             = After(key, flags, c, b, DataBlock(Position(c, b), m))
      <4> DEFINE total == len + n
      <4>1. total = b * BlockLen + m /\ m \in 1 .. BlockLen
        BY <2>1, <2>5, <3>1, SMT DEF m
      <4> HIDE DEF total
      <4>2. Holding(key, flags, c, total)
              = After(key, flags, c, b, DataBlock(Position(c, b), m))
        BY <4>1, HoldingBlock
      <4>3. QED
        BY <4>2 DEF total
    <3>12. QED
      BY <1>1, <3>3, <3>4, <3>10, <3>11 DEF ch
  <2>7. CASE ~ (l + n <= BlockLen)
    <3> DEFINE k == BlockLen - l
    <3>1. take = k /\ k \in Nat /\ l + k = BlockLen /\ n - k \in Nat \ {0} /\ n - k > 0
      BY <1>2, <2>4, <2>5, <2>7, SMT DEF AtMost
    <3>2. filled = After(key, flags, c, b, DataBlock(Position(c, b), BlockLen))
      <4> DEFINE old == After(key, flags, c, b, DataBlock(Position(c, b), l))
      <4>1. chunk_state_fill_buf(old, from, k)
              = After(key, flags, c, b,
                      DataBlock(IF l = 0 THEN from ELSE Position(c, b), l + k))
        <5> HIDE DEF k
        <5>1. l + k <= BlockLen
          BY <1>2, <3>1, SMT
        <5>2. QED
          BY <2>5, <3>1, <5>1, FilledAfter
      <4>2. chunk_state_fill_buf(old, from, n) = chunk_state_fill_buf(old, from, k)
        <5>1. old.buf.len = l
          BY DEF After, DataBlock
        <5>2. AtMost(BlockLen - l, n) = k /\ AtMost(BlockLen - l, k) = k
          BY <1>2, <2>5, <2>7, SMT DEF AtMost
        <5> DEFINE new(a) == DataBlock(IF old.buf.len = 0 THEN from ELSE old.buf.from,
                                       old.buf.len + AtMost(BlockLen - old.buf.len, a))
        <5> HIDE DEF k, old
        <5>3. new(n) = new(k)
          BY <5>1, <5>2, Zenon
        <5>4. /\ chunk_state_fill_buf(old, from, n) = [old EXCEPT !.buf = new(n)]
              /\ chunk_state_fill_buf(old, from, k) = [old EXCEPT !.buf = new(k)]
          BY DEF chunk_state_fill_buf
        <5> HIDE DEF new
        <5>5. QED
          BY <5>3, <5>4
      <4>3. QED
        <5> HIDE DEF filled, k
        <5>1. QED
          BY <2>2, <2>4, <2>5, <3>1, <4>1, <4>2
    <3> DEFINE m == n - k
    <3>3. left = m
      BY <3>1
    <3>4. from + take = Position(c, b + 1)
      <4> DEFINE base == c * ChunkLen
                 whl == b * BlockLen
      <4>1. (b + 1) * BlockLen = whl + BlockLen
        BY <1>2, SMT
      <4>2. base \in Nat /\ whl \in Nat /\ len = whl + l
        BY <1>2, <2>1, <2>5
      <4> HIDE DEF base, whl, k, take
      <4>3. base + len + k = base + (whl + BlockLen)
        BY <1>2, <2>5, <3>1, <4>2, SMT
      <4>4. QED
        BY <3>1, <4>1, <4>3 DEF Position, base
    <3> HIDE DEF take, filled, left
    <3>5. flushed = After(key, flags, c, b + 1, EmptyBuf)
      <4>1. filled.buf.from = Position(c, b)
        BY <3>2 DEF After, DataBlock
      <4>2. flushed = after_blocks(filled, Position(c, b), 1)
        BY <2>3, <3>1, <3>3, <4>1
      <4>3. after_blocks(After(key, flags, c, b, DataBlock(Position(c, b), BlockLen)),
                         Position(c, b), 1)
              = After(key, flags, c, b + 1, EmptyBuf)
        BY AfterBlocks
      <4> HIDE DEF flushed
      <4>4. QED
        BY <3>2, <4>2, <4>3
    <3> HIDE DEF flushed
    <3> DEFINE b1 == b + 1
    <3>6. b1 \in Nat /\ m \in Nat \ {0}
      BY <3>1
    <3>7. len + n = b1 * BlockLen + m
      <4> DEFINE whl == b * BlockLen
      <4>1. b1 * BlockLen = whl + BlockLen
        BY <1>2, SMT
      <4>2. whl \in Nat /\ len = whl + l
        BY <2>1, <2>5
      <4> HIDE DEF whl, b1
      <4>3. QED
        BY <1>2, <2>5, <4>1, <4>2, SMT
    <3> HIDE DEF m, k, b1
    <3>8. ASSUME NEW at, at = Position(c, b1)
          PROVE  Absorbed(flushed, at, m) = Holding(key, flags, c, b1 * BlockLen + m)
      <4>1. flushed = After(key, flags, c, b1, EmptyBuf)
        BY <3>5 DEF b1
      <4>2. QED
        BY <3>6, <3>8, <4>1, RunHeld
    <3>9. Absorbed(flushed, from + take, left) = Holding(key, flags, c, len + n)
      BY <3>3, <3>4, <3>7, <3>8 DEF b1
    <3>10. QED
      BY <1>1, <3>9 DEF ch
  <2>8. QED
    BY <2>6, <2>7
<1>5. QED
  BY <1>3, <1>4

\* The same chain, as ChunkOutput writes it.
Reference(key, flags, c, from, g, i) ==
  IF i = 0 THEN key
  ELSE output_chaining_value(
         make_output(g[i - 1], DataBlock(from + (i - 1) * BlockLen, BlockLen), BlockLen, c,
                     flags \cup start_flag(i - 1)))

\* The chain of the reference tree is the one of compress_blocks.
LEMMA ReferenceLinked ==
  ASSUME NEW key, NEW flags, NEW c \in Nat, NEW from, NEW g, NEW i \in Nat
  PROVE  Reference(key, flags, c, from, g, i) = Linked(chunk_state_init(key, c, flags), from, g, i)
<1> DEFINE init == chunk_state_init(key, c, flags)
<1>1. init.cv = key /\ init.counter = c /\ init.blocks = 0 /\ init.flags = flags
  BY DEF chunk_state_init
<1> HIDE DEF init
<1>2. 0 + i - 1 = i - 1
  BY SMT
<1>3. init.blocks + i - 1 = i - 1
  BY <1>1, <1>2
<1>4. QED
  BY <1>1, <1>3, Zenon DEF Reference, Linked, init

\* The blocks of a chunk of len bytes before its last one.
BlocksBefore(len) == IF len = 0 THEN 0 ELSE (len - 1) \div BlockLen

\* The output of a chunk of the reference tree ends a chain of compressions.
LEMMA ChunkOutputChain ==
  ASSUME NEW key, NEW flags, NEW c \in Nat, NEW len \in Nat
  PROVE  ChunkOutput(key, flags, c, len) =
           make_output(Chain(key, flags, c, BlocksBefore(len)),
                       DataBlock(Position(c, BlocksBefore(len)), len - BlocksBefore(len) * BlockLen),
                       len - BlocksBefore(len) * BlockLen, c,
                       flags \cup start_flag(BlocksBefore(len)) \cup {"CHUNK_END"})
<1> DEFINE full == BlocksBefore(len)
           from == c * ChunkLen
           init == chunk_state_init(key, c, flags)
           F == CHOOSE f : f = [i \in 0 .. full |-> Reference(key, flags, c, from, f, i)]
<1>1. full \in Nat
  BY HashTreeAssumption, SMT DEF BlocksBefore
<1>2. ChunkOutput(key, flags, c, len) =
        make_output(F[full], DataBlock(from + full * BlockLen, len - full * BlockLen),
                    len - full * BlockLen, c, flags \cup start_flag(full) \cup {"CHUNK_END"})
  BY DEF ChunkOutput, Reference, start_flag, BlocksBefore
<1> HIDE DEF full, init, from
<1>3. ASSUME NEW f, NEW i \in 0 .. full
      PROVE  Reference(key, flags, c, from, f, i) = Linked(init, from, f, i)
  BY <1>1, ReferenceLinked DEF init
<1>4. \E f : f = [i \in 0 .. full |-> Reference(key, flags, c, from, f, i)]
  <2>1. PICK f : f = [i \in 0 .. full |-> Linked(init, from, f, i)]
    BY <1>1, LinksExist
  <2> DEFINE a(i) == Linked(init, from, f, i)
             b(i) == Reference(key, flags, c, from, f, i)
  <2>2. \A i \in 0 .. full : b(i) = a(i)
    BY <1>3
  <2>3. f = [i \in 0 .. full |-> a(i)]
    BY <2>1
  <2> HIDE DEF a, b
  <2>4. f = [i \in 0 .. full |-> b(i)]
    BY <2>2, <2>3
  <2>5. QED
    BY <2>4 DEF b
<1>5. F = [i \in 0 .. full |-> Reference(key, flags, c, from, F, i)]
  BY <1>4
<1> HIDE DEF F
<1>6. Links(init, from, F, full)
  <2>1. ASSUME NEW i \in 0 .. full
        PROVE  F[i] = Linked(init, from, F, i)
    <3>1. F[i] = Reference(key, flags, c, from, F, i)
      BY <1>5
    <3>2. QED
      BY <1>3, <3>1
  <2>2. QED
    BY <2>1 DEF Links
<1>7. F[full] = Chain(key, flags, c, full)
  <2>1. PICK g : Links(init, from, g, full) /\ compress_blocks(init, from, full) = g[full]
    BY <1>1, CompressedIsLink
  <2>2. full <= full
    BY <1>1, SMT
  <2>3. F[full] = g[full]
    BY <1>1, <1>6, <2>1, <2>2, LinksAgree
  <2>4. QED
    BY <2>1, <2>3 DEF Chain, init, from
<1>8. QED
  BY <1>2, <1>7 DEF full, from, Position

\* What chunk_state_output makes of a chunk state is the output of the chunk.
THEOREM HoldingOutput ==
  ASSUME NEW key, NEW flags, NEW c \in Nat, NEW len \in Nat, len > 0 \/ c = 0
  PROVE  chunk_state_output(Holding(key, flags, c, len)) = ChunkOutput(key, flags, c, len)
<1> DEFINE full == BlocksBefore(len)
           block == DataBlock(Position(c, full), len - full * BlockLen)
           ch == After(key, flags, c, full, block)
<1>1. BlockLen \in Nat \ {0} /\ ChunkLen \in Nat \ {0}
  BY HashTreeAssumption
<1>2. Holding(key, flags, c, len) = ch
  <2>1. CASE len = 0
    <3>1. full = 0 /\ c = 0 /\ Position(c, full) = 0 /\ len - full * BlockLen = 0
      BY <1>1, <2>1, SMT DEF Position, BlocksBefore
    <3>2. QED
      BY <2>1, <3>1, Zenon DEF Holding, EmptyBuf
  <2>2. CASE len # 0
    BY <2>2, Zenon DEF Holding, BlocksBefore
  <2>3. QED
    BY <2>1, <2>2
<1>3. ChunkOutput(key, flags, c, len) =
        make_output(Chain(key, flags, c, full), block, len - full * BlockLen, c,
                    flags \cup start_flag(full) \cup {"CHUNK_END"})
  BY ChunkOutputChain
<1>4. block.len = len - full * BlockLen
  BY DEF DataBlock
<1>5. ch.cv = Chain(key, flags, c, full) /\ ch.counter = c /\ ch.blocks = full
      /\ ch.buf = block /\ ch.flags = flags
  BY DEF After
<1> HIDE DEF ch, full, block
<1>6. QED
  BY <1>2, <1>3, <1>4, <1>5 DEF chunk_state_output, full

\* A chunk state is the one after the first bytes of its chunk, as many as it counts.
HoldsInput(k, flags, ch) == ch = Holding(k, flags, ch.counter, chunk_state_len(ch))

\* The chunk state after some bytes of a chunk.
LEMMA HeldChunk ==
  ASSUME NEW k, NEW flags, NEW c \in Nat, NEW len \in Nat
  PROVE  LET ch == Holding(k, flags, c, len)
         IN  ch.counter = c /\ ch.flags = flags /\ chunk_state_len(ch) = len
<1> DEFINE ch == Holding(k, flags, c, len)
<1>0. BlockLen \in Nat \ {0}
  BY HashTreeAssumption
<1>1. CASE len = 0
  <2>1. ch = After(k, flags, c, 0, EmptyBuf)
    BY <1>1 DEF Holding
  <2>2. ch.counter = c /\ ch.flags = flags /\ ch.blocks = 0 /\ ch.buf.len = 0
    BY <2>1 DEF After, EmptyBuf, DataBlock
  <2>3. QED
    BY <1>0, <1>1, <2>2, SMT DEF chunk_state_len
<1>2. CASE len # 0
  <2>1. PICK b \in Nat : \E l \in 1 .. BlockLen : len = b * BlockLen + l
    BY <1>2, LastBlockExists
  <2>2. PICK l \in 1 .. BlockLen : len = b * BlockLen + l
    BY <2>1
  <2>3. ch = After(k, flags, c, b, DataBlock(Position(c, b), l))
    BY <2>2, HoldingBlock
  <2>4. ch.counter = c /\ ch.flags = flags /\ ch.blocks = b /\ ch.buf.len = l
    BY <2>3 DEF After, DataBlock
  <2>5. b * BlockLen = BlockLen * b
    BY <1>0, MultipleDivided
  <2>6. QED
    BY <2>2, <2>4, <2>5 DEF chunk_state_len
<1>3. QED
  BY <1>1, <1>2

\* A chunk state built by absorbing holds its input.
LEMMA HeldState ==
  ASSUME NEW k, NEW flags, NEW c \in Nat, NEW len \in Nat, NEW ch, ch = Holding(k, flags, c, len)
  PROVE  /\ HoldsInput(k, flags, ch)
         /\ ch.counter = c /\ ch.flags = flags /\ chunk_state_len(ch) = len
<1>1. ch.counter = c /\ ch.flags = flags /\ chunk_state_len(ch) = len
  BY HeldChunk
<1>2. QED
  BY <1>1 DEF HoldsInput

\* The chaining value of a whole chunk.
LEMMA WholeChunk ==
  ASSUME NEW k, NEW flags, NEW c \in Nat
  PROVE  output_chaining_value(chunk_state_output(Holding(k, flags, c, ChunkLen)))
           = SubtreeCV(k, flags, c, 1 * ChunkLen)
<1>1. ChunkLen \in Nat /\ ChunkLen > 0 /\ ChunkLen <= ChunkLen /\ 1 * ChunkLen = ChunkLen
  BY HashTreeAssumption, SMT
<1>2. chunk_state_output(Holding(k, flags, c, ChunkLen)) = ChunkOutput(k, flags, c, ChunkLen)
  BY <1>1, HoldingOutput
<1>3. TreeOutput(k, flags, c, ChunkLen) = ChunkOutput(k, flags, c, ChunkLen)
  BY <1>1, TreeOutputRecursion
<1>4. QED
  BY <1>1, <1>2, <1>3 DEF SubtreeCV

-----------------------------------------------------------------------------
(* The cut of an input into subtrees. *)

\* The largest power of two of bytes in an input that divides the bytes of the
\* chunks before it.
aligned_len(c, input_len) ==
  halved_until_aligned(c * ChunkLen)[round_down_to_power_of_2[input_len]]

\* It is a power of two of chunks, no longer than the input, that divides the
\* number of the first chunk.
LEMMA WholeSubtree ==
  ASSUME NEW c \in Nat, NEW input_len \in Nat, input_len > ChunkLen
  PROVE  \E k \in Nat \ {0} :
           /\ aligned_len(c, input_len) = ChunkLen * k
           /\ aligned_len(c, input_len) \div ChunkLen = k
           /\ ChunkLen * k <= input_len
           /\ k # 1 => k \div 2 \in Nat \ {0} /\ k = 2 * (k \div 2)
           /\ PowerOfTwo(k) /\ c % k = 0
<1> DEFINE x == round_down_to_power_of_2[input_len]
           len == halved_until_aligned(c * ChunkLen)[x]
<1>1. PowerOfTwo(ChunkLen)
  BY HashTreeAssumption DEF PowerOfTwo
<1>2. input_len \in Nat \ {0} /\ ChunkLen <= input_len /\ ChunkLen \in Nat \ {0}
  BY HashTreeAssumption, SMT
<1>3. PowerOfTwo(x) /\ x <= input_len /\ ChunkLen <= x
  BY <1>1, <1>2, RoundDownIsPower, RoundDownAtLeast
<1>4. c * ChunkLen \in Nat /\ (c * ChunkLen) % ChunkLen = 0
  BY <1>2, MultipleDivided
<1>5. PowerOfTwo(len) /\ ChunkLen <= len /\ len <= x /\ (c * ChunkLen) % len = 0
  BY <1>1, <1>3, <1>4, HalvedIsAligned
<1>6. aligned_len(c, input_len) = len
  BY DEF aligned_len
<1> HIDE DEF len, x
<1>7. PICK k : PowerOfTwo(k) /\ len = ChunkLen * k
  BY <1>1, <1>5, PowerDivides
<1>8. k \in Nat \ {0}
  BY <1>7 DEF PowerOfTwo
<1>9. len \div ChunkLen = k
  BY <1>2, <1>7, <1>8, MultipleDivided
<1>10. ChunkLen * k <= input_len
  BY <1>2, <1>3, <1>5, <1>7, SMT DEF PowerOfTwo
<1>11. k # 1 => k \div 2 \in Nat \ {0} /\ k = 2 * (k \div 2)
  BY <1>7, HalvedPower DEF PowerOfTwo
<1>12. c % k = 0
  <2> DEFINE z == (c * ChunkLen) \div len
  <2>1. len \in Nat \ {0} /\ c * ChunkLen \in Nat
    BY <1>4, <1>5 DEF PowerOfTwo
  <2>2. z \in Nat /\ c * ChunkLen = len * z
    BY <1>5, <2>1, SMT
  <2> HIDE DEF z
  <2>3. c = k * z
    <3>1. c * ChunkLen = (k * z) * ChunkLen
      <4>1. (ChunkLen * k) * z = (k * z) * ChunkLen
        BY <1>2, <1>8, <2>2, SMT
      <4>2. QED
        BY <1>7, <2>2, <4>1
    <3>2. c \in Nat /\ k * z \in Nat
      BY <1>8, <2>2, SMT
    <3> DEFINE y == k * z
    <3> HIDE DEF y
    <3>3. (c * ChunkLen) \div ChunkLen = c /\ (y * ChunkLen) \div ChunkLen = y
      BY <1>2, <3>2, MultipleDivided DEF y
    <3>4. QED
      BY <3>1, <3>3 DEF y
  <2>4. QED
    BY <1>8, <2>2, <2>3, MultipleDivided
<1>13. QED
  BY <1>6, <1>7, <1>8, <1>9, <1>10, <1>11, <1>12

-----------------------------------------------------------------------------
(* Stacks of subtrees.  Both hashers keep the chaining values of complete   *)
(* subtrees from the first chunk on.  Here an entry is labelled with its    *)
(* first chunk and its number of chunks, from which follows what may be     *)
(* merged and where the tree over the whole message is cut.                 *)

Subtree(cv, first, chunks) == [cv |-> cv, first |-> first, chunks |-> chunks]

\* The two top entries replaced by their parent.
Joined(k, flags, s) ==
  LET l == s[Len(s) - 1]
      r == s[Len(s)]
      cv == output_chaining_value(parent_output(l.cv, r.cv, k, flags))
  IN  Append(SubSeq(s, 1, Len(s) - 2), Subtree(cv, l.first, l.chunks + r.chunks))

\* The entries of a sequence stand for the chunks from 0 to one before limit,
\* in order, with neither gap nor overlap.
Covers(s, limit) ==
  /\ \E S : s \in Seq(S)
  /\ \A i \in 1 .. Len(s) : s[i].first \in Nat /\ s[i].chunks \in Nat \ {0}
  /\ s = <<>> => limit = 0
  /\ s # <<>> => s[1].first = 0
  /\ \A i \in 1 .. Len(s) : s[i].first + s[i].chunks = IF i = Len(s) THEN limit ELSE s[i + 1].first

\* An entry for the chunks that follow extends the cover.
LEMMA AppendCovers ==
  ASSUME NEW s, NEW e, e.first \in Nat, e.chunks \in Nat \ {0}, Covers(s, e.first)
  PROVE  Covers(Append(s, e), e.first + e.chunks) /\ Len(Append(s, e)) = Len(s) + 1
<1> DEFINE t == Append(s, e)
<1>1. PICK S : s \in Seq(S)
  BY DEF Covers
<1>2. t \in Seq(S \cup {e}) /\ Len(t) = Len(s) + 1 /\ t # <<>> /\ Len(s) \in Nat
      /\ t[Len(s) + 1] = e /\ \A i \in 1 .. Len(s) : t[i] = s[i]
  BY <1>1, SMT
<1>3. \A i \in 1 .. Len(s) : s[i].first + s[i].chunks = t[i + 1].first
  BY <1>1, <1>2, SMT DEF Covers
<1>4. t[1].first = 0
  <2>1. CASE s = <<>>
    BY <1>2, <2>1, SMT DEF Covers
  <2>2. CASE s # <<>>
    <3>1. 1 \in 1 .. Len(s)
      BY <1>1, <2>2, SMT
    <3>2. QED
      BY <1>2, <2>2, <3>1 DEF Covers
  <2>3. QED
    BY <2>1, <2>2
<1>5. \A i \in 1 .. Len(t) : t[i].first \in Nat /\ t[i].chunks \in Nat \ {0}
  <2> TAKE i \in 1 .. Len(t)
  <2>1. CASE i \in 1 .. Len(s)
    BY <1>2, <2>1 DEF Covers
  <2>2. CASE i = Len(s) + 1
    BY <1>2, <2>2
  <2>3. QED
    BY <1>2, <2>1, <2>2, SMT
<1>6. ASSUME NEW i \in 1 .. Len(t)
      PROVE  t[i].first + t[i].chunks
               = IF i = Len(t) THEN e.first + e.chunks ELSE t[i + 1].first
  <2>1. CASE i \in 1 .. Len(s)
    <3>1. i # Len(t)
      BY <1>2, <2>1, SMT
    <3>2. QED
      BY <1>2, <1>3, <2>1, <3>1
  <2>2. CASE i = Len(s) + 1
    BY <1>2, <2>2
  <2>3. QED
    BY <1>2, <2>1, <2>2, SMT
<1>7. QED
  BY <1>2, <1>4, <1>5, <1>6 DEF Covers

\* Merging the two top entries covers what they covered.
LEMMA JoinCovers ==
  ASSUME NEW k, NEW flags, NEW s, NEW limit \in Nat, Covers(s, limit), Len(s) >= 2
  PROVE  Covers(Joined(k, flags, s), limit) /\ Len(Joined(k, flags, s)) = Len(s) - 1
<1> DEFINE n == Len(s)
           below == SubSeq(s, 1, n - 2)
           e == Subtree(output_chaining_value(parent_output(s[n - 1].cv, s[n].cv, k, flags)),
                      s[n - 1].first, s[n - 1].chunks + s[n].chunks)
<1>1. Joined(k, flags, s) = Append(below, e)
  BY DEF Joined
<1>2. e.first = s[n - 1].first /\ e.chunks = s[n - 1].chunks + s[n].chunks
  BY DEF Subtree
<1> HIDE DEF e
<1>3. PICK S : s \in Seq(S)
  BY DEF Covers
<1>4. n \in Nat /\ n >= 2 /\ n - 1 \in 1 .. n /\ n \in 1 .. n /\ n - 1 # n /\ (n - 1) + 1 = n
  BY <1>3, SMT
<1>5. /\ s[n - 1].first \in Nat /\ s[n - 1].chunks \in Nat \ {0}
      /\ s[n].first \in Nat /\ s[n].chunks \in Nat \ {0}
      /\ s[n - 1].first + s[n - 1].chunks = s[n].first /\ s[n].first + s[n].chunks = limit
  BY <1>4 DEF Covers
<1>6. e.first \in Nat /\ e.chunks \in Nat \ {0} /\ e.first + e.chunks = limit
  BY <1>2, <1>5, SMT
<1>7. below \in Seq(S) /\ Len(below) = n - 2 /\ \A i \in 1 .. n - 2 : below[i] = s[i]
  <2> HIDE DEF n
  <2>1. /\ 1 \in Int /\ n - 2 \in Int /\ (n - 2) - 1 + 1 = n - 2
        /\ (IF 1 <= n - 2 THEN n - 2 ELSE 0) = n - 2
        /\ \A i \in 1 .. n - 2 : 1 + i - 1 = i /\ i \in 1 .. n
    BY <1>4, SMT
  <2>2. \A i \in 1 .. n - 2 : s[i] \in S
    BY <1>3, <2>1, ElementOfSeq DEF n
  <2>3. QED
    BY <2>1, <2>2, SubSeqProperties
<1> HIDE DEF below, n
<1>8. Covers(below, e.first)
  <2>1. \A i \in 1 .. n - 2 : i \in 1 .. n /\ i # n /\ (i # n - 2 => i + 1 \in 1 .. n - 2)
                              /\ (i = n - 2 => i + 1 = n - 1)
    BY <1>4, SMT
  <2>2. \A i \in 1 .. n - 2 : s[i].first + s[i].chunks = s[i + 1].first
    BY <2>1 DEF Covers, n
  <2>3. \A i \in 1 .. n - 2 :
          below[i].first + below[i].chunks = IF i = n - 2 THEN e.first ELSE below[i + 1].first
    BY <1>2, <1>7, <2>1, <2>2
  <2>4. s # <<>> /\ s[1].first = 0
    <3>1. s # <<>>
      <4>1. ~ (Len(<<>>) >= 2)
        BY SMT
      <4>2. QED
        BY <4>1
    <3>2. QED
      BY <3>1 DEF Covers
  <2>5. below = <<>> => e.first = 0
    <3> SUFFICES ASSUME below = <<>>
                 PROVE  e.first = 0
      OBVIOUS
    <3>1. n - 1 = 1
      BY <1>4, <1>7, SMT
    <3>2. QED
      BY <1>2, <2>4, <3>1
  <2>6. below # <<>> => below[1].first = 0
    <3> SUFFICES ASSUME below # <<>>
                 PROVE  below[1].first = 0
      OBVIOUS
    <3>1. 1 \in 1 .. n - 2
      BY <1>4, <1>7, SMT
    <3>2. QED
      BY <1>7, <2>4, <3>1
  <2>7. \A i \in 1 .. n - 2 : below[i].first \in Nat /\ below[i].chunks \in Nat \ {0}
    BY <1>7, <2>1 DEF Covers, n
  <2>8. QED
    BY <1>7, <2>3, <2>5, <2>6, <2>7 DEF Covers
<1>9. Covers(Append(below, e), limit) /\ Len(Append(below, e)) = (n - 2) + 1
  BY <1>6, <1>7, <1>8, AppendCovers
<1>10. (n - 2) + 1 = n - 1
  BY <1>4, SMT
<1>11. QED
  BY <1>1, <1>9, <1>10 DEF n

\* No entry stands for more chunks than are covered, and none of several
\* for all of them.
LEMMA CoversBelow ==
  ASSUME NEW s, NEW limit \in Nat, Covers(s, limit), NEW i \in 1 .. Len(s)
  PROVE  s[i].chunks <= limit /\ (Len(s) >= 2 => s[i].chunks < limit)
<1>1. PICK S : s \in Seq(S)
  BY DEF Covers
<1> DEFINE n == Len(s)
           end(j) == s[j].first + s[j].chunks
           P == {d \in Nat : d < n => end(n - d) <= limit}
<1>2. n \in Nat /\ n # 0 /\ s # <<>>
  BY <1>1, SMT
<1>3. \A j \in 1 .. n : s[j].first \in Nat /\ s[j].chunks \in Nat \ {0}
                        /\ end(j) = IF j = n THEN limit ELSE s[j + 1].first
  BY DEF Covers
<1> HIDE DEF n
<1>4. ASSUME NEW d \in Nat, \A c \in 0 .. d - 1 : c \in P
      PROVE  d \in P
  <2> SUFFICES ASSUME d < n
               PROVE  end(n - d) <= limit
    OBVIOUS
  <2>1. n - d \in 1 .. n
    BY <1>2, SMT
  <2>2. CASE d = 0
    <3>1. n - d = n
      BY <1>2, <2>2, SMT
    <3>2. QED
      BY <1>3, <2>1, <3>1, SMT
  <2>3. CASE d # 0
    <3>1. /\ d - 1 \in 0 .. d - 1 /\ d - 1 < n /\ n - d # n /\ (n - d) + 1 = n - (d - 1)
          /\ n - (d - 1) \in 1 .. n
      BY <1>2, <2>3, SMT
    <3>2. end(n - (d - 1)) <= limit
      BY <1>4, <3>1
    <3>3. end(n - d) = s[n - (d - 1)].first
      BY <1>3, <2>1, <3>1
    <3>4. s[n - (d - 1)].first \in Nat /\ s[n - (d - 1)].chunks \in Nat
      BY <1>3, <3>1
    <3>5. QED
      BY <3>2, <3>3, <3>4, SMT
  <2>4. QED
    BY <2>2, <2>3
<1>5. \A d \in Nat : d \in P
  BY <1>4, StrongInduction
<1>6. \A j \in 1 .. n : end(j) <= limit
  <2> TAKE j \in 1 .. n
  <2>1. n - j \in Nat /\ n - j < n /\ n - (n - j) = j
    BY <1>2, SMT
  <2>2. QED
    BY <1>5, <2>1
<1>7. s[i].first \in Nat /\ s[i].chunks \in Nat \ {0} /\ end(i) <= limit
  BY <1>3, <1>6 DEF n
<1>8. n >= 2 => s[i].chunks < limit
  <2> SUFFICES ASSUME n >= 2
               PROVE  s[i].chunks < limit
    OBVIOUS
  <2>1. CASE i = 1
    <3>1. 1 \in 1 .. n /\ 1 # n /\ 1 + 1 = 2 /\ 2 \in 1 .. n
      BY <1>2, SMT
    <3>2. s[1].first = 0 /\ s[1].first + s[1].chunks = s[2].first
          /\ s[2].first + s[2].chunks <= limit
          /\ s[2].first \in Nat /\ s[2].chunks \in Nat \ {0}
      BY <1>2, <1>3, <1>6, <3>1 DEF Covers
    <3>3. s[1].chunks \in Nat /\ limit \in Nat
      BY <1>3, <3>1
    <3>4. s[1].chunks < limit
      BY <3>2, <3>3, SMT
    <3>5. QED
      BY <2>1, <3>4
  <2>2. CASE i # 1
    <3>1. i - 1 \in 1 .. n /\ i - 1 # n /\ (i - 1) + 1 = i
      BY <1>2, <2>2, SMT DEF n
    <3>2. end(i - 1) = s[i].first /\ s[i - 1].first \in Nat /\ s[i - 1].chunks \in Nat \ {0}
      BY <1>3, <3>1
    <3>3. s[i].first > 0
      BY <3>2, SMT
    <3>4. s[i].first \in Nat /\ s[i].chunks \in Nat /\ s[i].first + s[i].chunks <= limit
      BY <1>7
    <3>5. QED
      BY <3>3, <3>4, SMT
  <2>3. QED
    BY <2>1, <2>2
<1>9. QED
  BY <1>7, <1>8, SMT DEF n

\* The stack as a binary counter.  That the entries cover the chunks does not
\* say that a merge joins two subtrees of one size, nor how many entries there
\* are; that takes that each entry but the top one is the subtree of a 1 bit:
\* below entry i lie chunks of which the number has i - 1 bits set.

\* A subtree as large as a power of two, at a multiple of its size.
Complete(e) == PowerOfTwo(e.chunks) /\ e.first % e.chunks = 0

Binary(s) ==
  \A i \in 1 .. Len(s) :
    /\ Complete(s[i])
    /\ popcnt[s[i].first] = i - 1
    /\ i > 1 => s[i].chunks <= s[i - 1].chunks

\* The stack is never shorter than the number of 1 bits of the chunks below a limit.
LEMMA BinaryLength ==
  ASSUME NEW s, NEW limit \in Nat, Covers(s, limit), Binary(s)
  PROVE  Len(s) \in Nat /\ popcnt[limit] \in Nat /\ popcnt[limit] <= Len(s)
<1>1. PICK S : s \in Seq(S)
  BY DEF Covers
<1>2. Len(s) \in Nat /\ popcnt[limit] \in Nat
  BY <1>1, PopcntDef, LenProperties
<1>3. CASE s = <<>>
  <2>1. limit = 0 /\ popcnt[0] = 0
    BY <1>3, PopcntDef DEF Covers
  <2>2. QED
    BY <1>2, <2>1, SMT
<1>4. CASE s # <<>>
  <2> DEFINE n == Len(s)
             f == s[n].first
             a == s[n].chunks
  <2>1. n \in 1 .. n
    BY <1>1, <1>4, EmptySeq, LenProperties, SMT
  <2>2. f \in Nat /\ f + a = limit /\ PowerOfTwo(a) /\ f % a = 0 /\ popcnt[f] = n - 1
    BY <2>1 DEF Covers, Binary, Complete
  <2> HIDE DEF n, f, a
  <2>3. popcnt[f + a] = popcnt[f] + 1 \/ popcnt[f + a] <= popcnt[f]
    BY <2>2, PopcntOfNextSubtree
  <2>4. n \in Nat
    BY <1>2 DEF n
  <2>5. QED
    BY <1>2, <2>2, <2>3, <2>4, SMT DEF n
<1>5. QED
  BY <1>2, <1>3, <1>4

\* With no pair left to merge, a subtree that ends the input so far is pushed.
LEMMA AppendBinary ==
  ASSUME NEW s, NEW e, e.first \in Nat, Covers(s, e.first), Binary(s), Complete(e),
         ~ (Len(s) > popcnt[e.first])
  PROVE  Binary(Append(s, e))
<1> DEFINE n == Len(s)
           t == Append(s, e)
<1>1. PICK S : s \in Seq(S)
  BY DEF Covers
<1>2. n \in Nat /\ popcnt[e.first] = n
  BY BinaryLength, SMT
<1>3. /\ Len(t) = n + 1 /\ t[n + 1] = e /\ \A i \in 1 .. n : t[i] = s[i]
  BY <1>1, SMT
<1> HIDE DEF t
<1>4. ASSUME n # 0
      PROVE  e.chunks <= s[n].chunks
  <2> DEFINE f == s[n].first
             a == s[n].chunks
             b == e.chunks
  <2>1. n \in 1 .. n /\ n - 1 + 1 = n
    BY <1>2, <1>4, SMT
  <2>2. /\ f \in Nat /\ f + a = e.first /\ PowerOfTwo(a) /\ f % a = 0 /\ popcnt[f] = n - 1
        /\ PowerOfTwo(b) /\ e.first % b = 0
    BY <2>1 DEF Covers, Binary, Complete
  <2> HIDE DEF f, a, b
  <2>3. f % (2 * a) = 0
    <3>1. popcnt[f + a] = n /\ ~ (n <= n - 1)
      BY <1>2, <2>2, SMT
    <3>2. QED
      BY <2>2, <3>1, PopcntOfNextSubtree
  <2>4. (f + a) % (2 * a) # 0
    BY <2>2, <2>3, EvenMultiples DEF PowerOfTwo
  <2>5. ~ (a < b)
    BY <2>2, <2>4, SmallerPowers
  <2>6. QED
    BY <2>2, <2>5, SMT DEF PowerOfTwo, a, b
<1>5. ASSUME NEW i \in 1 .. Len(t)
      PROVE  /\ Complete(t[i]) /\ popcnt[t[i].first] = i - 1
             /\ i > 1 => t[i].chunks <= t[i - 1].chunks
  <2>1. CASE i \in 1 .. n
    <3>1. i > 1 => i - 1 \in 1 .. n
      BY <1>2, <2>1, SMT
    <3>2. t[i] = s[i] /\ (i > 1 => t[i - 1] = s[i - 1])
      BY <1>3, <2>1, <3>1
    <3>3. QED
      BY <2>1, <3>2 DEF Binary
  <2>2. CASE i = n + 1
    <3>1. i - 1 = n /\ t[i] = e /\ (i > 1 => n # 0 /\ n \in 1 .. n)
      BY <1>2, <1>3, <2>2, SMT
    <3>2. QED
      BY <1>2, <1>3, <1>4, <3>1
  <2>3. QED
    BY <1>2, <1>3, <2>1, <2>2, SMT
<1>6. QED
  BY <1>5 DEF Binary, t

\* A stack that is longer than the number of 1 bits has two entries of the
\* same size on top, and they are the halves of a complete subtree.
LEMMA JoinBinary ==
  ASSUME NEW k, NEW flags, NEW s, NEW limit \in Nat, Covers(s, limit), Binary(s), Len(s) >= 2,
         Len(s) > popcnt[limit]
  PROVE  /\ Binary(Joined(k, flags, s))
         /\ s[Len(s) - 1].chunks = s[Len(s)].chunks
         /\ Len(Joined(k, flags, s)) = Len(s) - 1
         /\ \A i \in 1 .. Len(s) - 2 : Joined(k, flags, s)[i] = s[i]
         /\ Joined(k, flags, s)[Len(s) - 1] =
              Subtree(output_chaining_value(
                      parent_output(s[Len(s) - 1].cv, s[Len(s)].cv, k, flags)),
                    s[Len(s) - 1].first, s[Len(s) - 1].chunks + s[Len(s)].chunks)
<1> DEFINE n == Len(s)
           below == SubSeq(s, 1, n - 2)
           a == s[n].chunks
           b == s[n - 1].chunks
           f == s[n].first
           g == s[n - 1].first
           e == Subtree(output_chaining_value(parent_output(s[n - 1].cv, s[n].cv, k, flags)),
                      g, b + a)
           t == Joined(k, flags, s)
<1>1. t = Append(below, e)
  BY DEF Joined
<1>2. PICK S : s \in Seq(S)
  BY DEF Covers
<1>3. n \in Nat /\ n >= 2 /\ n - 1 \in 1 .. n /\ n \in 1 .. n /\ n - 1 # n /\ (n - 1) + 1 = n
      /\ n > 1 /\ n - 2 \in Nat
  BY <1>2, SMT
<1>4. /\ f \in Nat /\ g \in Nat /\ g + b = f /\ f + a = limit
      /\ PowerOfTwo(a) /\ f % a = 0 /\ popcnt[f] = n - 1
      /\ PowerOfTwo(b) /\ g % b = 0 /\ popcnt[g] = n - 1 - 1 /\ a <= b
  BY <1>3 DEF Covers, Binary, Complete
<1>5. /\ Len(below) = n - 2 /\ \A i \in 1 .. n - 2 : below[i] = s[i]
      /\ below \in Seq(S)
  <2> HIDE DEF n
  <2>1. /\ 1 \in Int /\ n - 2 \in Int /\ (n - 2) - 1 + 1 = n - 2
        /\ (IF 1 <= n - 2 THEN n - 2 ELSE 0) = n - 2
        /\ \A i \in 1 .. n - 2 : 1 + i - 1 = i /\ i \in 1 .. n
    BY <1>3, SMT
  <2>2. \A i \in 1 .. n - 2 : s[i] \in S
    BY <1>2, <2>1, ElementOfSeq DEF n
  <2>3. QED
    BY <2>1, <2>2, SubSeqProperties
<1>6. /\ Len(t) = n - 1 /\ t[n - 1] = e /\ \A i \in 1 .. n - 2 : t[i] = s[i]
  <2> HIDE DEF n, below, e, t
  <2>1. /\ Len(t) = (n - 2) + 1 /\ t[(n - 2) + 1] = e
        /\ \A i \in 1 .. n - 2 : t[i] = below[i]
    BY <1>1, <1>3, <1>5, SMT
  <2>2. (n - 2) + 1 = n - 1
    BY <1>3, SMT
  <2>3. QED
    BY <1>5, <2>1, <2>2
<1>7. e.first = g /\ e.chunks = b + a
  BY DEF Subtree
<1>8. popcnt[limit] \in Nat /\ n > popcnt[limit]
  BY PopcntDef
<1> HIDE DEF t, e, below, a, b, f, g, n
<1>9. f % (2 * a) # 0
  <2>1. popcnt[f + a] # popcnt[f] + 1
    BY <1>3, <1>4, <1>8, SMT
  <2>2. QED
    BY <1>4, <2>1, PopcntOfNextSubtree
<1>10. a = b
  <2>1. f % b = 0
    <3>1. b \in Nat \ {0}
      BY <1>4 DEF PowerOfTwo
    <3>2. g = b * (g \div b) /\ g + b = b * (g \div b + 1) /\ g \div b \in Nat
      BY <1>4, <3>1, EvenMultiples
    <3> DEFINE q == g \div b + 1
    <3>3. q \in Nat /\ f = b * q
      BY <1>4, <3>2, SMT
    <3> HIDE DEF q
    <3>4. (b * q) % b = 0
      BY <3>1, <3>3, MultipleDivided
    <3>5. QED
      BY <3>3, <3>4
  <2>2. ~ (a < b)
    BY <1>4, <1>9, <2>1, SmallerPowers
  <2>3. QED
    BY <1>4, <2>2, SMT DEF PowerOfTwo
<1>11. g % (2 * a) = 0
  BY <1>4, <1>9, <1>10, EvenMultiples DEF PowerOfTwo
<1>12. Complete(e) /\ popcnt[e.first] = n - 1 - 1
  <2>1. b + a = 2 * a
    BY <1>4, <1>10, SMT DEF PowerOfTwo
  <2>2. QED
    BY <1>4, <1>7, <1>11, <2>1, DoubledPower DEF Complete
<1>13. ASSUME n - 1 > 1
       PROVE  e.chunks <= s[n - 2].chunks
  <2> DEFINE h == s[n - 2].first
             d == s[n - 2].chunks
  <2>1. n - 2 \in 1 .. n /\ n - 2 # n /\ (n - 2) + 1 = n - 1 /\ (n - 1) - 1 = n - 2 /\ n - 1 \in 1 .. n
    BY <1>3, <1>13, SMT
  <2>2. /\ h \in Nat /\ h + d = g /\ PowerOfTwo(d) /\ h % d = 0 /\ popcnt[h] = n - 2 - 1
        /\ b <= d
    BY <2>1, <1>13 DEF Covers, Binary, Complete, n, b, g
  <2> HIDE DEF h, d
  <2>3. h % (2 * d) = 0
    <3>1. popcnt[h + d] = n - 2 /\ ~ (n - 2 <= n - 2 - 1)
      BY <1>3, <1>4, <2>1, <2>2, SMT
    <3>2. QED
      BY <2>2, <3>1, PopcntOfNextSubtree
  <2>4. g % (2 * d) # 0
    BY <2>2, <2>3, EvenMultiples DEF PowerOfTwo
  <2>5. a < d
    <3>1. a # d
      BY <1>11, <2>4
    <3>2. QED
      BY <1>4, <1>10, <2>2, <3>1, SMT DEF PowerOfTwo
  <2>6. 2 * a <= d
    <3>1. d \in Nat \ {0} /\ d % d = 0
      BY <2>2, SMT DEF PowerOfTwo
    <3>2. QED
      BY <1>4, <2>2, <2>5, <3>1, SmallerPowers
  <2>7. b + a = 2 * a
    BY <1>4, <1>10, SMT DEF PowerOfTwo
  <2>8. QED
    BY <1>7, <2>6, <2>7 DEF d
<1>14. ASSUME NEW i \in 1 .. Len(t)
       PROVE  /\ Complete(t[i]) /\ popcnt[t[i].first] = i - 1
              /\ i > 1 => t[i].chunks <= t[i - 1].chunks
  <2>1. CASE i \in 1 .. n - 2
    <3>1. i \in 1 .. n /\ (i > 1 => i - 1 \in 1 .. n - 2)
      BY <1>3, <2>1, SMT
    <3>2. t[i] = s[i] /\ (i > 1 => t[i - 1] = s[i - 1])
      BY <1>6, <2>1, <3>1
    <3>3. QED
      BY <3>1, <3>2 DEF Binary, n
  <2>2. CASE i = n - 1
    <3>1. t[i] = e /\ (i > 1 => i - 1 = n - 2 /\ n - 2 \in 1 .. n - 2)
      BY <1>3, <1>6, <2>2, SMT
    <3>2. QED
      BY <1>6, <1>12, <1>13, <2>2, <3>1
  <2>3. QED
    BY <1>3, <1>6, <2>1, <2>2, SMT
<1>15. Binary(t)
  BY <1>14 DEF Binary
<1>16. QED
  BY <1>6, <1>10, <1>15 DEF t, e, n, a, b, g

\* The chaining value of an entry is that of the subtree it is labelled with.
IsSubtree(k, flags, e) == e.cv = SubtreeCV(k, flags, e.first, e.chunks * ChunkLen)

\* A parent of two complete subtrees of one size, side by side.
LEMMA SiblingsMerged ==
  ASSUME NEW k, NEW flags, NEW c \in Nat, NEW a, PowerOfTwo(a)
  PROVE  output_chaining_value(
           parent_output(SubtreeCV(k, flags, c, a * ChunkLen),
                         SubtreeCV(k, flags, c + a, a * ChunkLen), k, flags))
           = SubtreeCV(k, flags, c, (a + a) * ChunkLen)
<1> DEFINE m == a * ChunkLen
           n == (a + a) * ChunkLen
<1>1. ChunkLen \in Nat \ {0} /\ a \in Nat \ {0}
  BY HashTreeAssumption DEF PowerOfTwo
<1>2. m \in Nat /\ m > 0 /\ n = m + m
  BY <1>1, SMT
<1> HIDE DEF m, n
<1>3. n \in Nat /\ m < n /\ n <= 2 * m /\ n - m = m
  BY <1>2, SMT
<1>4. TreeOutput(k, flags, c, n) =
        parent_output(SubtreeCV(k, flags, c, m), SubtreeCV(k, flags, c + a, n - m), k, flags)
  BY <1>3, TreeOfSides DEF m
<1>5. QED
  BY <1>3, <1>4 DEF SubtreeCV, m, n

\* A merge that the counter asks for joins the two halves of a subtree.
LEMMA JoinContent ==
  ASSUME NEW k, NEW flags, NEW s, NEW limit \in Nat, Covers(s, limit), Binary(s), Len(s) >= 2,
         Len(s) > popcnt[limit],
         \A i \in 1 .. Len(s) : IsSubtree(k, flags, s[i])
  PROVE  \A i \in 1 .. Len(Joined(k, flags, s)) : IsSubtree(k, flags, Joined(k, flags, s)[i])
<1> DEFINE n == Len(s)
           t == Joined(k, flags, s)
           l == s[n - 1]
           r == s[n]
           cv == output_chaining_value(parent_output(l.cv, r.cv, k, flags))
<1>1. PICK S : s \in Seq(S)
  BY DEF Covers
<1>2. n \in Nat /\ n - 1 \in 1 .. n /\ n \in 1 .. n /\ n - 1 # n /\ (n - 1) + 1 = n
  BY <1>1, LenProperties, SMT
<1>3. /\ l.chunks = r.chunks /\ Len(t) = n - 1 /\ \A i \in 1 .. n - 2 : t[i] = s[i]
      /\ t[n - 1] = Subtree(cv, l.first, l.chunks + r.chunks)
  BY JoinBinary
<1>4. /\ l.first \in Nat /\ PowerOfTwo(l.chunks) /\ r.first = l.first + l.chunks
      /\ l.cv = SubtreeCV(k, flags, l.first, l.chunks * ChunkLen)
      /\ r.cv = SubtreeCV(k, flags, r.first, r.chunks * ChunkLen)
  BY <1>2 DEF Covers, Binary, Complete, IsSubtree
<1> HIDE DEF t, l, r
<1>5. cv = SubtreeCV(k, flags, l.first, (l.chunks + l.chunks) * ChunkLen)
  BY <1>3, <1>4, SiblingsMerged
<1> HIDE DEF cv, n
<1>6. IsSubtree(k, flags, t[n - 1])
  BY <1>3, <1>5 DEF IsSubtree, Subtree
<1>7. ASSUME NEW i \in 1 .. Len(t)
      PROVE  IsSubtree(k, flags, t[i])
  <2>1. i \in 1 .. n - 1
    BY <1>3
  <2>2. i = n - 1 \/ (i \in 1 .. n - 2 /\ i \in 1 .. n)
    BY <1>2, <2>1, SMT
  <2>3. QED
    BY <1>3, <1>6, <2>2 DEF n
<1>8. QED
  BY <1>7 DEF t, n

-----------------------------------------------------------------------------
(* The right edge of the tree.  The bytes from the first one of an entry to *)
(* the end of the message are more than the entry's own, and at most twice  *)
(* as many, so that the tree over them is cut where the entry ends.         *)

\* Bytes of an entry, and bytes from its first one to the end of the message.
Width(s, i) == s[i].chunks * ChunkLen

Rest(s, total, i) == total - s[i].first * ChunkLen

\* An entry begins at a multiple of twice its size when the number of chunks
\* up to its end has one more bit set than the number of those before it.
Grows(s, i) ==
  /\ s[i].first \in Nat /\ PowerOfTwo(s[i].chunks) /\ s[i].first % s[i].chunks = 0
  /\ popcnt[s[i].first + s[i].chunks] = popcnt[s[i].first] + 1

\* Of two neighbours that both do so, the one above is at most half as large.
LEMMA HalfAsLarge ==
  ASSUME NEW s, NEW i, Grows(s, i), Grows(s, i + 1),
         s[i + 1].first = s[i].first + s[i].chunks, s[i + 1].chunks <= s[i].chunks
  PROVE  2 * s[i + 1].chunks <= s[i].chunks
<1> DEFINE f == s[i].first
           a == s[i].chunks
           g == s[i + 1].first
           b == s[i + 1].chunks
<1>1. /\ f \in Nat /\ PowerOfTwo(a) /\ f % a = 0 /\ popcnt[f + a] = popcnt[f] + 1
      /\ g \in Nat /\ PowerOfTwo(b) /\ g % b = 0 /\ popcnt[g + b] = popcnt[g] + 1
      /\ g = f + a /\ b <= a
  BY DEF Grows
<1> HIDE DEF f, a, g, b
<1>2. a \in Nat \ {0} /\ b \in Nat \ {0} /\ popcnt[f] \in Nat /\ popcnt[g] \in Nat
  BY <1>1, PopcntDef DEF PowerOfTwo
<1>3. f % (2 * a) = 0 /\ g % (2 * b) = 0
  <2>1. ~ (popcnt[f] + 1 <= popcnt[f]) /\ ~ (popcnt[g] + 1 <= popcnt[g])
    BY <1>2, SMT
  <2>2. f % (2 * a) = 0
    BY <1>1, <2>1, PopcntOfNextSubtree
  <2>3. g % (2 * b) = 0
    BY <1>1, <2>1, PopcntOfNextSubtree
  <2>4. QED
    BY <2>2, <2>3
<1>4. g % (2 * a) # 0
  BY <1>1, <1>2, <1>3, EvenMultiples
<1>5. a # b
  BY <1>3, <1>4
<1>6. b < a
  BY <1>1, <1>2, <1>5, SMT
<1>7. 2 * b <= a
  <2>1. f % a = 0 /\ f \in Nat
    BY <1>1
  <2>2. QED
    BY <1>1, <1>6, <2>1, SmallerPowers
<1>8. QED
  BY <1>7 DEF a, b

\* The cut at each entry of the stack, from the top of the stack down.
LEMMA Spine ==
  ASSUME NEW s, NEW limit \in Nat, Covers(s, limit), Binary(s),
         NEW held \in 0 .. ChunkLen, NEW total, total = limit * ChunkLen + held,
         NEW m \in Nat,
         \/ m = Len(s) /\ held > 0 /\ Len(s) = popcnt[limit]
         \/ m + 1 = Len(s) /\ held = 0
  PROVE  \A i \in 1 .. m : /\ i \in 1 .. Len(s) /\ Rest(s, total, i) \in Nat
                           /\ Width(s, i) < Rest(s, total, i)
                           /\ Rest(s, total, i) <= 2 * Width(s, i)
<1> DEFINE n == Len(s)
           w(i) == Width(s, i)
           r(i) == Rest(s, total, i)
           Cut(i) == r(i) \in Nat /\ w(i) < r(i) /\ r(i) <= 2 * w(i)
           P == {d \in Nat : d < m => Cut(m - d)}
<1>1. PICK S : s \in Seq(S)
  BY DEF Covers
<1>2. n \in Nat /\ ChunkLen \in Nat \ {0} /\ held \in Nat /\ held <= ChunkLen
  BY <1>1, LenProperties, HashTreeAssumption, SMT
<1>3. m <= n /\ m \in Nat
  BY <1>2, SMT
<1>4. \A i \in 1 .. n :
        /\ s[i].first \in Nat /\ s[i].chunks \in Nat \ {0} /\ PowerOfTwo(s[i].chunks)
        /\ s[i].first % s[i].chunks = 0 /\ popcnt[s[i].first] = i - 1
        /\ s[i].first + s[i].chunks = IF i = n THEN limit ELSE s[i + 1].first
        /\ i > 1 => s[i].chunks <= s[i - 1].chunks
  BY DEF Covers, Binary, Complete
<1>5. \A i \in 1 .. n : w(i) \in Nat /\ ChunkLen <= w(i) /\ s[i].first * ChunkLen \in Nat
  <2> TAKE i \in 1 .. n
  <2> DEFINE f == s[i].first
             a == s[i].chunks
  <2>1. f \in Nat /\ a \in Nat \ {0}
    BY <1>4
  <2>2. w(i) = a * ChunkLen
    BY DEF Width
  <2> HIDE DEF f, a, w
  <2>3. a * ChunkLen \in Nat /\ ChunkLen <= a * ChunkLen /\ f * ChunkLen \in Nat
    BY <1>2, <2>1, SMT
  <2>4. QED
    BY <2>2, <2>3 DEF f
<1>6. \A i \in 1 .. m : Grows(s, i)
  <2> TAKE i \in 1 .. m
  <2>1. i \in 1 .. n
    BY <1>2, <1>3, SMT
  <2>2. CASE i = n
    <3>1. n = popcnt[limit]
      BY <1>2, <2>1, <2>2, SMT
    <3>2. popcnt[s[i].first + s[i].chunks] = popcnt[s[i].first] + 1
      BY <1>2, <1>4, <2>1, <2>2, <3>1, SMT
    <3>3. QED
      BY <1>4, <2>1, <3>2 DEF Grows
  <2>3. CASE i # n
    <3>1. i + 1 \in 1 .. n /\ (i + 1) - 1 = (i - 1) + 1
      BY <1>2, <2>1, <2>3, SMT
    <3>2. s[i].first + s[i].chunks = s[i + 1].first
      BY <1>4, <2>1, <2>3
    <3>3. popcnt[s[i].first + s[i].chunks] = popcnt[s[i].first] + 1
      BY <1>4, <2>1, <3>1, <3>2
    <3>4. QED
      BY <1>4, <2>1, <3>3 DEF Grows
  <2>4. QED
    BY <2>2, <2>3
<1>7. \A i \in 1 .. n : i # n => r(i) = w(i) + r(i + 1)
  <2> SUFFICES ASSUME NEW i \in 1 .. n, i # n
               PROVE  r(i) = w(i) + r(i + 1)
    OBVIOUS
  <2> DEFINE f == s[i].first
             a == s[i].chunks
             g == s[i + 1].first
  <2>1. f \in Nat /\ a \in Nat /\ g = f + a
    BY <1>4
  <2>2. total \in Int
    BY <1>2, SMT
  <2> HIDE DEF f, a, g
  <2>3. g * ChunkLen = f * ChunkLen + a * ChunkLen
    BY <1>2, <2>1, SMT
  <2>4. f * ChunkLen \in Int /\ a * ChunkLen \in Int
    BY <1>2, <2>1, SMT
  <2> DEFINE x == f * ChunkLen
             y == a * ChunkLen
             z == g * ChunkLen
  <2>5. r(i) = total - x /\ w(i) = y /\ r(i + 1) = total - z
    BY DEF Rest, Width, f, a, g
  <2>6. x \in Int /\ y \in Int /\ z = x + y
    BY <2>3, <2>4
  <2> HIDE DEF x, y, z, r, w
  <2>7. QED
    BY <2>2, <2>5, <2>6, SMT
<1>8. n # 0 => r(n) = w(n) + held
  <2> SUFFICES ASSUME n # 0
               PROVE  r(n) = w(n) + held
    OBVIOUS
  <2> DEFINE f == s[n].first
             a == s[n].chunks
  <2>1. n \in 1 .. n
    BY <1>2, SMT
  <2>2. f \in Nat /\ a \in Nat /\ limit = f + a
    BY <1>4, <2>1
  <2> HIDE DEF f, a
  <2>3. limit * ChunkLen = f * ChunkLen + a * ChunkLen
    BY <1>2, <2>2, SMT
  <2>4. f * ChunkLen \in Int /\ a * ChunkLen \in Int
    BY <1>2, <2>2, SMT
  <2> DEFINE x == f * ChunkLen
             y == a * ChunkLen
             z == limit * ChunkLen
  <2>5. r(n) = total - x /\ w(n) = y /\ total = z + held
    BY DEF Rest, Width, f, a
  <2>6. x \in Int /\ y \in Int /\ z = x + y
    BY <2>3, <2>4
  <2> HIDE DEF x, y, z, r, w
  <2>7. QED
    BY <1>2, <2>5, <2>6, SMT
<1>9. \A i \in 1 .. n : i > 1 => w(i) <= w(i - 1)
  <2> SUFFICES ASSUME NEW i \in 1 .. n, i > 1
               PROVE  w(i) <= w(i - 1)
    OBVIOUS
  <2> DEFINE a == s[i].chunks
             b == s[i - 1].chunks
  <2>1. a \in Nat /\ b \in Nat /\ a <= b
    <3>1. i - 1 \in 1 .. n
      BY <1>2, SMT
    <3>2. QED
      BY <1>4, <3>1
  <2>2. w(i) = a * ChunkLen /\ w(i - 1) = b * ChunkLen
    BY DEF Width
  <2> HIDE DEF a, b, w
  <2>3. QED
    BY <1>2, <2>1, <2>2, SMT
<1>10. \A i \in 1 .. m : i # m => 2 * w(i + 1) <= w(i)
  <2> SUFFICES ASSUME NEW i \in 1 .. m, i # m
               PROVE  2 * w(i + 1) <= w(i)
    OBVIOUS
  <2>1. /\ i \in 1 .. n /\ i # n /\ i + 1 \in 1 .. n /\ i + 1 \in 1 .. m
        /\ i + 1 > 1 /\ (i + 1) - 1 = i
    BY <1>2, <1>3, SMT
  <2> DEFINE a == s[i].chunks
             b == s[i + 1].chunks
  <2>2. s[i + 1].first = s[i].first + a /\ b <= a /\ a \in Nat /\ b \in Nat
    BY <1>4, <2>1
  <2>3. 2 * b <= a
    BY <1>6, <2>1, <2>2, HalfAsLarge
  <2>4. w(i) = a * ChunkLen /\ w(i + 1) = b * ChunkLen
    BY DEF Width
  <2> HIDE DEF a, b, w
  <2>5. 2 * b \in Nat /\ (2 * b) * ChunkLen <= a * ChunkLen
    BY <1>2, <2>2, <2>3, SMT
  <2>6. (2 * b) * ChunkLen = 2 * (b * ChunkLen)
    BY <1>2, <2>2, SMT
  <2>7. QED
    BY <2>4, <2>5, <2>6
<1> HIDE DEF n, w, r
<1>11. ASSUME NEW d \in Nat, \A e \in 0 .. d - 1 : e \in P
       PROVE  d \in P
  <2> SUFFICES ASSUME d < m
               PROVE  Cut(m - d)
    OBVIOUS
  <2> DEFINE i == m - d
  <2>1. i \in 1 .. m /\ i \in 1 .. n
    BY <1>2, <1>3, SMT
  <2>2. CASE d = 0
    <3>1. i = m
      BY <1>3, <2>2, SMT
    <3>2. CASE m = n /\ held > 0
      <4>1. r(n) = w(n) + held /\ w(n) \in Nat /\ ChunkLen <= w(n)
        BY <1>5, <1>8, <2>1, <3>1, <3>2, SMT
      <4>2. Cut(n)
        BY <1>2, <3>2, <4>1, SMT
      <4>3. QED
        BY <3>1, <3>2, <4>2
    <3>3. CASE m + 1 = n /\ held = 0
      <4>1. m \in 1 .. n /\ m # n /\ n \in 1 .. n /\ n > 1 /\ n - 1 = m /\ n # 0
        BY <1>2, <1>3, <2>1, <3>3, SMT
      <4>2. /\ r(m) = w(m) + r(n) /\ r(n) = w(n) + held /\ w(n) <= w(m)
            /\ w(m) \in Nat /\ w(n) \in Nat /\ ChunkLen <= w(n)
        BY <1>5, <1>7, <1>8, <1>9, <3>3, <4>1
      <4>3. Cut(m)
        BY <1>2, <3>3, <4>2, SMT
      <4>4. QED
        BY <3>1, <4>3
    <3>4. QED
      BY <3>2, <3>3 DEF n
  <2>3. CASE d # 0
    <3>1. d - 1 \in 0 .. d - 1 /\ d - 1 < m /\ m - (d - 1) = i + 1 /\ i # m /\ i # n
      BY <1>2, <1>3, <2>1, <2>3, SMT
    <3>2. Cut(i + 1)
      <4>1. Cut(m - (d - 1))
        BY <1>11, <3>1
      <4>2. QED
        BY <3>1, <4>1
    <3>3. r(i) = w(i) + r(i + 1) /\ 2 * w(i + 1) <= w(i) /\ w(i) \in Nat /\ w(i + 1) \in Nat
      <4>1. i + 1 \in 1 .. n
        BY <1>2, <2>1, <3>1, SMT
      <4>2. QED
        BY <1>5, <1>7, <1>10, <2>1, <3>1, <4>1
    <3> HIDE DEF i
    <3>4. Cut(i)
      BY <3>2, <3>3, SMT
    <3>5. QED
      BY <3>4 DEF i
  <2>4. QED
    BY <2>2, <2>3
<1>12. \A d \in Nat : d \in P
  <2> HIDE DEF P
  <2>1. QED
    BY <1>11, StrongInduction
<1>13. ASSUME NEW i \in 1 .. m
       PROVE  i \in 1 .. n /\ Cut(i)
  <2>1. m - i \in Nat /\ m - i < m /\ m - (m - i) = i /\ i \in 1 .. n
    BY <1>2, <1>3, SMT
  <2>2. Cut(m - (m - i))
    BY <1>12, <2>1
  <2>3. QED
    BY <2>1, <2>2
<1>14. QED
  BY <1>13 DEF n, w, r

\* A stack whose entries are complete subtrees of one message, labelled by
\* chunks counted from chunk o of it.
IsPart(k, flags, o, e) == e.cv = SubtreeCV(k, flags, o + e.first, e.chunks * ChunkLen)

PartStack(k, flags, o, s, limit) ==
  Covers(s, limit) /\ Binary(s) /\ \A i \in 1 .. Len(s) : IsPart(k, flags, o, s[i])

\* The first chunk after r entries, and the tree from there to the end.
EdgeStart(s, limit, r) == IF r = Len(s) THEN limit ELSE s[r + 1].first
PartOutput(k, flags, o, s, limit, total, r) ==
  TreeOutput(k, flags, o + EdgeStart(s, limit, r), total - EdgeStart(s, limit, r) * ChunkLen)

\* Where an entry ends, what follows it begins.
EdgeAt(k, flags, o, s, limit, total, i) ==
  /\ EdgeStart(s, limit, i - 1) = s[i].first /\ s[i].first \in Nat
  /\ EdgeStart(s, limit, i) = s[i].first + s[i].chunks
  /\ total - EdgeStart(s, limit, i) * ChunkLen = Rest(s, total, i) - Width(s, i)
  /\ PartOutput(k, flags, o, s, limit, total, i - 1)
       = TreeOutput(k, flags, o + s[i].first, Rest(s, total, i))
  /\ s[i].cv = SubtreeCV(k, flags, o + s[i].first, Width(s, i))

LEMMA PartEdge ==
  ASSUME NEW k, NEW flags, NEW o \in Nat, NEW s, NEW limit \in Nat,
         PartStack(k, flags, o, s, limit), NEW total \in Nat, NEW i \in 1 .. Len(s)
  PROVE  EdgeAt(k, flags, o, s, limit, total, i)
<1> DEFINE f == s[i].first
           a == s[i].chunks
<1>0. PICK S : s \in Seq(S)
  BY DEF PartStack, Covers
<1>1. Len(s) \in Nat /\ Covers(s, limit) /\ IsPart(k, flags, o, s[i]) /\ ChunkLen \in Nat
  BY <1>0, LenProperties, HashTreeAssumption DEF PartStack
<1>2. f \in Nat /\ a \in Nat /\ f + a = IF i = Len(s) THEN limit ELSE s[i + 1].first
  BY <1>1 DEF Covers
<1>3. (i - 1) + 1 = i /\ i - 1 # Len(s)
  BY <1>1, SMT
<1>4. EdgeStart(s, limit, i - 1) = f /\ EdgeStart(s, limit, i) = f + a
  BY <1>2, <1>3 DEF EdgeStart
<1> HIDE DEF f, a
<1>5. total - (f + a) * ChunkLen = (total - f * ChunkLen) - a * ChunkLen
  <2> DEFINE x == f * ChunkLen
             y == a * ChunkLen
             z == (f + a) * ChunkLen
  <2>1. x \in Nat /\ y \in Nat /\ z = x + y
    BY <1>1, <1>2, SMT
  <2> HIDE DEF x, y, z
  <2>2. total - z = (total - x) - y
    BY <1>1, <2>1, SMT
  <2>3. QED
    BY <2>2 DEF x, y, z
<1>6. QED
  BY <1>1, <1>2, <1>4, <1>5 DEF EdgeAt, PartOutput, IsPart, Rest, Width, f, a

\* Going up the right edge: the tree from an entry on is a parent of the entry
\* and of the tree after it.
LEMMA PartEdgeIsParent ==
  ASSUME NEW k, NEW flags, NEW o \in Nat, NEW s, NEW limit \in Nat,
         PartStack(k, flags, o, s, limit),
         NEW held \in 0 .. ChunkLen, NEW total \in Nat, total = limit * ChunkLen + held,
         held > 0 => Len(s) = popcnt[limit],
         NEW i \in 1 .. Len(s), held > 0 \/ i # Len(s)
  PROVE  PartOutput(k, flags, o, s, limit, total, i - 1)
           = parent_output(s[i].cv,
                           output_chaining_value(PartOutput(k, flags, o, s, limit, total, i)),
                           k, flags)
<1> DEFINE n == Len(s)
           m == IF held > 0 THEN n ELSE n - 1
           f == s[i].first
           a == s[i].chunks
           r == Rest(s, total, i)
           w == Width(s, i)
<1>0. PICK S : s \in Seq(S)
  BY DEF PartStack, Covers
<1>1. n \in Nat /\ Covers(s, limit) /\ Binary(s)
  BY <1>0, LenProperties DEF PartStack
<1>3. m \in Nat /\ i \in 1 .. m /\ ((m = n /\ held > 0) \/ (m + 1 = n /\ held = 0))
  <2> HIDE DEF n
  <2>1. i \in 1 .. n
    BY DEF n
  <2>2. CASE held > 0
    <3>1. m = n
      BY <2>2
    <3> HIDE DEF m
    <3>2. m \in Nat /\ i \in 1 .. m
      BY <1>1, <2>1, <3>1
    <3>3. QED
      BY <2>2, <3>1, <3>2
  <2>3. CASE ~ (held > 0)
    <3>1. held = 0 /\ i # n
      BY <2>3, HashTreeAssumption, SMT DEF n
    <3>2. n - 1 \in Nat /\ i \in 1 .. n - 1 /\ (n - 1) + 1 = n
      BY <1>1, <2>1, <3>1, SMT
    <3>3. m = n - 1
      BY <2>3
    <3> HIDE DEF m
    <3>4. QED
      BY <3>1, <3>2, <3>3
  <2>4. QED
    BY <2>2, <2>3
<1> HIDE DEF m
<1>4. r \in Nat /\ w < r /\ r <= 2 * w
  BY <1>1, <1>3, Spine
<1>5. /\ EdgeStart(s, limit, i) = f + a /\ total - EdgeStart(s, limit, i) * ChunkLen = r - w
      /\ PartOutput(k, flags, o, s, limit, total, i - 1) = TreeOutput(k, flags, o + f, r)
      /\ s[i].cv = SubtreeCV(k, flags, o + f, w) /\ f \in Nat
  <2>1. EdgeAt(k, flags, o, s, limit, total, i)
    BY PartEdge
  <2>2. QED
    BY <2>1 DEF EdgeAt
<1>6. PowerOfTwo(a)
  BY <1>1 DEF Binary, Complete
<1>7. w = a * ChunkLen
  BY DEF Width
<1> HIDE DEF r, w, f, a
<1>8. o + f \in Nat /\ (o + f) + a = o + (f + a) /\ f + a \in Nat
  BY <1>5, <1>6, SMT DEF PowerOfTwo
<1>9. TreeOutput(k, flags, o + f, r)
        = parent_output(SubtreeCV(k, flags, o + f, w), SubtreeCV(k, flags, o + (f + a), r - w),
                        k, flags)
  <2> DEFINE c == o + f
  <2>1. c \in Nat /\ c + a = o + (f + a)
    BY <1>8
  <2> HIDE DEF c
  <2>2. TreeOutput(k, flags, c, r)
          = parent_output(SubtreeCV(k, flags, c, w), SubtreeCV(k, flags, c + a, r - w), k, flags)
    BY <1>4, <1>6, <1>7, <2>1, TreeOfSides
  <2>3. QED
    BY <2>1, <2>2 DEF c
<1>10. output_chaining_value(PartOutput(k, flags, o, s, limit, total, i))
         = SubtreeCV(k, flags, o + (f + a), r - w)
  BY <1>5 DEF PartOutput, SubtreeCV
<1>11. QED
  BY <1>5, <1>9, <1>10

\* The same for a message that begins at chunk 0.
SubtreeStack(k, flags, s, limit) ==
  Covers(s, limit) /\ Binary(s) /\ \A i \in 1 .. Len(s) : IsSubtree(k, flags, s[i])

EdgeOutput(k, flags, s, limit, total, r) ==
  TreeOutput(k, flags, EdgeStart(s, limit, r), total - EdgeStart(s, limit, r) * ChunkLen)

\* A stack of subtrees of a message is one whose chunks are counted from 0.
LEMMA WholeIsPart ==
  ASSUME NEW k, NEW flags, NEW s, NEW limit \in Nat, SubtreeStack(k, flags, s, limit)
  PROVE  PartStack(k, flags, 0, s, limit)
<1>1. ASSUME NEW i \in 1 .. Len(s)
      PROVE  IsPart(k, flags, 0, s[i])
  <2>1. s[i].first \in Nat /\ IsSubtree(k, flags, s[i])
    BY DEF SubtreeStack, Covers
  <2>2. 0 + s[i].first = s[i].first
    BY <2>1, SMT
  <2>3. QED
    BY <2>1, <2>2 DEF IsPart, IsSubtree
<1>2. QED
  BY <1>1 DEF SubtreeStack, PartStack

\* So is the tree from an entry on.
LEMMA EdgeIsPart ==
  ASSUME NEW k, NEW flags, NEW s, NEW limit \in Nat, SubtreeStack(k, flags, s, limit),
         NEW total, NEW r \in 0 .. Len(s)
  PROVE  EdgeOutput(k, flags, s, limit, total, r) = PartOutput(k, flags, 0, s, limit, total, r)
<1>0. PICK S : s \in Seq(S)
  BY DEF SubtreeStack, Covers
<1>1. Len(s) \in Nat
  BY <1>0, LenProperties
<1>2. r # Len(s) => r + 1 \in 1 .. Len(s)
  BY <1>1, SMT
<1>3. EdgeStart(s, limit, r) \in Nat
  BY <1>2 DEF EdgeStart, SubtreeStack, Covers
<1>4. 0 + EdgeStart(s, limit, r) = EdgeStart(s, limit, r)
  BY <1>3, SMT
<1>5. QED
  BY <1>4 DEF EdgeOutput, PartOutput

\* Where an entry ends, what follows it begins.
LEMMA EdgeAfter ==
  ASSUME NEW k, NEW flags, NEW s, NEW limit \in Nat, SubtreeStack(k, flags, s, limit),
         NEW total \in Nat, NEW i \in 1 .. Len(s)
  PROVE  /\ EdgeStart(s, limit, i - 1) = s[i].first /\ s[i].first \in Nat
         /\ EdgeStart(s, limit, i) = s[i].first + s[i].chunks
         /\ total - EdgeStart(s, limit, i) * ChunkLen = Rest(s, total, i) - Width(s, i)
         /\ EdgeOutput(k, flags, s, limit, total, i - 1)
              = TreeOutput(k, flags, s[i].first, Rest(s, total, i))
         /\ s[i].cv = SubtreeCV(k, flags, s[i].first, Width(s, i))
<1>1. PartStack(k, flags, 0, s, limit) /\ 0 \in Nat
  BY WholeIsPart
<1>2. /\ EdgeStart(s, limit, i - 1) = s[i].first /\ s[i].first \in Nat
      /\ EdgeStart(s, limit, i) = s[i].first + s[i].chunks
      /\ total - EdgeStart(s, limit, i) * ChunkLen = Rest(s, total, i) - Width(s, i)
  <2>1. EdgeAt(k, flags, 0, s, limit, total, i)
    BY <1>1, PartEdge
  <2>2. QED
    BY <2>1 DEF EdgeAt
<1>3. EdgeOutput(k, flags, s, limit, total, i - 1)
        = TreeOutput(k, flags, s[i].first, Rest(s, total, i))
  <2>1. /\ EdgeStart(s, limit, i - 1) = s[i].first
        /\ total - s[i].first * ChunkLen = Rest(s, total, i)
    BY <1>2 DEF Rest
  <2>2. QED
    BY <2>1 DEF EdgeOutput
<1>4. s[i].cv = SubtreeCV(k, flags, s[i].first, Width(s, i))
  BY DEF SubtreeStack, IsSubtree, Width
<1>5. QED
  BY <1>2, <1>3, <1>4

\* Going up the right edge of the tree over a message.
LEMMA EdgeIsParent ==
  ASSUME NEW k, NEW flags, NEW s, NEW limit \in Nat, SubtreeStack(k, flags, s, limit),
         NEW held \in 0 .. ChunkLen, NEW total \in Nat, total = limit * ChunkLen + held,
         held > 0 => Len(s) = popcnt[limit],
         NEW i \in 1 .. Len(s), held > 0 \/ i # Len(s)
  PROVE  EdgeOutput(k, flags, s, limit, total, i - 1)
           = parent_output(s[i].cv,
                           output_chaining_value(EdgeOutput(k, flags, s, limit, total, i)),
                           k, flags)
<1>0. PICK S : s \in Seq(S)
  BY DEF SubtreeStack, Covers
<1>1. i - 1 \in 0 .. Len(s) /\ i \in 0 .. Len(s)
  BY <1>0, LenProperties, SMT
<1>2. PartStack(k, flags, 0, s, limit) /\ 0 \in Nat
  BY WholeIsPart
<1>3. PartOutput(k, flags, 0, s, limit, total, i - 1)
        = parent_output(s[i].cv,
                        output_chaining_value(PartOutput(k, flags, 0, s, limit, total, i)), k, flags)
  BY <1>2, PartEdgeIsParent
<1>4. QED
  BY <1>1, <1>3, EdgeIsPart

\* The labels of a stack that holds chaining values alone.
Labels(s, b) ==
  /\ \E S : s \in Seq(S)
  /\ Len(s) = Len(b)
  /\ \A i \in 1 .. Len(b) : s[i] = b[i].cv
=============================================================================
