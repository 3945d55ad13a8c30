------------------------- MODULE SubtreeWideProofs --------------------------
(***************************************************************************)
(* compress_subtree_to_parent_node computes the two chaining values below  *)
(* the top of the tree, for every length of the input and every degree of  *)
(* the machine that is a power of two, in whatever order the tasks run.    *)
(*                                                                         *)
(* The calls return between one and as many values as the machine has      *)
(* lanes, of subtrees of different sizes, so that what they return is no   *)
(* layer of the tree.  What makes it right is that merging the values, the *)
(* left side as large a power of two as leaves one for the right, gives    *)
(* the chaining value of the whole subtree (Condensed); a layer of         *)
(* pairwise parents does not change that, and neither does putting the     *)
(* values of the right side behind those of the left one.                  *)
(***************************************************************************)

EXTENDS SubtreeWide, HashTreeProofs

-----------------------------------------------------------------------------
(* Merging a run of chaining values. *)

parent_cv(l, r) == output_chaining_value(parent_output(l, r, key, flags))

\* How many of m values go to the left side.
Half(m) == round_down_to_power_of_2[m - 1]

\* The values that m neighbours in a merge to, wherever the first one is, from
\* those that fewer neighbours merge to.
Combined(a, f, m) ==
  IF m <= 1 THEN [i \in Nat |-> a[i]]
  ELSE LET l == Half(m)
       IN  [i \in Nat |-> parent_cv(f[l][i], f[m - l][i + l])]

\* The value that the m values from the i-th on merge to.
Condensed(a, i, m) ==
  LET merged[n \in Nat] == Combined(a, merged, n)
  IN  merged[m][i]

\* The left side has a power of two of the values and leaves some for the right.
LEMMA HalfOf ==
  ASSUME NEW m \in Nat, m > 1
  PROVE  LET l == Half(m)
         IN  /\ PowerOfTwo(l) /\ l \in 1 .. m - 1 /\ m - l \in 1 .. m - 1 /\ m <= 2 * l
             /\ l \in 0 .. m - 1 /\ m - l \in 0 .. m - 1
<1> DEFINE l == Half(m)
<1>1. m - 1 \in Nat \ {0}
  BY SMT
<1>2. PowerOfTwo(l) /\ l <= m - 1 /\ m - 1 < 2 * l
  BY <1>1, RoundDownIsPower DEF Half
<1>3. l \in Nat \ {0}
  BY <1>2 DEF PowerOfTwo
<1> HIDE DEF l
<1>4. l \in 1 .. m - 1 /\ m - l \in 1 .. m - 1 /\ m <= 2 * l
      /\ l \in 0 .. m - 1 /\ m - l \in 0 .. m - 1
  BY <1>2, <1>3, SMT
<1>5. QED
  BY <1>2, <1>4 DEF l

\* What m values merge to depends on what fewer of them merge to.
LEMMA CombinedOfFewer ==
  ASSUME NEW a, NEW m \in Nat, NEW f, NEW g, \A i \in 0 .. m - 1 : f[i] = g[i]
  PROVE  Combined(a, f, m) = Combined(a, g, m)
<1>1. CASE m <= 1
  BY <1>1 DEF Combined
<1>2. CASE ~ (m <= 1)
  <2> DEFINE l == Half(m)
  <2>1. m > 1
    BY <1>2, SMT
  <2>2. f[l] = g[l] /\ f[m - l] = g[m - l]
    BY <2>1, HalfOf
  <2> HIDE DEF l
  <2>3. QED
    BY <1>2, <2>2, Zenon DEF Combined, l
<1>3. QED
  BY <1>1, <1>2

\* What f satisfies if it is the beginning of that recursion.
Combines(a, f, m) == \A n \in 0 .. m : f[n] = Combined(a, f, n)

\* Two beginnings of the recursion agree as far as both go.
LEMMA CombinesAgree ==
  ASSUME NEW a, NEW m \in Nat, NEW p \in Nat, NEW f, NEW g,
         Combines(a, f, m), Combines(a, g, p)
  PROVE  \A n \in 0 .. m : n <= p => f[n] = g[n]
<1> DEFINE P == {n \in Nat : n <= m /\ n <= p => f[n] = g[n]}
<1>1. ASSUME NEW n \in Nat, \A k \in 0 .. n - 1 : k \in P
      PROVE  n \in P
  <2> SUFFICES ASSUME n <= m, n <= p
               PROVE  f[n] = g[n]
    OBVIOUS
  <2>1. n \in 0 .. m /\ n \in 0 .. p /\ \A k \in 0 .. n - 1 : k <= m /\ k <= p
    BY SMT
  <2>2. \A k \in 0 .. n - 1 : f[k] = g[k]
    BY <1>1, <2>1
  <2>3. Combined(a, f, n) = Combined(a, g, n)
    BY <2>2, CombinedOfFewer
  <2>4. f[n] = Combined(a, f, n) /\ g[n] = Combined(a, g, n)
    BY <2>1 DEF Combines
  <2>5. QED
    BY <2>3, <2>4
<1>2. \A n \in Nat : n \in P
  BY <1>1, StrongInduction
<1> HIDE DEF P
<1>3. \A n \in 0 .. m : n \in P /\ n <= m
  BY <1>2, SMT
<1>4. QED
  BY <1>3 DEF P

\* The recursion has a beginning of every length.
LEMMA CombinesExist ==
  ASSUME NEW a, NEW m \in Nat
  PROVE  \E f : f = [n \in 0 .. m |-> Combined(a, f, n)]
<1> DEFINE P == {p \in Nat : \E f : f = [n \in 0 .. p |-> Combined(a, f, n)]}
<1>1. ASSUME NEW p \in Nat, \A k \in 0 .. p - 1 : k \in P
      PROVE  p \in P
  <2>1. \E f : \A n \in 0 .. p - 1 : f[n] = Combined(a, f, n)
    <3>1. CASE p = 0
      <4>1. 0 .. p - 1 = {}
        BY <3>1, SMT
      <4>2. QED
        BY <4>1
    <3>2. CASE p # 0
      <4>1. p - 1 \in 0 .. p - 1
        BY <3>2, SMT
      <4>2. PICK f : f = [n \in 0 .. p - 1 |-> Combined(a, f, n)]
        BY <1>1, <4>1
      <4>3. ASSUME NEW n \in 0 .. p - 1
            PROVE  f[n] = Combined(a, f, n)
        BY <4>2
      <4>4. QED
        BY <4>3
    <3>3. QED
      BY <3>1, <3>2
  <2>2. PICK f : \A n \in 0 .. p - 1 : f[n] = Combined(a, f, n)
    BY <2>1
  <2> DEFINE g == [n \in 0 .. p |-> Combined(a, f, n)]
  <2>3. ASSUME NEW n \in 0 .. p
        PROVE  Combined(a, g, n) = Combined(a, f, n)
    <3>1. n \in Nat /\ \A i \in 0 .. n - 1 : i \in 0 .. p - 1 /\ i \in 0 .. p
      BY SMT
    <3>2. \A i \in 0 .. n - 1 : g[i] = f[i]
      BY <2>2, <3>1
    <3> HIDE DEF g
    <3>3. QED
      BY <3>1, <3>2, CombinedOfFewer
  <2>4. g = [n \in 0 .. p |-> Combined(a, g, n)]
    <3> DEFINE u(n) == Combined(a, g, n)
               v(n) == Combined(a, f, n)
    <3>1. \A n \in 0 .. p : u(n) = v(n)
      BY <2>3
    <3>2. g = [n \in 0 .. p |-> v(n)]
      OBVIOUS
    <3> HIDE DEF u, v, g
    <3>3. g = [n \in 0 .. p |-> u(n)]
      BY <3>1, <3>2
    <3>4. QED
      BY <3>3 DEF u
  <2> HIDE DEF g
  <2>5. QED
    BY <2>4
<1>2. \A p \in Nat : p \in P
  BY <1>1, StrongInduction
<1>3. QED
  BY <1>2

\* The recursion of Condensed defines a function.
LEMMA MergingExists ==
  ASSUME NEW a
  PROVE  \E f : f = [n \in Nat |-> Combined(a, f, n)]
<1> DEFINE Is(f, m) == f = [n \in 0 .. m |-> Combined(a, f, n)]
           F(m) == CHOOSE f : Is(f, m)
           h == [n \in Nat |-> F(n)[n]]
<1>1. \A m \in Nat : Combines(a, F(m), m)
  <2> SUFFICES ASSUME NEW m \in Nat
               PROVE  Combines(a, F(m), m)
    OBVIOUS
  <2>1. Is(F(m), m)
    BY CombinesExist
  <2> HIDE DEF F
  <2>2. QED
    BY <2>1 DEF Combines
<1> HIDE DEF F, Is
<1>2. ASSUME NEW n \in Nat
      PROVE  h[n] = Combined(a, h, n)
  <2>1. ASSUME NEW i \in 0 .. n - 1
        PROVE  h[i] = F(n)[i]
    <3>1. i \in Nat /\ i \in 0 .. i /\ i <= n
      BY SMT
    <3> DEFINE f == F(i)
               g == F(n)
    <3>2. Combines(a, f, i) /\ Combines(a, g, n)
      BY <1>1, <3>1
    <3> HIDE DEF f, g
    <3>3. \A j \in 0 .. i : j <= n => f[j] = g[j]
      BY <3>1, <3>2, CombinesAgree, SMTT(30)
    <3>4. QED
      BY <3>1, <3>3 DEF f, g
  <2> HIDE DEF h
  <2>2. Combined(a, h, n) = Combined(a, F(n), n)
    BY <2>1, CombinedOfFewer
  <2>3. n \in 0 .. n
    BY SMT
  <2>4. F(n)[n] = Combined(a, F(n), n)
    BY <1>1, <2>3 DEF Combines
  <2>5. QED
    BY <2>2, <2>4 DEF h
<1>3. h = [n \in Nat |-> Combined(a, h, n)]
  <2> DEFINE u(n) == Combined(a, h, n)
             v(n) == F(n)[n]
  <2>1. \A n \in Nat : u(n) = v(n)
    <3> HIDE DEF u
    <3>1. \A n \in Nat : h[n] = v(n)
      OBVIOUS
    <3> HIDE DEF v, h
    <3>2. \A n \in Nat : h[n] = u(n)
      BY <1>2 DEF u
    <3>3. QED
      BY <3>1, <3>2
  <2>2. h = [n \in Nat |-> v(n)]
    OBVIOUS
  <2> HIDE DEF u, v, h
  <2>3. h = [n \in Nat |-> u(n)]
    BY <2>1, <2>2
  <2>4. QED
    BY <2>3 DEF u
<1> HIDE DEF h
<1>4. QED
  BY <1>3

\* One value is what it is; of more, the two sides are merged first.
LEMMA CondensedRecursion ==
  ASSUME NEW a, NEW i \in Nat, NEW m \in Nat
  PROVE  /\ m <= 1 => Condensed(a, i, m) = a[i]
         /\ m > 1 => Condensed(a, i, m) =
                       parent_cv(Condensed(a, i, Half(m)), Condensed(a, i + Half(m), m - Half(m)))
<1> DEFINE T == CHOOSE f : f = [n \in Nat |-> Combined(a, f, n)]
<1>1. T = [n \in Nat |-> Combined(a, T, n)]
  BY MergingExists
<1>2. \A j, n : Condensed(a, j, n) = T[n][j]
  BY DEF Condensed
<1> HIDE DEF T
<1>3. \A n \in Nat : T[n] = Combined(a, T, n)
  BY <1>1
<1>4. CASE m <= 1
  <2>1. T[m][i] = a[i]
    BY <1>3, <1>4 DEF Combined
  <2>2. ~ (m > 1)
    BY <1>4, SMT
  <2>3. QED
    BY <1>2, <2>1, <2>2
<1>5. CASE m > 1
  <2> DEFINE l == Half(m)
  <2>1. l \in 1 .. m - 1 /\ ~ (m <= 1)
    BY <1>5, HalfOf, SMT
  <2> HIDE DEF l
  <2>2. T[m][i] = parent_cv(T[l][i], T[m - l][i + l])
    BY <1>3, <2>1 DEF Combined, l
  <2>3. QED
    BY <1>2, <2>1, <2>2 DEF l
<1>6. QED
  BY <1>4, <1>5, SMT

\* The m values of a from the i-th on are those of b from the j-th on.
SameRun(a, i, b, j, m) == \A x \in 0 .. m - 1 : a[i + x] = b[j + x]

\* Merging depends on the values that are merged and not on where they are.
LEMMA CondensedSame ==
  ASSUME NEW a, NEW b, NEW m \in Nat, m > 0, NEW i \in Nat, NEW j \in Nat,
         SameRun(a, i, b, j, m)
  PROVE  Condensed(a, i, m) = Condensed(b, j, m)
<1> DEFINE Same(n) == \A p, q \in Nat :
             (\A x \in 0 .. n - 1 : a[p + x] = b[q + x]) => Condensed(a, p, n) = Condensed(b, q, n)
           P == {n \in Nat : n > 0 => Same(n)}
<1>1. ASSUME NEW n \in Nat, \A k \in 0 .. n - 1 : k \in P
      PROVE  n \in P
  <2> SUFFICES ASSUME n > 0, NEW p \in Nat, NEW q \in Nat,
                      \A x \in 0 .. n - 1 : a[p + x] = b[q + x]
               PROVE  Condensed(a, p, n) = Condensed(b, q, n)
    OBVIOUS
  <2>1. CASE n <= 1
    <3>1. 0 \in 0 .. n - 1 /\ p + 0 = p /\ q + 0 = q
      BY <2>1, SMT
    <3>2. a[p] = b[q]
      BY <3>1
    <3>3. QED
      BY <2>1, <3>2, CondensedRecursion
  <2>2. CASE n > 1
    <3> DEFINE l == Half(n)
               r == n - l
    <3>1. l \in 1 .. n - 1 /\ r \in 1 .. n - 1 /\ l \in 0 .. n - 1 /\ r \in 0 .. n - 1
      BY <2>2, HalfOf
    <3>2. /\ Condensed(a, p, n) = parent_cv(Condensed(a, p, l), Condensed(a, p + l, r))
          /\ Condensed(b, q, n) = parent_cv(Condensed(b, q, l), Condensed(b, q + l, r))
      BY <2>2, CondensedRecursion
    <3>3. r + l = n
      <4> HIDE DEF l
      <4>1. QED
        BY <3>1, SMT
    <3> HIDE DEF l, r
    <3>4. Same(l) /\ Same(r)
      <4>1. l > 0 /\ r > 0
        BY <3>1, SMT
      <4> HIDE DEF Same
      <4>2. QED
        BY <1>1, <3>1, <4>1
    <3>5. Condensed(a, p, l) = Condensed(b, q, l)
      <4>1. \A x \in 0 .. l - 1 : x \in 0 .. n - 1
        BY <3>1, SMT
      <4>2. QED
        BY <3>4, <4>1
    <3>6. Condensed(a, p + l, r) = Condensed(b, q + l, r)
      <4>1. /\ p + l \in Nat /\ q + l \in Nat
            /\ \A x \in 0 .. r - 1 : l + x \in 0 .. n - 1 /\ p + (l + x) = (p + l) + x
                                                         /\ q + (l + x) = (q + l) + x
        BY <3>1, <3>3, SMT
      <4>2. \A x \in 0 .. r - 1 : a[(p + l) + x] = b[(q + l) + x]
        BY <4>1
      <4>3. QED
        BY <3>4, <4>1, <4>2
    <3>7. QED
      BY <3>2, <3>5, <3>6
  <2>3. QED
    BY <2>1, <2>2, SMT
<1> HIDE DEF P
<1>2. \A n \in Nat : n \in P
  BY <1>1, StrongInduction
<1>3. Same(m)
  <2> HIDE DEF Same
  <2>1. QED
    BY <1>2 DEF P
<1>4. QED
  BY <1>3 DEF SameRun

\* A power of two of values and at most as many behind them are the two sides.
LEMMA CondensedSides ==
  ASSUME NEW a, NEW l, PowerOfTwo(l), NEW r \in 1 .. l
  PROVE  Condensed(a, 1, l + r) = parent_cv(Condensed(a, 1, l), Condensed(a, l + 1, r))
<1> DEFINE m == l + r
<1>1. l \in Nat \ {0}
  BY DEF PowerOfTwo
<1>2. m \in Nat /\ m > 1 /\ m - l = r /\ 1 + l = l + 1 /\ 1 \in Nat
      /\ m - 1 \in Nat /\ l <= m - 1 /\ m - 1 < 2 * l
  BY <1>1, SMT
<1> HIDE DEF m
<1>3. Half(m) = l
  BY <1>2, RoundedDown DEF Half
<1>4. Condensed(a, 1, m) =
        parent_cv(Condensed(a, 1, Half(m)), Condensed(a, 1 + Half(m), m - Half(m)))
  <2> DEFINE j == 1
  <2>1. j \in Nat
    OBVIOUS
  <2> HIDE DEF j
  <2>2. Condensed(a, j, m) =
          parent_cv(Condensed(a, j, Half(m)), Condensed(a, j + Half(m), m - Half(m)))
    BY <1>2, <2>1, CondensedRecursion
  <2>3. QED
    BY <2>2 DEF j
<1>5. QED
  BY <1>2, <1>3, <1>4 DEF m

\* Half as many values, rounded up, are halved where the values are.
LEMMA HalfOfLayer ==
  ASSUME NEW m \in Nat, m > 2
  PROVE  LET h == (m + 1) \div 2
         IN  /\ h \in Nat /\ h > 1
             /\ Half(m) = 2 * Half(h)
             /\ (m - Half(m) + 1) \div 2 = h - Half(h)
             /\ (Half(m) + 1) \div 2 = Half(h)
<1> DEFINE h == (m + 1) \div 2
           l == Half(h)
<1>1. h \in Nat /\ h > 1 /\ h - 1 = (m - 1) \div 2 /\ m - 1 \in Nat /\ ~ (m - 1 <= 1)
  BY SMT
<1>2. Half(m) = 2 * l
  <2>1. Half(m) = 2 * round_down_to_power_of_2[(m - 1) \div 2]
    BY <1>1, RoundDownDef DEF Half
  <2>2. QED
    BY <1>1, <2>1 DEF Half
<1>3. l \in 1 .. h - 1
  BY <1>1, HalfOf
<1>4. (m - 2 * l + 1) \div 2 = h - l /\ (2 * l + 1) \div 2 = l
  <2>1. (m = 2 * h \/ m = 2 * h - 1) /\ h \in Nat
    BY SMT
  <2> HIDE DEF h, l
  <2>2. QED
    BY <1>3, <2>1, SMT
<1>5. QED
  BY <1>1, <1>2, <1>4

\* A layer of parents merges to what the values it is made of merge to.
THEOREM CondensedLayer ==
  ASSUME NEW a, NEW n \in Nat, n > 0
  PROVE  Condensed(compress_parents_parallel(a, n), 1, (n + 1) \div 2) = Condensed(a, 1, n)
<1> DEFINE w == compress_parents_parallel(a, n)
           Fits(j, m) == 2 * j - 2 + m <= n /\ (m % 2 = 0 \/ 2 * j - 2 + m = n)
           Layered(m) == \A j \in Nat \ {0} :
             Fits(j, m) => Condensed(w, j, (m + 1) \div 2) = Condensed(a, 2 * j - 1, m)
           P == {m \in Nat : m > 0 => Layered(m)}
<1>1. ASSUME NEW m \in Nat, \A k \in 0 .. m - 1 : k \in P
      PROVE  m \in P
  <2> SUFFICES ASSUME m > 0, NEW j \in Nat \ {0}, Fits(j, m)
               PROVE  Condensed(w, j, (m + 1) \div 2) = Condensed(a, 2 * j - 1, m)
    OBVIOUS
  <2>0. j \in Nat /\ 2 * j - 1 \in Nat
    BY SMT
  <2>1. CASE m = 1
    <3>1. (m + 1) \div 2 = 1 /\ j \in 1 .. (n + 1) \div 2 /\ ~ (2 * j <= n) /\ n = 2 * j - 1
      BY <2>1, SMT
    <3>2. w[j] = a[2 * j - 1]
      BY <3>1 DEF compress_parents_parallel
    <3>3. Condensed(w, j, 1) = w[j] /\ Condensed(a, 2 * j - 1, 1) = a[2 * j - 1]
      BY <2>0, CondensedRecursion
    <3>4. QED
      BY <2>1, <3>1, <3>2, <3>3
  <2>2. CASE m = 2
    <3>1. (m + 1) \div 2 = 1 /\ j \in 1 .. (n + 1) \div 2 /\ 2 * j <= n /\ 2 * j \in Nat
      BY <2>2, SMT
    <3>2. w[j] = parent_cv(a[2 * j - 1], a[2 * j])
      BY <3>1 DEF compress_parents_parallel, parent_cv
    <3>3. Half(2) = 1
      BY RoundDownDef, SMT DEF Half
    <3>4. Condensed(w, j, 1) = w[j]
      BY <2>0, CondensedRecursion
    <3>5. Condensed(a, 2 * j - 1, 2) = parent_cv(a[2 * j - 1], a[2 * j])
      <4> DEFINE p == 2 * j - 1
                 two == 2
                 one == 1
      <4>1. two \in Nat /\ two > 1 /\ one \in Nat /\ one <= 1 /\ p + one = 2 * j /\ two - one = one
            /\ p + one \in Nat
        BY <2>0, SMT
      <4>2. p \in Nat /\ Half(two) = one
        BY <2>0, <3>3
      <4> HIDE DEF p, one, two
      <4>c. Condensed(a, p, two) =
              parent_cv(Condensed(a, p, Half(two)), Condensed(a, p + Half(two), two - Half(two)))
        BY <4>1, <4>2, CondensedRecursion
      <4>3. Condensed(a, p, two) = parent_cv(Condensed(a, p, one), Condensed(a, p + one, one))
        BY <4>1, <4>2, <4>c
      <4>4. Condensed(a, p, one) = a[p]
        BY <4>1, <4>2, CondensedRecursion
      <4> DEFINE q == p + one
      <4>a. q \in Nat
        BY <4>1
      <4> HIDE DEF q
      <4>b. Condensed(a, q, one) = a[q]
        BY <4>1, <4>a, CondensedRecursion
      <4>5. QED
        BY <4>1, <4>3, <4>4, <4>b DEF p, q, two
    <3>6. QED
      BY <2>2, <3>1, <3>2, <3>4, <3>5
  <2>3. CASE m > 2
    <3> DEFINE h == (m + 1) \div 2
               l == Half(h)
               p == 2 * j - 1
    <3>1. /\ h \in Nat /\ h > 1 /\ Half(m) = 2 * l
          /\ (m - Half(m) + 1) \div 2 = h - l /\ (Half(m) + 1) \div 2 = l
      BY <2>3, HalfOfLayer
    <3>2. l \in 1 .. h - 1
      BY <3>1, HalfOf
    <3>3. Half(m) \in 1 .. m - 1 /\ m > 1
      BY <2>3, HalfOf, SMT
    <3>4. Condensed(w, j, h) = parent_cv(Condensed(w, j, l), Condensed(w, j + l, h - l))
      BY <2>0, <3>1, CondensedRecursion
    <3>5. Condensed(a, p, m) =
            parent_cv(Condensed(a, p, Half(m)), Condensed(a, p + Half(m), m - Half(m)))
      BY <2>0, <3>3, CondensedRecursion
    <3> HIDE DEF h, l, w
    <3> DEFINE L == Half(m)
               r == m - L
    <3>6. L \in 1 .. m - 1 /\ L = 2 * l /\ (L + 1) \div 2 = l /\ (r + 1) \div 2 = h - l
      BY <3>1, <3>3
    <3> HIDE DEF L
    <3>7. r \in 1 .. m - 1 /\ r + L = m
      BY <3>6, SMT
    <3>8. L \in 0 .. m - 1 /\ r \in 0 .. m - 1 /\ L > 0 /\ r > 0
      BY <3>6, <3>7, SMT
    <3> HIDE DEF r, Layered
    <3>9. Layered(L) /\ Layered(r)
      BY <1>1, <3>8
    <3>10. Fits(j, L)
      BY <3>2, <3>6, <3>7, SMT
    <3>11. j + l \in Nat \ {0} /\ Fits(j + l, r) /\ 2 * (j + l) - 1 = p + L
      BY <3>2, <3>6, <3>7, SMT
    <3> HIDE DEF Fits, p
    <3>12. Condensed(w, j, l) = Condensed(a, p, L)
      BY <3>6, <3>9, <3>10 DEF Layered, p
    <3>13. Condensed(w, j + l, h - l) = Condensed(a, p + L, r)
      BY <3>6, <3>9, <3>11 DEF Layered
    <3>14. QED
      BY <3>4, <3>5, <3>12, <3>13 DEF L, r, h, p
  <2>4. QED
    BY <2>1, <2>2, <2>3, SMT
<1> HIDE DEF P
<1>2. \A m \in Nat : m \in P
  BY <1>1, StrongInduction
<1> HIDE DEF w
<1>3. Layered(n)
  <2> HIDE DEF Layered
  <2>1. QED
    BY <1>2 DEF P
<1> DEFINE one == 1
<1>4. one \in Nat \ {0} /\ Fits(one, n) /\ 2 * one - 1 = one
  BY SMT
<1> HIDE DEF one, Fits
<1>5. Condensed(w, one, (n + 1) \div 2) = Condensed(a, 2 * one - 1, n)
  BY <1>3, <1>4
<1>6. QED
  BY <1>4, <1>5 DEF one, w

-----------------------------------------------------------------------------
(* What a call that does not recurse returns. *)

\* v is a sequence of n values.
OfLength(v, n) == /\ \E S : v \in Seq(S)
                  /\ n \in Nat /\ Len(v) = n /\ DOMAIN v = 1 .. n

\* A function on the numbers up to n is a sequence of n values.
LEMMA RunOfLength ==
  ASSUME NEW n \in Nat, NEW f, f = [i \in 1 .. n |-> f[i]]
  PROVE  OfLength(f, n)
<1> DEFINE S == {f[i] : i \in 1 .. n}
<1>1. f \in [1 .. n -> S]
  <2>1. \A i \in 1 .. n : f[i] \in S
    OBVIOUS
  <2> HIDE DEF S
  <2>2. QED
    BY <2>1
<1> HIDE DEF S
<1>2. f \in Seq(S)
  BY <1>1, SeqDef
<1>3. Len(f) \in Nat /\ DOMAIN f = 1 .. Len(f) /\ DOMAIN f = 1 .. n
  BY <1>1, <1>2, LenProperties
<1>4. Len(f) = n
  BY <1>3, SMT
<1>5. QED
  BY <1>2, <1>3, <1>4 DEF OfLength

\* w is u, a run of m values, and v behind it, of n.
Runs(w, u, m, v, n) ==
  /\ OfLength(w, m + n)
  /\ \A i \in 1 .. m : w[i] = u[i]
  /\ \A i \in 1 .. n : w[m + i] = v[i]

\* One sequence behind another.
LEMMA RunBehind ==
  ASSUME NEW m \in Nat, NEW n \in Nat, NEW u, NEW v, OfLength(u, m), OfLength(v, n)
  PROVE  Runs(u \o v, u, m, v, n)
<1>1. PICK S : u \in Seq(S)
  BY DEF OfLength
<1>2. PICK T : v \in Seq(T)
  BY DEF OfLength
<1> DEFINE U == S \cup T
           w == u \o v
<1>3. u \in Seq(U) /\ v \in Seq(U)
  BY <1>1, <1>2, SeqMonotonic
<1>4. Len(u) = m /\ Len(v) = n
  BY DEF OfLength
<1> HIDE DEF U
<1>5. /\ w \in Seq(U) /\ Len(w) = m + n
      /\ \A i \in 1 .. m + n : w[i] = IF i <= m THEN u[i] ELSE v[i - m]
  BY <1>3, <1>4, ConcatProperties
<1>6. DOMAIN w = 1 .. Len(w)
  BY <1>5, LenProperties
<1>7. m + n \in Nat
  BY SMT
<1> HIDE DEF w
<1>8. \A i \in 1 .. m : w[i] = u[i]
  <2>1. \A i \in 1 .. m : i \in 1 .. m + n /\ i <= m
    BY SMT
  <2>2. QED
    BY <1>5, <2>1
<1>9. \A i \in 1 .. n : w[m + i] = v[i]
  <2>1. \A i \in 1 .. n : m + i \in 1 .. m + n /\ ~ (m + i <= m) /\ (m + i) - m = i
    BY SMT
  <2>2. QED
    BY <1>5, <2>1
<1>10. QED
  BY <1>5, <1>6, <1>7, <1>8, <1>9 DEF Runs, OfLength, w

\* The chunks of n bytes, counting a part of one.
Chunks(n) == ((n - 1) \div ChunkLen) + 1

\* The bytes of the i-th of them.
ChunkBytes(n, i) == AtMost(n - (i - 1) * ChunkLen, ChunkLen)

\* n bytes end in chunk number Chunks(n) of them.
LEMMA ChunksOf ==
  ASSUME NEW n \in Nat, n > 0
  PROVE  /\ Chunks(n) \in Nat \ {0}
         /\ (Chunks(n) - 1) * ChunkLen < n /\ n <= Chunks(n) * ChunkLen
         /\ (n + ChunkLen - 1) \div ChunkLen = Chunks(n)
         /\ \A k \in Nat : n <= k * ChunkLen => Chunks(n) <= k
<1> DEFINE x == (n - 1) \div ChunkLen
           r == (n - 1) % ChunkLen
<1>1. ChunkLen \in Nat \ {0} /\ n - 1 \in Nat
  BY HashTreeAssumption, SMT
<1>2. x \in Nat /\ r \in 0 .. ChunkLen - 1 /\ n - 1 = x * ChunkLen + r
  BY <1>1, SMT
<1>3. Chunks(n) = x + 1
  BY DEF Chunks
<1>4. (n + ChunkLen - 1) \div ChunkLen = x + 1
  <2> DEFINE y == n + ChunkLen - 1
  <2>1. y = (n - 1) + ChunkLen /\ y \in Nat
    BY <1>1, SMT
  <2> HIDE DEF x, r
  <2>2. y = (x + 1) * ChunkLen + r
    <3>1. (x + 1) * ChunkLen = x * ChunkLen + ChunkLen
      BY <1>1, <1>2, SMT
    <3> DEFINE p == x * ChunkLen
               q == (x + 1) * ChunkLen
    <3>2. p \in Nat /\ q = p + ChunkLen /\ n - 1 = p + r
      BY <1>1, <1>2, <3>1, SMT
    <3> HIDE DEF p, q, y
    <3>3. y = q + r
      BY <1>1, <1>2, <2>1, <3>2, SMT
    <3>4. QED
      BY <3>3 DEF q
  <2> HIDE DEF y
  <2>3. y \div ChunkLen = x + 1
    <3> DEFINE X == x + 1
    <3>1. X \in Nat
      BY <1>2, SMT
    <3>2. y = X * ChunkLen + r
      BY <2>2
    <3> HIDE DEF X
    <3>3. y \div ChunkLen = X
      BY <1>1, <1>2, <3>1, <3>2, SMT
    <3>4. QED
      BY <3>3 DEF X
  <2>4. QED
    BY <2>3 DEF y
<1> HIDE DEF x, r
<1>5. (x + 1 - 1) * ChunkLen < n /\ n <= (x + 1) * ChunkLen
  <2> DEFINE p == x * ChunkLen
             q == (x + 1) * ChunkLen
  <2>1. p \in Nat /\ q = p + ChunkLen /\ n - 1 = p + r /\ x + 1 - 1 = x
    BY <1>1, <1>2, SMT
  <2> HIDE DEF p, q
  <2>2. p < n /\ n <= q
    BY <1>1, <1>2, <2>1, SMT
  <2>3. QED
    BY <2>1, <2>2 DEF p, q
<1>6. ASSUME NEW k \in Nat, n <= k * ChunkLen
      PROVE  x + 1 <= k
  <2>1. x * ChunkLen < k * ChunkLen
    <3> DEFINE p == x * ChunkLen
               q == k * ChunkLen
    <3>1. p \in Nat /\ q \in Nat /\ n - 1 = p + r /\ n <= q
      BY <1>1, <1>2, <1>6, SMT
    <3> HIDE DEF p, q
    <3>2. p < q
      BY <1>1, <1>2, <3>1, SMT
    <3>3. QED
      BY <3>2 DEF p, q
  <2>2. CASE k <= x
    <3>1. k * ChunkLen <= x * ChunkLen
      BY <1>1, <1>2, <2>2, SMT
    <3> DEFINE p == x * ChunkLen
               q == k * ChunkLen
    <3>2. p \in Nat /\ q \in Nat /\ p < q /\ q <= p
      BY <1>1, <1>2, <2>1, <3>1, SMT
    <3> HIDE DEF p, q
    <3>3. QED
      BY <3>2, SMT
  <2>3. QED
    BY <1>2, <2>2, SMT
<1>7. QED
  BY <1>2, <1>3, <1>4, <1>5, <1>6, SMT

\* A subtree of a chunk or less.
LEMMA SingleChunk ==
  ASSUME NEW c \in Nat, NEW n \in Nat, n <= ChunkLen
  PROVE  SubtreeCV(key, flags, c, n) = output_chaining_value(ChunkOutput(key, flags, c, n))
<1> DEFINE k == key
           f == flags
<1> HIDE DEF k, f
<1>1. TreeOutput(k, f, c, n) = ChunkOutput(k, f, c, n)
  BY TreeOutputRecursion
<1>2. QED
  BY <1>1 DEF SubtreeCV, k, f

\* Whole chunks come before the last one.
LEMMA WholeChunks ==
  ASSUME NEW n \in Nat, n > 0
  PROVE  LET whole == n \div ChunkLen
             rest  == n % ChunkLen
         IN  /\ whole \in Nat /\ rest \in 0 .. ChunkLen - 1
             /\ \A i \in 1 .. whole : ChunkBytes(n, i) = ChunkLen
             /\ rest = 0 => Chunks(n) = whole
             /\ rest > 0 => Chunks(n) = whole + 1 /\ ChunkBytes(n, whole + 1) = rest
<1> DEFINE whole == n \div ChunkLen
           rest  == n % ChunkLen
           W == whole * ChunkLen
<1>1. ChunkLen \in Nat \ {0}
  BY HashTreeAssumption
<1>2. whole \in Nat /\ rest \in 0 .. ChunkLen - 1 /\ n = W + rest /\ W \in Nat
  BY <1>1, SMT
<1> HIDE DEF whole, rest
<1>3. ASSUME NEW i \in 1 .. whole
      PROVE  ChunkBytes(n, i) = ChunkLen
  <2> DEFINE I == (i - 1) * ChunkLen
  <2>1. i - 1 \in Nat /\ (i - 1) + 1 <= whole
    BY <1>2, SMT
  <2>2. I \in Nat /\ I + ChunkLen <= W
    <3> DEFINE j == i - 1
    <3>1. j \in Nat /\ j + 1 <= whole
      BY <2>1
    <3> HIDE DEF j
    <3>2. (j + 1) * ChunkLen <= whole * ChunkLen /\ (j + 1) * ChunkLen = j * ChunkLen + ChunkLen
          /\ j * ChunkLen \in Nat
      BY <1>1, <1>2, <3>1, SMT
    <3>3. QED
      BY <3>2 DEF j
  <2> HIDE DEF I, W
  <2>3. n - I >= ChunkLen /\ n - I \in Nat
    BY <1>1, <1>2, <2>2, SMT
  <2>4. AtMost(n - I, ChunkLen) = ChunkLen
    BY <1>1, <2>3, SMT DEF AtMost
  <2>5. QED
    BY <2>4 DEF ChunkBytes, I
<1>4. whole = 0 => rest > 0
  BY <1>1, <1>2, SMT
<1> DEFINE m == Chunks(n)
           M == m * ChunkLen
           L == (m - 1) * ChunkLen
<1>5. m \in Nat \ {0} /\ L < n /\ n <= M /\ \A k \in Nat : n <= k * ChunkLen => m <= k
  BY ChunksOf
<1> HIDE DEF m
<1>6. M = L + ChunkLen /\ L \in Nat
  BY <1>1, <1>5, SMT
<1>7. ASSUME rest = 0
      PROVE  m = whole
  <2>1. n <= whole * ChunkLen
    BY <1>2, <1>7, SMT
  <2>2. m <= whole
    BY <1>2, <1>5, <2>1
  <2>3. CASE m < whole
    <3>1. m * ChunkLen + ChunkLen <= whole * ChunkLen /\ m * ChunkLen \in Nat
      <4>1. m + 1 <= whole
        BY <1>2, <1>5, <2>3, SMT
      <4>2. QED
        BY <1>1, <1>2, <1>5, <4>1, SMT
    <3>2. M + ChunkLen <= W /\ M \in Nat
      BY <3>1
    <3> HIDE DEF M, W
    <3>3. QED
      BY <1>1, <1>2, <1>5, <1>7, <3>2, SMT
  <2>4. QED
    BY <1>2, <1>5, <2>2, <2>3, SMT
<1>8. ASSUME rest > 0
      PROVE  m = whole + 1 /\ ChunkBytes(n, whole + 1) = rest
  <2>1. n <= (whole + 1) * ChunkLen
    <3>1. (whole + 1) * ChunkLen = W + ChunkLen
      BY <1>1, <1>2, SMT
    <3> DEFINE Z == (whole + 1) * ChunkLen
    <3> HIDE DEF W, Z
    <3>2. n <= Z
      BY <1>1, <1>2, <3>1, SMT DEF Z
    <3>3. QED
      BY <3>2 DEF Z
  <2>2. m <= whole + 1
    BY <1>2, <1>5, <2>1
  <2>3. CASE m <= whole
    <3>1. M <= W
      BY <1>1, <1>2, <1>5, <2>3, SMT
    <3>2. M \in Nat
      BY <1>1, <1>5, SMT
    <3> HIDE DEF M, W
    <3>3. QED
      BY <1>2, <1>5, <1>8, <3>1, <3>2, SMT
  <2>4. m = whole + 1
    BY <1>2, <1>5, <2>2, <2>3, SMT
  <2>5. (whole + 1) - 1 = whole
    BY <1>2, SMT
  <2>6. ChunkBytes(n, whole + 1) = AtMost(n - W, ChunkLen)
    BY <2>5 DEF ChunkBytes
  <2> HIDE DEF W
  <2>7. AtMost(n - W, ChunkLen) = rest
    BY <1>1, <1>2, SMT DEF AtMost
  <2>8. QED
    BY <2>4, <2>6, <2>7
<1>9. QED
  BY <1>2, <1>3, <1>7, <1>8 DEF whole, rest, m

\* compress_chunks_parallel returns the chaining values of the chunks.
LEMMA ChunksHashed ==
  ASSUME NEW c \in Nat, NEW n \in Nat, n > 0
  PROVE  /\ OfLength(compress_chunks_parallel(c, n), Chunks(n))
         /\ \A i \in 1 .. Chunks(n) :
              compress_chunks_parallel(c, n)[i]
                = SubtreeCV(key, flags, c + (i - 1), ChunkBytes(n, i))
<1> DEFINE whole == n \div ChunkLen
           rest  == n % ChunkLen
           last  == chunk_state_update(chunk_state_init(key, c + whole, flags),
                                       (c + whole) * ChunkLen, rest)
           chunk(i) == output_chaining_value(ChunkOutput(key, flags, c + i - 1, ChunkLen))
           u == [i \in 1 .. whole |-> chunk(i)]
           x == output_chaining_value(chunk_state_output(last))
           V == compress_chunks_parallel(c, n)
<1>1. V = u \o IF rest > 0 THEN <<x>> ELSE <<>>
  BY DEF compress_chunks_parallel
<1>2. /\ whole \in Nat /\ rest \in 0 .. ChunkLen - 1
      /\ \A i \in 1 .. whole : ChunkBytes(n, i) = ChunkLen
      /\ rest = 0 => Chunks(n) = whole
      /\ rest > 0 => Chunks(n) = whole + 1 /\ ChunkBytes(n, whole + 1) = rest
  BY WholeChunks
<1>3. ChunkLen \in Nat \ {0}
  BY HashTreeAssumption
<1>4. rest > 0 => x = SubtreeCV(key, flags, c + whole, rest)
  <2> SUFFICES ASSUME rest > 0
               PROVE  x = SubtreeCV(key, flags, c + whole, rest)
    OBVIOUS
  <2> DEFINE d == c + whole
             k == key
             f == flags
             none == 0
  <2>1. d \in Nat /\ rest \in Nat /\ none \in Nat /\ none + rest = rest /\ d * ChunkLen + none = d * ChunkLen
        /\ rest <= ChunkLen /\ none + rest > 0
    <3> HIDE DEF whole, rest
    <3>1. QED
      BY <1>2, <1>3, SMT DEF rest
  <2> HIDE DEF d, k, f, rest
  <2>2. chunk_state_init(k, d, f) = Holding(k, f, d, none)
    BY <2>1, HoldingNothing
  <2> HIDE DEF none
  <2>3. chunk_state_update(Holding(k, f, d, none), d * ChunkLen + none, rest) = Holding(k, f, d, none + rest)
    BY <2>1, UpdatedHolding
  <2>4. last = Holding(k, f, d, rest)
    BY <2>1, <2>2, <2>3 DEF k, f, d
  <2>5. chunk_state_output(Holding(k, f, d, rest)) = ChunkOutput(k, f, d, rest)
    BY <2>1, HoldingOutput
  <2>6. output_chaining_value(ChunkOutput(k, f, d, rest)) = SubtreeCV(k, f, d, rest)
    BY <2>1, SingleChunk DEF k, f
  <2> HIDE DEF last
  <2>7. QED
    BY <2>4, <2>5, <2>6 DEF d, k, f
<1>5. \A i \in 1 .. whole : chunk(i) = SubtreeCV(key, flags, c + (i - 1), ChunkBytes(n, i))
  <2> SUFFICES ASSUME NEW i \in 1 .. whole
               PROVE  chunk(i) = SubtreeCV(key, flags, c + (i - 1), ChunkBytes(n, i))
    OBVIOUS
  <2> HIDE DEF whole
  <2>1. c + i - 1 = c + (i - 1) /\ c + (i - 1) \in Nat /\ ChunkLen \in Nat /\ ChunkLen <= ChunkLen
    BY <1>2, <1>3, SMT
  <2>2. QED
    BY <1>2, <2>1, SingleChunk
<1> HIDE DEF chunk, x, V
<1>6. OfLength(u, whole) /\ \A i \in 1 .. whole : u[i] = chunk(i)
  <2>1. u = [i \in 1 .. whole |-> u[i]]
    OBVIOUS
  <2> HIDE DEF u, whole
  <2>2. OfLength(u, whole)
    BY <1>2, <2>1, RunOfLength
  <2>3. QED
    BY <2>2 DEF u
<1> HIDE DEF u, whole, rest
<1>7. CASE rest = 0
  <2> DEFINE e == <<>>
             zero == 0
  <2>1. OfLength(e, zero) /\ zero \in Nat
    <3>1. e \in Seq({}) /\ Len(e) = 0
      BY EmptySeq
    <3>2. DOMAIN e = 1 .. Len(e)
      BY <3>1, LenProperties
    <3>3. QED
      BY <3>1, <3>2 DEF OfLength
  <2>2. V = u \o e
    BY <1>1, <1>7, SMT
  <2>3. whole + zero = whole
    BY <1>2, SMT
  <2> HIDE DEF e, zero
  <2>a. Runs(V, u, whole, e, zero)
    BY <1>2, <1>6, <2>1, <2>2, RunBehind
  <2>4. OfLength(V, whole) /\ \A i \in 1 .. whole : V[i] = u[i]
    BY <2>a, <2>3 DEF Runs
  <2>5. QED
    BY <1>2, <1>5, <1>6, <1>7, <2>4 DEF V
<1>8. CASE rest > 0
  <2> DEFINE e == <<x>>
             one == 1
  <2>1. OfLength(e, one) /\ one \in Nat /\ e[one] = x /\ one \in 1 .. one
    <3>1. e \in Seq({x}) /\ Len(e) = 1 /\ e[1] = x
      BY SMT
    <3>2. DOMAIN e = 1 .. Len(e)
      BY <3>1, LenProperties
    <3> HIDE DEF e
    <3>3. QED
      BY <3>1, <3>2, SMT DEF OfLength
  <2>2. V = u \o e
    BY <1>1, <1>8
  <2> HIDE DEF e
  <2>3. OfLength(V, whole + one) /\ (\A i \in 1 .. whole : V[i] = u[i]) /\ V[whole + one] = x
    <3> HIDE DEF one
    <3>1. Runs(V, u, whole, e, one)
      BY <1>2, <1>6, <2>1, <2>2, RunBehind
    <3>2. QED
      BY <2>1, <3>1 DEF Runs
  <2>4. whole + one \in Nat /\ (whole + one) - 1 = whole
        /\ \A i \in 1 .. whole + one : i \in 1 .. whole \/ i = whole + one
    BY <1>2, SMT
  <2>5. V[whole + one] = SubtreeCV(key, flags, c + ((whole + one) - 1), ChunkBytes(n, whole + one))
    BY <1>2, <1>4, <1>8, <2>3, <2>4
  <2>6. \A i \in 1 .. whole : V[i] = SubtreeCV(key, flags, c + (i - 1), ChunkBytes(n, i))
    BY <1>5, <1>6, <2>3
  <2>7. Chunks(n) = whole + one
    BY <1>2, <1>8
  <2> HIDE DEF one
  <2>8. QED
    BY <2>3, <2>4, <2>5, <2>6, <2>7 DEF V
<1>9. rest = 0 \/ rest > 0
  BY <1>2, SMT
<1>10. QED
  BY <1>7, <1>8, <1>9

\* Multiples of the chunk length.
LEMMA Multiples ==
  ASSUME NEW a \in Nat, NEW b \in Nat
  PROVE  /\ a * ChunkLen \in Nat
         /\ (a + b) * ChunkLen = a * ChunkLen + b * ChunkLen
         /\ a <= b => a * ChunkLen <= b * ChunkLen
         /\ a < b => a * ChunkLen + ChunkLen <= b * ChunkLen
         /\ a > 0 => a * ChunkLen >= ChunkLen /\ (a - 1) * ChunkLen = a * ChunkLen - ChunkLen
         /\ (a * ChunkLen) \div ChunkLen = a
<1>1. ChunkLen \in Nat \ {0}
  BY HashTreeAssumption
<1>2. a * ChunkLen \in Nat /\ (a * ChunkLen) \div ChunkLen = a
  BY <1>1, MultipleDivided
<1>3. (a + b) * ChunkLen = a * ChunkLen + b * ChunkLen
  BY <1>1, SMT
<1>4. a <= b => a * ChunkLen <= b * ChunkLen
  BY <1>1, SMT
<1>5. a < b => a * ChunkLen + ChunkLen <= b * ChunkLen
  <2> SUFFICES ASSUME a < b
               PROVE  a * ChunkLen + ChunkLen <= b * ChunkLen
    OBVIOUS
  <2>1. a + 1 <= b
    BY SMT
  <2>2. QED
    BY <1>1, <2>1, SMT
<1>6. a > 0 => a * ChunkLen >= ChunkLen /\ (a - 1) * ChunkLen = a * ChunkLen - ChunkLen
  BY <1>1, SMT
<1>7. QED
  BY <1>2, <1>3, <1>4, <1>5, <1>6

\* The left side has a power of two of chunks and is at least as large as the
\* right one.
LEMMA LeftSides ==
  ASSUME NEW n \in Nat, n > ChunkLen
  PROVE  \E p : /\ PowerOfTwo(p) /\ p = round_down_to_power_of_2[(n - 1) \div ChunkLen]
                /\ left_subtree_len(n) = p * ChunkLen /\ left_subtree_len(n) \div ChunkLen = p
                /\ left_subtree_len(n) \in 1 .. n - 1
                /\ n - left_subtree_len(n) \in 1 .. left_subtree_len(n)
<1> DEFINE x == (n - 1) \div ChunkLen
           p == round_down_to_power_of_2[x]
           l == p * ChunkLen
<1>1. ChunkLen \in Nat \ {0} /\ n > 0 /\ n - 1 \in Nat
  BY HashTreeAssumption, SMT
<1>2. x \in Nat \ {0}
  <2>1. x \in Nat /\ x + 1 \in Nat \ {0} /\ n <= (x + 1) * ChunkLen
    <3>1. Chunks(n) \in Nat \ {0} /\ n <= Chunks(n) * ChunkLen
      BY <1>1, ChunksOf
    <3>2. x \in Nat
      BY <1>1, SMT
    <3>3. QED
      BY <3>1, <3>2 DEF Chunks
  <2> HIDE DEF x
  <2>2. CASE x = 0
    <3>1. (x + 1) * ChunkLen = ChunkLen
      BY <1>1, <2>2, SMT
    <3>2. QED
      BY <1>1, <2>1, <3>1, SMT
  <2>3. QED
    BY <2>1, <2>2
<1>3. PowerOfTwo(p) /\ p <= x /\ x < 2 * p
  BY <1>2, RoundDownIsPower
<1>4. p \in Nat \ {0}
  BY <1>3 DEF PowerOfTwo
<1>5. left_subtree_len(n) = l
  BY DEF left_subtree_len
<1>6. l \div ChunkLen = p /\ l \in Nat /\ l >= ChunkLen
  <2> HIDE DEF p
  <2>1. QED
    BY <1>1, <1>4, Multiples, SMT
<1>7. x * ChunkLen < n /\ n <= (x + 1) * ChunkLen
  <2>1. /\ (Chunks(n) - 1) * ChunkLen < n /\ n <= Chunks(n) * ChunkLen
    BY <1>1, ChunksOf
  <2>2. Chunks(n) = x + 1
    BY DEF Chunks
  <2> HIDE DEF x
  <2>3. Chunks(n) - 1 = x
    BY <1>2, <2>2, SMT
  <2>4. QED
    BY <2>1, <2>2, <2>3
<1> HIDE DEF x
<1>8. l <= x * ChunkLen /\ (x + 1) * ChunkLen <= 2 * l
  <2> HIDE DEF p
  <2> DEFINE y == x + 1
             q == 2 * p
  <2>1. y \in Nat /\ q \in Nat /\ y <= q /\ q = p + p
    BY <1>2, <1>3, <1>4, SMT
  <2> HIDE DEF y, q
  <2>2. p * ChunkLen <= x * ChunkLen
    BY <1>2, <1>3, <1>4, Multiples
  <2>3. y * ChunkLen <= q * ChunkLen
    BY <2>1, Multiples
  <2>4. (p + p) * ChunkLen = p * ChunkLen + p * ChunkLen
    BY <1>4, Multiples
  <2>5. QED
    BY <1>6, <2>1, <2>2, <2>3, <2>4, SMT DEF y
<1>9. l \in 1 .. n - 1 /\ n - l \in 1 .. l
  <2> DEFINE a == x * ChunkLen
             b == (x + 1) * ChunkLen
  <2>1. a \in Nat /\ b \in Nat /\ l <= a /\ a < n /\ n <= b /\ b <= 2 * l
    <3>1. a \in Nat /\ b \in Nat
      BY <1>1, <1>2, SMT
    <3>2. QED
      BY <1>7, <1>8, <3>1
  <2> HIDE DEF l, a, b
  <2>2. QED
    BY <1>1, <1>6, <2>1, SMT
<1>10. QED
  BY <1>3, <1>5, <1>6, <1>9 DEF x

\* The chaining values of the chunks merge to that of the subtree over them.
THEOREM ChunksCondensed ==
  ASSUME NEW c \in Nat, NEW n \in Nat, n > 0
  PROVE  Condensed(compress_chunks_parallel(c, n), 1, Chunks(n)) = SubtreeCV(key, flags, c, n)
<1> DEFINE V == compress_chunks_parallel(c, n)
           Within(i, k, x) ==
             /\ (k - 1) * ChunkLen < x /\ x <= k * ChunkLen
             /\ \/ (i - 1) * ChunkLen + x = n
                \/ x = k * ChunkLen /\ (i - 1) * ChunkLen + x <= n
           Good(k) == \A i \in Nat \ {0} : \A x \in Nat :
             Within(i, k, x) => Condensed(V, i, k) = SubtreeCV(key, flags, c + (i - 1), x)
           P == {k \in Nat : k > 0 => Good(k)}
<1>0. ChunkLen \in Nat \ {0}
  BY HashTreeAssumption
<1>a. \A i \in 1 .. Chunks(n) :
        V[i] = SubtreeCV(key, flags, c + (i - 1), ChunkBytes(n, i))
  BY ChunksHashed
<1> HIDE DEF V
<1>1. ASSUME NEW k \in Nat, \A j \in 0 .. k - 1 : j \in P
      PROVE  k \in P
  <2> SUFFICES ASSUME k > 0, NEW i \in Nat \ {0}, NEW x \in Nat, Within(i, k, x)
               PROVE  Condensed(V, i, k) = SubtreeCV(key, flags, c + (i - 1), x)
    OBVIOUS
  <2> DEFINE A == (i - 1) * ChunkLen
             h == i - 1
  <2>1. h \in Nat /\ i = h + 1 /\ A = h * ChunkLen /\ A \in Nat
    BY <1>0, SMT
  <2>2. CASE k = 1
    <3>1. x > 0 /\ x <= ChunkLen /\ ((A + x = n) \/ (x = ChunkLen /\ A + x <= n))
      <4>1. (k - 1) * ChunkLen = 0 /\ k * ChunkLen = ChunkLen
        BY <1>0, <2>2, SMT
      <4> HIDE DEF A
      <4>2. QED
        BY <4>1, SMT DEF A
    <3>2. i \in 1 .. Chunks(n)
      <4>1. Chunks(n) \in Nat /\ n <= Chunks(n) * ChunkLen
        BY ChunksOf
      <4>2. Chunks(n) <= h => Chunks(n) * ChunkLen <= h * ChunkLen
        BY <2>1, <4>1, Multiples
      <4>3. Chunks(n) * ChunkLen \in Nat
        BY <4>1, Multiples
      <4> DEFINE m == Chunks(n)
                 M == m * ChunkLen
      <4>4. m \in Nat /\ n <= M /\ M \in Nat /\ (m <= h => M <= A)
        BY <2>1, <4>1, <4>2, <4>3
      <4> HIDE DEF m, M, A, h
      <4>5. ~ (m <= h)
        BY <2>1, <3>1, <4>4, SMT
      <4>6. i \in 1 .. m
        BY <2>1, <4>4, <4>5, SMT
      <4>7. QED
        BY <4>6 DEF m
    <3>3. ChunkBytes(n, i) = x
      <4> HIDE DEF A
      <4>1. AtMost(n - A, ChunkLen) = x
        BY <1>0, <2>1, <3>1, SMT DEF AtMost
      <4>2. QED
        BY <4>1 DEF ChunkBytes, A
    <3>4. V[i] = SubtreeCV(key, flags, c + (i - 1), x)
      BY <1>a, <3>2, <3>3
    <3>5. k <= 1
      BY <2>2, SMT
    <3>6. Condensed(V, i, k) = V[i]
      BY <2>1, <3>5, CondensedRecursion
    <3>7. QED
      BY <3>4, <3>6
  <2>3. CASE k > 1
    <3> DEFINE p == Half(k)
               q == k - p
    <3>1. PowerOfTwo(p) /\ p \in 1 .. k - 1 /\ q \in 1 .. k - 1 /\ k <= 2 * p
          /\ p \in 0 .. k - 1 /\ q \in 0 .. k - 1
      BY <2>3, HalfOf
    <3>2. Condensed(V, i, k) = parent_cv(Condensed(V, i, p), Condensed(V, i + p, q))
      BY <2>1, <2>3, CondensedRecursion
    <3> HIDE DEF p
    <3>3. p \in Nat /\ q \in Nat /\ k = p + q /\ p > 0 /\ q > 0 /\ q <= p
      BY <3>1, SMT
    <3> HIDE DEF q
    <3> DEFINE W == p * ChunkLen
               Q == q * ChunkLen
               K == k * ChunkLen
    <3>4. W \in Nat /\ Q \in Nat /\ K = W + Q /\ Q <= W /\ W >= ChunkLen /\ Q >= ChunkLen
          /\ (k - 1) * ChunkLen = K - ChunkLen
          /\ (p - 1) * ChunkLen = W - ChunkLen /\ (q - 1) * ChunkLen = Q - ChunkLen
      BY <3>3, Multiples
    <3>5. i + p \in Nat \ {0} /\ (i + p) - 1 = h + p /\ (h + p) * ChunkLen = A + W
      <4>1. (h + p) * ChunkLen = h * ChunkLen + p * ChunkLen
        BY <2>1, <3>3, Multiples
      <4>2. i + p \in Nat \ {0} /\ (i + p) - 1 = h + p
        BY <3>3, SMT
      <4>3. QED
        BY <2>1, <4>1, <4>2
    <3>6. K - ChunkLen < x /\ x <= K /\ (A + x = n \/ (x = K /\ A + x <= n))
      BY <3>4
    <3>7. Good(p) /\ Good(q)
      <4> HIDE DEF Good
      <4>1. QED
        BY <1>1, <3>1, <3>3
    <3> HIDE DEF W, Q, K, A, h
    <3>8. x - W \in Nat /\ W < x /\ x <= 2 * W /\ A + W <= n
      BY <1>0, <2>1, <3>4, <3>6, SMT
    <3>9. Within(i, p, W)
      <4>1. W - ChunkLen < W /\ W <= W /\ A + W <= n
        BY <1>0, <3>4, <3>8, SMT
      <4>2. QED
        BY <3>4, <4>1 DEF W, A
    <3>10. Within(i + p, q, x - W)
      <4> DEFINE B == A + W
      <4>1. Q - ChunkLen < x - W /\ x - W <= Q
            /\ (B + (x - W) = n \/ (x - W = Q /\ B + (x - W) <= n))
        BY <1>0, <2>1, <3>4, <3>6, <3>8, SMT
      <4>2. ((i + p) - 1) * ChunkLen = B /\ (q - 1) * ChunkLen = Q - ChunkLen
        BY <3>4, <3>5
      <4> HIDE DEF B
      <4>3. QED
        BY <4>1, <4>2 DEF Q
    <3> DEFINE y == x - W
               j == i + p
    <3>11. W \in Nat /\ y \in Nat /\ j \in Nat \ {0} /\ Within(i, p, W) /\ Within(j, q, y)
      BY <3>4, <3>5, <3>8, <3>9, <3>10
    <3> HIDE DEF y, j, Within
    <3>12. /\ Condensed(V, i, p) = SubtreeCV(key, flags, c + (i - 1), W)
           /\ Condensed(V, j, q) = SubtreeCV(key, flags, c + (j - 1), y)
      BY <3>7, <3>11
    <3> DEFINE d == c + (i - 1)
               f == flags
               ky == key
    <3>13. d \in Nat /\ c + (j - 1) = d + p
      <4>1. j - 1 = h + p /\ i - 1 = h
        BY <3>5 DEF j, h
      <4>2. QED
        BY <2>1, <3>3, <4>1, SMT
    <3> HIDE DEF d, f, ky
    <3>14. TreeOutput(ky, f, d, x) =
             parent_output(SubtreeCV(ky, f, d, p * ChunkLen),
                           SubtreeCV(ky, f, d + p, x - p * ChunkLen), ky, f)
      <4>1. p * ChunkLen < x /\ x <= 2 * (p * ChunkLen)
        BY <3>8 DEF W
      <4>2. PowerOfTwo(p) /\ d \in Nat
        BY <3>1, <3>13
      <4>3. QED
        BY <4>1, <4>2, TreeOfSides
    <3>15. QED
      BY <3>2, <3>12, <3>13, <3>14 DEF SubtreeCV, parent_cv, W, y, j, d, f, ky
  <2>4. QED
    BY <2>2, <2>3, SMT
<1> HIDE DEF P
<1>2. \A k \in Nat : k \in P
  BY <1>1, StrongInduction
<1> DEFINE m == Chunks(n)
           one == 1
<1>3. m \in Nat \ {0} /\ (m - 1) * ChunkLen < n /\ n <= m * ChunkLen
  BY ChunksOf
<1>4. Good(m)
  <2> HIDE DEF Good, m
  <2>1. m \in P /\ m > 0
    BY <1>2, <1>3, SMT
  <2>2. QED
    BY <2>1 DEF P
<1>5. one \in Nat \ {0} /\ (one - 1) * ChunkLen + n = n /\ c + (one - 1) = c
  BY <1>0, SMT
<1> HIDE DEF one, m
<1>6. Condensed(V, one, m) = SubtreeCV(key, flags, c + (one - 1), n)
  BY <1>3, <1>4, <1>5
<1>7. QED
  BY <1>5, <1>6 DEF one, m, V

-----------------------------------------------------------------------------
(* How many values a call returns. *)

\* The most values that a call returns.
Cap == IF degree = 1 THEN 2 ELSE degree

DegreeOK == PowerOfTwo(degree) /\ degree <= MaxSimdDegree

\* m values for n bytes: one only for a chunk or less; and for a power of two
\* of chunks one each, or as many as there are at most.
CountOK(n, m) ==
  /\ m \in 1 .. Cap
  /\ m = 1 <=> n <= ChunkLen
  /\ \A k : PowerOfTwo(k) /\ n = k * ChunkLen => m = AtMost(k, Cap)

LEMMA CapOf ==
  ASSUME DegreeOK
  PROVE  /\ degree \in Nat \ {0} /\ Cap \in Nat /\ degree <= Cap /\ Cap >= 2 /\ PowerOfTwo(Cap)
         /\ degree # 1 => Cap = degree
         /\ Cap <= max_simd_degree_or_2 /\ max_simd_degree_or_2 \in Nat
<1>1. degree \in Nat \ {0} /\ degree <= MaxSimdDegree /\ MaxSimdDegree \in Nat \ {0}
  BY SubtreeAssumption DEF DegreeOK, PowerOfTwo
<1>2. Cap \in Nat /\ degree <= Cap /\ Cap >= 2 /\ (degree # 1 => Cap = degree)
      /\ Cap <= max_simd_degree_or_2 /\ max_simd_degree_or_2 \in Nat
  BY <1>1, SMT DEF Cap, max_simd_degree_or_2
<1>3. PowerOfTwo(Cap)
  <2>1. CASE degree = 1
    <3> DEFINE one == 1
    <3>1. PowerOfTwo(one)
      BY DoubledPower
    <3> HIDE DEF one
    <3>2. PowerOfTwo(2 * one)
      BY <3>1, DoubledPower
    <3>3. 2 * one = 2
      BY SMT DEF one
    <3>4. QED
      BY <2>1, <3>2, <3>3 DEF Cap
  <2>2. CASE degree # 1
    BY <2>2 DEF Cap, DegreeOK
  <2>3. QED
    BY <2>1, <2>2
<1>4. QED
  BY <1>1, <1>2, <1>3

\* A call that hashes chunks returns one value for each.
LEMMA LeafCount ==
  ASSUME DegreeOK, NEW n \in Nat, n > 0, n <= degree * ChunkLen
  PROVE  CountOK(n, Chunks(n))
<1> DEFINE m == Chunks(n)
<1>1. degree \in Nat \ {0} /\ Cap \in Nat /\ degree <= Cap
  BY CapOf
<1>2. m \in Nat \ {0} /\ n <= m * ChunkLen /\ \A k \in Nat : n <= k * ChunkLen => m <= k
  BY ChunksOf
<1> HIDE DEF m
<1>3. m \in 1 .. Cap
  <2>1. m <= degree
    BY <1>1, <1>2
  <2>2. QED
    BY <1>1, <1>2, <2>1, SMT
<1>4. m = 1 <=> n <= ChunkLen
  <2> DEFINE one == 1
  <2>1. one \in Nat /\ one * ChunkLen = ChunkLen
    BY HashTreeAssumption, SMT
  <2> HIDE DEF one
  <2>2. ASSUME n <= ChunkLen
        PROVE  m = 1
    <3>1. m <= one
      BY <1>2, <2>1, <2>2
    <3>2. QED
      BY <1>2, <3>1, SMT DEF one
  <2>3. ASSUME m = 1
        PROVE  n <= ChunkLen
    BY <1>2, <2>1, <2>3 DEF one
  <2>4. QED
    BY <2>2, <2>3
<1>5. ASSUME NEW k, PowerOfTwo(k), n = k * ChunkLen
      PROVE  m = AtMost(k, Cap)
  <2>1. k \in Nat /\ ChunkLen \in Nat \ {0}
    BY <1>5, HashTreeAssumption DEF PowerOfTwo
  <2>2. k <= degree
    <3>1. degree < k => degree * ChunkLen + ChunkLen <= k * ChunkLen
      BY <1>1, <2>1, Multiples
    <3> DEFINE D == degree * ChunkLen
               K == k * ChunkLen
    <3>2. D \in Nat /\ K \in Nat /\ K <= D /\ (degree < k => D + ChunkLen <= K)
      BY <1>1, <1>5, <2>1, <3>1, Multiples
    <3> HIDE DEF D, K
    <3>3. QED
      BY <1>1, <2>1, <3>2, SMT
  <2>3. m <= k
    <3>1. n <= k * ChunkLen
      BY <1>5, <2>1, SMT
    <3>2. QED
      BY <1>2, <2>1, <3>1
  <2>4. ~ (m < k)
    <3>1. m < k => m * ChunkLen + ChunkLen <= k * ChunkLen
      BY <1>2, <2>1, Multiples
    <3> DEFINE M == m * ChunkLen
               K == k * ChunkLen
    <3>2. M \in Nat /\ K \in Nat /\ K <= M /\ (m < k => M + ChunkLen <= K)
      BY <1>2, <1>5, <2>1, <3>1, Multiples
    <3> HIDE DEF M, K
    <3>3. QED
      BY <1>2, <2>1, <3>2, SMT
  <2>5. QED
    BY <1>1, <1>2, <2>1, <2>2, <2>3, <2>4, SMT DEF AtMost
<1>6. QED
  BY <1>3, <1>4, <1>5 DEF CountOK, m

\* A call that recurses is over more than a chunk, and its left side over a
\* power of two of chunks, no fewer than the degree.
LEMMA RecursionSides ==
  ASSUME DegreeOK, NEW n \in Nat, n > degree * ChunkLen
  PROVE  /\ n > ChunkLen
         /\ \E p : /\ PowerOfTwo(p) /\ p \in Nat /\ degree <= p /\ left_subtree_len(n) = p * ChunkLen
                   /\ left_subtree_len(n) \div ChunkLen = p
                   /\ left_subtree_len(n) \in 1 .. n - 1
                   /\ n - left_subtree_len(n) \in 1 .. left_subtree_len(n)
<1>1. degree \in Nat \ {0} /\ ChunkLen \in Nat \ {0} /\ PowerOfTwo(degree)
  BY CapOf, HashTreeAssumption DEF DegreeOK
<1> DEFINE D == degree * ChunkLen
<1>2. D \in Nat /\ D >= ChunkLen
  BY <1>1, Multiples, SMT
<1>3. n > ChunkLen
  <2>1. n > D
    OBVIOUS
  <2> HIDE DEF D
  <2>2. QED
    BY <1>1, <1>2, <2>1, SMT
<1>4. PICK p : /\ PowerOfTwo(p) /\ p = round_down_to_power_of_2[(n - 1) \div ChunkLen]
               /\ left_subtree_len(n) = p * ChunkLen /\ left_subtree_len(n) \div ChunkLen = p
               /\ left_subtree_len(n) \in 1 .. n - 1
               /\ n - left_subtree_len(n) \in 1 .. left_subtree_len(n)
  BY <1>3, LeftSides
<1>5. degree <= p
  <2> DEFINE x == (n - 1) \div ChunkLen
  <2>1. Chunks(n) \in Nat \ {0} /\ n <= Chunks(n) * ChunkLen
    <3>1. n > 0
      BY <1>1, <1>3, SMT
    <3>2. QED
      BY <3>1, ChunksOf
  <2>2. Chunks(n) = x + 1 /\ x \in Nat
    BY <1>1, <1>3, SMT DEF Chunks
  <2>3. Chunks(n) <= degree => Chunks(n) * ChunkLen <= D
    BY <1>1, <2>1, Multiples
  <2> DEFINE m == Chunks(n)
             M == m * ChunkLen
  <2>4. m \in Nat /\ m = x + 1 /\ n <= M /\ (m <= degree => M <= D) /\ M \in Nat /\ n > D
    BY <2>1, <2>2, <2>3, Multiples
  <2> HIDE DEF m, M, D, x
  <2>5. degree <= x
    BY <1>1, <1>2, <2>2, <2>4, SMT
  <2>6. degree <= round_down_to_power_of_2[x]
    BY <1>1, <2>2, <2>5, RoundDownAtLeast
  <2>7. QED
    BY <1>4, <2>6 DEF x
<1>6. p \in Nat
  BY <1>4 DEF PowerOfTwo
<1>7. QED
  BY <1>3, <1>4, <1>5, <1>6

\* The left side fills its slots, as many as a power of two, and the right
\* side returns no more.
LEMMA SidesCount ==
  ASSUME DegreeOK, NEW t, t[2] \in Nat, t[2] > degree * ChunkLen,
         NEW lc, CountOK(left_subtree_len(t[2]), lc)
  PROVE  /\ lc = left_slots(t) /\ PowerOfTwo(lc) /\ lc \in 1 .. Cap
         /\ \A rc : CountOK(t[2] - left_subtree_len(t[2]), rc) => rc \in 1 .. lc
<1> DEFINE n == t[2]
           l == left_subtree_len(n)
           r == n - l
<1>1. PICK p : /\ PowerOfTwo(p) /\ p \in Nat /\ degree <= p /\ l = p * ChunkLen
               /\ l \in 1 .. n - 1 /\ r \in 1 .. l
  BY RecursionSides
<1>2. /\ degree \in Nat \ {0} /\ Cap \in Nat /\ degree <= Cap /\ Cap >= 2 /\ PowerOfTwo(Cap)
      /\ degree # 1 => Cap = degree
      /\ ChunkLen \in Nat \ {0}
  BY CapOf, HashTreeAssumption
<1>3. lc = AtMost(p, Cap) /\ lc \in 1 .. Cap /\ (lc = 1 <=> l <= ChunkLen)
  BY <1>1 DEF CountOK
<1>4. left_slots(t) = IF l > ChunkLen /\ degree = 1 THEN 2 ELSE degree
  BY DEF left_slots
<1>5. Cap = IF degree = 1 THEN 2 ELSE degree
  BY DEF Cap
<1>6. l \in Nat /\ n \in Nat /\ r \in Nat
  <2> HIDE DEF l
  <2>1. QED
    BY <1>1, SMT
<1>7. ASSUME NEW rc, CountOK(r, rc)
      PROVE  rc \in 1 .. Cap /\ (rc = 1 <=> r <= ChunkLen)
  BY <1>7 DEF CountOK
<1>8. CASE degree # 1
  <2>1. lc = Cap /\ Cap = degree /\ left_slots(t) = degree
    BY <1>1, <1>2, <1>3, <1>4, <1>8, SMT DEF AtMost
  <2>2. QED
    BY <1>2, <1>3, <1>7, <2>1
<1>9. CASE degree = 1 /\ l <= ChunkLen
  <2>1. lc = 1 /\ left_slots(t) = 1
    <3> HIDE DEF l
    <3>1. ~ (l > ChunkLen)
      BY <1>2, <1>6, <1>9, SMT
    <3>2. QED
      BY <1>3, <1>4, <1>9, <3>1
  <2>2. r <= ChunkLen
    <3> HIDE DEF l, r
    <3>1. QED
      BY <1>1, <1>2, <1>6, <1>9, SMT
  <2>3. PowerOfTwo(1)
    BY DoubledPower
  <2>4. \A rc : CountOK(r, rc) => rc = 1
    BY <1>7, <2>2
  <2>5. 1 \in 1 .. Cap /\ 1 \in 1 .. 1
    BY <1>2, SMT
  <2>6. QED
    BY <2>1, <2>3, <2>4, <2>5
<1>10. CASE degree = 1 /\ ~ (l <= ChunkLen)
  <2>1. l > ChunkLen
    <3> HIDE DEF l
    <3>1. QED
      BY <1>2, <1>6, <1>10, SMT
  <2>2. left_slots(t) = 2 /\ Cap = 2
    BY <1>4, <1>5, <1>10, <2>1
  <2>3. lc = 2
    <3>1. lc # 1 /\ lc \in 1 .. 2
      BY <1>3, <1>10, <2>2
    <3>2. QED
      BY <3>1, SMT
  <2>4. QED
    BY <1>2, <1>3, <1>7, <2>2, <2>3
<1>11. QED
  BY <1>8, <1>9, <1>10

\* What a join returns.
JoinedLen(lc, rc) == IF lc = 1 THEN 2 ELSE (lc + rc + 1) \div 2

LEMMA JoinedCount ==
  ASSUME DegreeOK, NEW t, t[2] \in Nat, t[2] > degree * ChunkLen,
         NEW lc, CountOK(left_subtree_len(t[2]), lc),
         NEW rc, CountOK(t[2] - left_subtree_len(t[2]), rc)
  PROVE  CountOK(t[2], JoinedLen(lc, rc))
<1> DEFINE n == t[2]
           l == left_subtree_len(n)
           m == JoinedLen(lc, rc)
<1>1. PICK p : /\ PowerOfTwo(p) /\ p \in Nat /\ degree <= p /\ l = p * ChunkLen
               /\ l \in 1 .. n - 1 /\ n - l \in 1 .. l
  BY RecursionSides
<1>2. n > ChunkLen
  BY RecursionSides
<1>3. /\ degree \in Nat \ {0} /\ Cap \in Nat /\ degree <= Cap /\ Cap >= 2
      /\ degree # 1 => Cap = degree
      /\ ChunkLen \in Nat \ {0}
  BY CapOf, HashTreeAssumption
<1>4. lc = left_slots(t) /\ lc \in 1 .. Cap /\ rc \in 1 .. lc
  BY SidesCount
<1>5. lc = AtMost(p, Cap) /\ (lc = 1 <=> l <= ChunkLen)
  BY <1>1 DEF CountOK
<1>6. lc = 1 => Cap = 2
  <2> SUFFICES ASSUME lc = 1
               PROVE  Cap = 2
    OBVIOUS
  <2>1. CASE degree = 1
    BY <2>1 DEF Cap
  <2>2. CASE degree # 1
    <3>1. Cap <= p
      BY <1>1, <1>3, <2>2
    <3>2. lc = Cap
      BY <1>1, <1>3, <1>5, <3>1, SMT DEF AtMost
    <3>3. QED
      BY <1>3, <3>2, SMT
  <2>3. QED
    BY <2>1, <2>2
<1>7. m \in 2 .. Cap /\ m \in 1 .. Cap /\ m # 1
  BY <1>3, <1>4, <1>6, SMT DEF JoinedLen
<1>8. ~ (n <= ChunkLen)
  BY <1>2, <1>3, SMT
<1>9. ASSUME NEW k, PowerOfTwo(k), n = k * ChunkLen
      PROVE  m = AtMost(k, Cap)
  <2>1. k \in Nat \ {0}
    BY <1>9 DEF PowerOfTwo
  <2>2. degree < k
    <3>1. k <= degree => k * ChunkLen <= degree * ChunkLen
      BY <1>3, <2>1, Multiples
    <3> DEFINE D == degree * ChunkLen
               K == k * ChunkLen
    <3>2. D \in Nat /\ K \in Nat /\ K > D /\ (k <= degree => K <= D)
      BY <1>3, <1>9, <2>1, <3>1, Multiples
    <3> HIDE DEF D, K
    <3>3. QED
      BY <1>3, <2>1, <3>2, SMT
  <2>3. k # 1
    BY <1>3, <2>1, <2>2, SMT
  <2>4. /\ PowerOfTwo(k \div 2) /\ k = 2 * (k \div 2) /\ k \div 2 \in Nat \ {0}
    BY <1>9, <2>3, HalvedPower DEF PowerOfTwo
  <2> DEFINE h == k \div 2
             H == h * ChunkLen
  <2>5. PowerOfTwo(h) /\ k = h + h /\ h \in Nat \ {0}
    BY <2>4, SMT
  <2> HIDE DEF h
  <2>6. n = H + H /\ H \in Nat
    BY <1>9, <2>5, Multiples
  <2>7. l = H /\ n - l = h * ChunkLen
    <3> DEFINE f == p * ChunkLen
    <3>1. l = f /\ f \in Nat
      BY <1>1, Multiples
    <3>2. h < p => H + ChunkLen <= f
      BY <1>1, <2>5, Multiples
    <3>3. p < h => f + ChunkLen <= H
      BY <1>1, <2>5, Multiples
    <3>5. p = h => f = H
      OBVIOUS
    <3> HIDE DEF f, H, l, n
    <3>6. ~ (h < p) \/ p = h \/ h < p
      BY <1>1, <2>5, SMT
    <3>7. l <= n - 1 /\ n - l <= l
      BY <1>1, SMT
    <3>8. f <= H => f = H
      BY <1>3, <2>6, <3>1, <3>7, SMT
    <3>9. CASE p < h
      BY <1>3, <2>6, <3>1, <3>3, <3>8, <3>9, SMT
    <3>10. CASE p = h
      BY <2>6, <3>1, <3>5, <3>10, SMT DEF H
    <3>11. CASE h < p
      <4>1. PowerOfTwo(p) /\ PowerOfTwo(h)
        BY <1>1, <2>5
      <4>2. h <= p \div 2
        BY <3>11, <4>1, PowerBelow
      <4>3. p # 1
        BY <2>5, <3>11, SMT
      <4>4. p = 2 * (p \div 2) /\ p \div 2 \in Nat
        BY <4>1, <4>3, HalvedPower DEF PowerOfTwo
      <4>5. h + h <= p /\ h + h \in Nat
        BY <2>5, <4>2, <4>4, SMT
      <4>6. (h + h) * ChunkLen <= f
        BY <1>1, <4>5, Multiples DEF f
      <4>7. (h + h) * ChunkLen = H + H
        BY <2>5, Multiples DEF H
      <4>8. QED
        BY <2>6, <3>1, <3>7, <4>6, <4>7, SMT
    <3>12. QED
      BY <1>1, <2>5, <3>9, <3>10, <3>11, SMT
  <2>8. lc = AtMost(h, Cap) /\ rc = AtMost(h, Cap)
    BY <2>5, <2>7 DEF CountOK
  <2>9. CASE lc = 1
    <3>1. m = 2 /\ Cap = 2 /\ ~ (k < 2)
      BY <1>6, <2>1, <2>3, <2>9, SMT DEF JoinedLen
    <3>2. QED
      BY <3>1 DEF AtMost
  <2>10. CASE lc # 1
    <3>1. m = lc
      BY <1>4, <2>8, <2>10, SMT DEF JoinedLen
    <3>2. degree # 1 => lc = degree
      BY <1>4 DEF left_slots
    <3>3. lc = Cap
      <4>1. CASE degree # 1
        BY <1>3, <3>2, <4>1
      <4>2. CASE degree = 1
        <5>1. Cap = 2
          BY <4>2 DEF Cap
        <5>2. QED
          BY <1>4, <2>10, <5>1, SMT
      <4>3. QED
        BY <4>1, <4>2
    <3>4. AtMost(k, Cap) = Cap
      <4>1. h < Cap => lc = h
        BY <2>8 DEF AtMost
      <4>2. ~ (h < Cap)
        BY <1>3, <2>5, <3>3, <4>1, SMT
      <4>3. ~ (k < Cap)
        BY <1>3, <2>5, <4>2, SMT
      <4>4. QED
        BY <4>3 DEF AtMost
    <3>5. QED
      BY <3>1, <3>3, <3>4
  <2>11. QED
    BY <2>9, <2>10
<1>10. QED
  BY <1>7, <1>8, <1>9 DEF CountOK, m

\* A layer of parents has half as many values, rounded up.
LEMMA ParentsOfLength ==
  ASSUME NEW a, NEW n \in Nat
  PROVE  OfLength(compress_parents_parallel(a, n), (n + 1) \div 2)
<1> DEFINE w == compress_parents_parallel(a, n)
           h == (n + 1) \div 2
           e(i) == IF 2 * i <= n
                   THEN output_chaining_value(parent_output(a[2 * i - 1], a[2 * i], key, flags))
                   ELSE a[n]
<1>1. w = [i \in 1 .. h |-> e(i)]
  BY DEF compress_parents_parallel
<1>2. h \in Nat
  BY SMT
<1> HIDE DEF w, h, e
<1>3. w = [i \in 1 .. h |-> w[i]]
  BY <1>1
<1>4. OfLength(w, h)
  BY <1>2, <1>3, RunOfLength
<1>5. QED
  BY <1>4 DEF w, h

\* The first values of a run.
LEMMA FirstValues ==
  ASSUME NEW n \in Nat, NEW a, OfLength(a, n), NEW m \in 1 .. n
  PROVE  OfLength(SubSeq(a, 1, m), m) /\ \A i \in 1 .. m : SubSeq(a, 1, m)[i] = a[i]
<1> DEFINE w == SubSeq(a, 1, m)
<1>1. PICK S : a \in Seq(S)
  BY DEF OfLength
<1>2. Len(a) = n
  BY DEF OfLength
<1>3. /\ 1 \in Int /\ m \in Int /\ m - 1 + 1 = m /\ (IF 1 <= m THEN m ELSE 0) = m
      /\ \A i \in 1 .. m : 1 + i - 1 = i /\ i \in 1 .. n
      /\ m \in Nat
  BY SMT
<1>4. \A i \in 1 .. m : a[i] \in S
  BY <1>1, <1>2, <1>3, ElementOfSeq
<1>5. w \in Seq(S) /\ Len(w) = m /\ \A j \in 1 .. m : w[j] = a[j]
  BY <1>1, <1>3, <1>4, SubSeqProperties
<1>6. DOMAIN w = 1 .. Len(w)
  BY <1>5, LenProperties
<1>7. QED
  BY <1>3, <1>5, <1>6 DEF OfLength

\* What a join makes of the values of its two sides merges to the chaining
\* value of the whole.
LEMMA JoinedValues ==
  ASSUME DegreeOK, NEW t, t[1] \in Nat, t[2] \in Nat, t[2] > degree * ChunkLen,
         NEW lc, CountOK(left_call(t)[2], lc), NEW rc, CountOK(right_call(t)[2], rc),
         NEW n \in Nat, NEW a, OfLength(a, n), lc + rc <= n,
         Condensed(a, 1, lc) = SubtreeCV(key, flags, left_call(t)[1], left_call(t)[2]),
         Condensed(a, lc + 1, rc) = SubtreeCV(key, flags, right_call(t)[1], right_call(t)[2])
  PROVE  /\ OfLength(joined(a, lc, rc), JoinedLen(lc, rc))
         /\ Condensed(joined(a, lc, rc), 1, JoinedLen(lc, rc)) = SubtreeCV(key, flags, t[1], t[2])
<1> DEFINE w == joined(a, lc, rc)
           l == left_subtree_len(t[2])
           m == lc + rc
<1>1. /\ left_call(t)[1] = t[1] /\ left_call(t)[2] = l
      /\ right_call(t)[1] = t[1] + (l \div ChunkLen) /\ right_call(t)[2] = t[2] - l
  BY DEF left_call, right_call
<1>2. PowerOfTwo(lc) /\ lc \in 1 .. Cap /\ rc \in 1 .. lc
  BY <1>1, SidesCount
<1>3. Cap \in Nat
  BY CapOf
<1>4. lc \in Nat /\ rc \in Nat /\ m \in Nat /\ m >= 2 /\ m > 0
  BY <1>2, <1>3, SMT
<1>5. Condensed(a, 1, m) = SubtreeCV(key, flags, t[1], t[2])
  <2>1. Condensed(a, 1, m) = parent_cv(Condensed(a, 1, lc), Condensed(a, lc + 1, rc))
    BY <1>2, CondensedSides
  <2> DEFINE k == key
             f == flags
             c == t[1]
             x == t[2]
  <2>2. c \in Nat /\ x \in Nat /\ x > ChunkLen
    BY RecursionSides
  <2> HIDE DEF k, f, c, x
  <2>3. TreeOutput(k, f, c, x) =
          LET y == left_subtree_len(x)
          IN  parent_output(SubtreeCV(k, f, c, y),
                            SubtreeCV(k, f, c + (y \div ChunkLen), x - y), k, f)
    BY <2>2, TreeOutputRecursion
  <2>4. QED
    BY <1>1, <2>1, <2>3 DEF SubtreeCV, parent_cv, k, f, c, x
<1>6. CASE lc = 1
  <2>1. rc = 1 /\ m = 2 /\ w = SubSeq(a, 1, 2) /\ JoinedLen(lc, rc) = 2
    BY <1>2, <1>6, SMT DEF joined, JoinedLen
  <2>2. 2 \in 1 .. n
    BY <2>1, SMT
  <2> DEFINE two == 2
             one == 1
  <2>3. two \in 1 .. n /\ two \in Nat /\ two > 0 /\ one \in Nat
        /\ \A i \in 0 .. two - 1 : one + i \in 1 .. two
    BY <2>2, SMT
  <2>4. w = SubSeq(a, 1, two)
    BY <2>1
  <2> HIDE DEF two, one, w
  <2>5. OfLength(w, two) /\ \A i \in 1 .. two : w[i] = a[i]
    BY <2>3, <2>4, FirstValues
  <2>a. SameRun(w, one, a, one, two)
    BY <2>3, <2>5 DEF SameRun
  <2>6. Condensed(w, one, two) = Condensed(a, one, two)
    BY <2>3, <2>a, CondensedSame
  <2>7. QED
    BY <1>5, <2>1, <2>5, <2>6 DEF two, one, w
<1>7. CASE lc # 1
  <2>1. w = compress_parents_parallel(a, m) /\ JoinedLen(lc, rc) = (m + 1) \div 2
    BY <1>7 DEF joined, JoinedLen
  <2> HIDE DEF w, m
  <2>2. OfLength(w, (m + 1) \div 2)
    BY <1>4, <2>1, ParentsOfLength
  <2>3. Condensed(w, 1, (m + 1) \div 2) = Condensed(a, 1, m)
    BY <1>4, <2>1, CondensedLayer
  <2>4. QED
    BY <1>5, <2>1, <2>2, <2>3 DEF w
<1>8. QED
  BY <1>6, <1>7

-----------------------------------------------------------------------------
(* The inductive invariant. *)

\* The bytes of a call, from one position of the input to another.
From(t) == t[1] * ChunkLen
End(t) == From(t) + t[2]

Apart(t, u) == End(t) <= From(u) \/ End(u) <= From(t)
Inside(u, t) == From(t) <= From(u) /\ End(u) <= End(t)

\* Two calls are over different bytes, unless one has recursed to the other.
\* So no call is ever made twice.
Nested(t, u) ==
  t # u => \/ Apart(t, u)
           \/ Inside(u, t) /\ t \in DOMAIN array
           \/ Inside(t, u) /\ u \in DOMAIN array

\* Where a call writes its values.
Placed(t) ==
  LET up == task[t].up
  IN  \/ t = <<0, len>> /\ up = Top /\ task[t].off = 0
      \/ /\ up \in DOMAIN array \ {Top}
         /\ \/ t = left_call(up) /\ task[t].off = 0
            \/ t = right_call(up) /\ task[t].off = left_slots(up)

\* What a call that has returned has written merges to the chaining value of
\* its subtree.
Valued(t) ==
  /\ CountOK(t[2], task[t].count)
  /\ Condensed(array[task[t].up], task[t].off + 1, task[t].count)
       = SubtreeCV(key, flags, t[1], t[2])

TaskOK(t) ==
  /\ t = <<t[1], t[2]>> /\ t[1] \in Nat /\ t[2] \in Nat \ {0}
  /\ task[t] = [state |-> task[t].state, up |-> task[t].up, off |-> task[t].off,
                count |-> task[t].count]
  /\ task[t].state \in {"called", "forked", "returned"}
  /\ task[t].state = "called" => t \notin DOMAIN array
  /\ task[t].state = "forked" => t \in DOMAIN array
  /\ IF task[t].state = "returned" THEN Valued(t) ELSE task[t].count = 0
  /\ Placed(t)

\* A call that has recursed has an array, to which its two sides write.
Recursed(t) ==
  /\ t \in DOMAIN task /\ task[t].state # "called"
  /\ t[2] > degree * ChunkLen
  /\ OfLength(array[t], 2 * max_simd_degree_or_2)
  /\ left_call(t) \in DOMAIN task /\ right_call(t) \in DOMAIN task
  /\ task[left_call(t)].up = t /\ task[left_call(t)].off = 0
  /\ task[right_call(t)].up = t /\ task[right_call(t)].off = left_slots(t)
  /\ task[t].state = "returned" =>
       task[left_call(t)].state = "returned" /\ task[right_call(t)].state = "returned"

SubtreeInv ==
  /\ len \in Nat /\ len > ChunkLen /\ DegreeOK
  /\ <<0, len>> \in DOMAIN task /\ task[<<0, len>>].up = Top /\ task[<<0, len>>].off = 0
  /\ Top \in DOMAIN array /\ OfLength(array[Top], max_simd_degree_or_2)
  /\ \A t \in DOMAIN task : TaskOK(t)
  /\ \A t \in DOMAIN array \ {Top} : Recursed(t)
  /\ \A t, u \in DOMAIN task : Nested(t, u)
  /\ PairIsTopOfTree

\* Nothing is called but the whole.
LEMMA SubtreeInit == Init => SubtreeInv
<1> SUFFICES ASSUME Init
             PROVE  SubtreeInv
  OBVIOUS
<1> DEFINE root == <<0, len>>
           size == max_simd_degree_or_2
<1>1. /\ len \in Lens /\ degree \in Degrees /\ pair = <<>>
      /\ task = [t \in {root} |-> Call(Top, 0)]
      /\ array = [t \in {Top} |-> uninitialised(size)]
  BY DEF Init
<1>2. len \in Nat /\ len > ChunkLen /\ ChunkLen \in Nat \ {0}
  BY <1>1, SubtreeAssumption, HashTreeAssumption
<1>3. DegreeOK
  <2>1. degree \in 1 .. MaxSimdDegree /\ degree = round_down_to_power_of_2[degree]
        /\ MaxSimdDegree \in Nat
    BY <1>1, SubtreeAssumption
  <2>2. degree \in Nat \ {0} /\ degree <= MaxSimdDegree
    BY <2>1, SMT
  <2>3. QED
    BY <2>1, <2>2 DEF DegreeOK, PowerOfTwo
<1>4. size \in Nat
  BY <1>3, CapOf
<1>5. root # Top /\ root[1] = 0 /\ root[2] = len /\ len \in Nat \ {0}
  BY <1>2, SMT DEF Top
<1>6. OfLength(uninitialised(size), size)
  <2> DEFINE f == uninitialised(size)
  <2>1. f = [i \in 1 .. size |-> Garbage]
    BY DEF uninitialised
  <2> HIDE DEF f, size
  <2>2. f = [i \in 1 .. size |-> f[i]]
    BY <2>1
  <2>3. QED
    BY <1>4, <2>2, RunOfLength DEF f
<1> HIDE DEF root, size
<1>7. DOMAIN task = {root} /\ DOMAIN array = {Top} /\ array[Top] = uninitialised(size)
      /\ task[root] = Call(Top, 0)
  BY <1>1
<1>8. TaskOK(root)
  <2> DEFINE w == task[root]
  <2>1. w = [state |-> "called", up |-> Top, off |-> 0, count |-> 0]
    BY <1>7 DEF Call
  <2> HIDE DEF w
  <2>2. w.state = "called" /\ w.up = Top /\ w.off = 0 /\ w.count = 0
    BY <2>1
  <2>3. w = [state |-> w.state, up |-> w.up, off |-> w.off, count |-> w.count]
    BY <2>1
  <2>4. root = <<root[1], root[2]>> /\ root[1] \in Nat /\ root[2] \in Nat \ {0}
    <3>1. root = <<0, len>> /\ 0 \in Nat
      BY DEF root
    <3>2. QED
      BY <1>5, <3>1
  <2>5. root \notin DOMAIN array
    BY <1>5, <1>7
  <2>6. Placed(root)
    BY <2>2 DEF Placed, root, w
  <2>7. w.state \in {"called", "forked", "returned"} /\ w.state # "forked" /\ w.state # "returned"
    BY <2>2
  <2>8. QED
    BY <2>2, <2>3, <2>4, <2>5, <2>6, <2>7 DEF TaskOK, w
<1>9. \A t, u \in DOMAIN task : Nested(t, u)
  BY <1>7 DEF Nested
<1>10. PairIsTopOfTree
  BY <1>1 DEF PairIsTopOfTree
<1>11. task[root].up = Top /\ task[root].off = 0
  BY <1>7 DEF Call
<1>12. QED
  BY <1>2, <1>3, <1>6, <1>7, <1>8, <1>9, <1>10, <1>11 DEF SubtreeInv, root, size

\* Writing m values behind slot off of an array.
LEMMA WrittenRun ==
  ASSUME NEW n \in Nat, NEW a, OfLength(a, n), NEW m \in Nat, NEW V, OfLength(V, m),
         NEW off \in Nat, off + m <= n, NEW b,
         b = [i \in DOMAIN a |-> IF i - off \in DOMAIN V THEN V[i - off] ELSE a[i]]
  PROVE  /\ OfLength(b, n)
         /\ SameRun(b, off + 1, V, 1, m)
         /\ \A o, k \in Nat : (o + k <= off \/ off + m <= o) /\ o + k <= n
                                => SameRun(b, o + 1, a, o + 1, k)
<1>1. DOMAIN a = 1 .. n /\ DOMAIN V = 1 .. m
  BY DEF OfLength
<1>2. b = [i \in 1 .. n |-> IF i - off \in 1 .. m THEN V[i - off] ELSE a[i]]
  BY <1>1
<1>3. b = [i \in 1 .. n |-> b[i]]
  BY <1>2
<1>4. OfLength(b, n)
  BY <1>3, RunOfLength
<1>5. SameRun(b, off + 1, V, 1, m)
  <2> SUFFICES ASSUME NEW x \in 0 .. m - 1
               PROVE  b[(off + 1) + x] = V[1 + x]
    BY DEF SameRun
  <2> DEFINE i == (off + 1) + x
  <2>1. i \in 1 .. n /\ i - off = 1 + x /\ 1 + x \in 1 .. m
    BY SMT
  <2> HIDE DEF i
  <2>2. b[i] = V[i - off]
    BY <1>2, <2>1
  <2>3. QED
    BY <2>1, <2>2 DEF i
<1>6. ASSUME NEW o \in Nat, NEW k \in Nat, o + k <= off \/ off + m <= o, o + k <= n
      PROVE  SameRun(b, o + 1, a, o + 1, k)
  <2> SUFFICES ASSUME NEW x \in 0 .. k - 1
               PROVE  b[(o + 1) + x] = a[(o + 1) + x]
    BY DEF SameRun
  <2> DEFINE i == (o + 1) + x
  <2>1. i \in 1 .. n /\ ~ (i - off \in 1 .. m)
    BY <1>6, SMT
  <2> HIDE DEF i
  <2>2. b[i] = a[i]
    BY <1>2, <2>1
  <2>3. QED
    BY <2>2 DEF i
<1>7. QED
  BY <1>4, <1>5, <1>6

\* The two sides of a call that recurses.
LEMMA SidesOf ==
  ASSUME DegreeOK, NEW t, t = <<t[1], t[2]>>, t[1] \in Nat, t[2] \in Nat, t[2] > degree * ChunkLen
  PROVE  LET l == left_call(t)
             r == right_call(t)
         IN  /\ l = <<l[1], l[2]>> /\ l[1] \in Nat /\ l[2] \in Nat \ {0}
             /\ r = <<r[1], r[2]>> /\ r[1] \in Nat /\ r[2] \in Nat \ {0}
             /\ l[2] = left_subtree_len(t[2]) /\ r[2] = t[2] - left_subtree_len(t[2])
             /\ From(t) \in Nat /\ From(l) = From(t) /\ From(r) = From(t) + l[2]
             /\ End(l) = From(r) /\ End(r) = End(t) /\ l[2] < t[2] /\ r[2] < t[2]
             /\ l # t /\ r # t /\ l # r
<1> DEFINE l == left_call(t)
           r == right_call(t)
           n == left_subtree_len(t[2])
<1>1. PICK p : /\ p \in Nat /\ n = p * ChunkLen /\ n \div ChunkLen = p
               /\ n \in 1 .. t[2] - 1 /\ t[2] - n \in 1 .. n
  BY RecursionSides
<1>2. l = <<t[1], n>> /\ r = <<t[1] + p, t[2] - n>>
  BY <1>1 DEF left_call, right_call
<1>3. l[1] = t[1] /\ l[2] = n /\ r[1] = t[1] + p /\ r[2] = t[2] - n
  BY <1>2
<1> HIDE DEF l, r
<1>4. From(t) \in Nat /\ (t[1] + p) * ChunkLen = t[1] * ChunkLen + p * ChunkLen
  BY <1>1, Multiples DEF From
<1>5. From(l) = From(t) /\ From(r) = From(t) + n
  BY <1>1, <1>3, <1>4 DEF From
<1>6. n \in Nat \ {0} /\ t[2] - n \in Nat \ {0} /\ n < t[2] /\ t[2] - n < t[2] /\ t[1] + p \in Nat
  <2> HIDE DEF n
  <2>1. QED
    BY <1>1, SMT
<1>7. End(l) = From(r) /\ End(r) = End(t)
  <2> DEFINE f == From(t)
             x == t[2]
  <2> HIDE DEF n, f, x
  <2>1. (f + n) + (x - n) = f + x
    BY <1>4, <1>6, SMT DEF f, x
  <2>2. QED
    BY <1>3, <1>5, <2>1 DEF End, f, x
<1>8. l # t /\ r # t /\ l # r
  <2>1. l[2] # t[2] /\ r[2] # t[2]
    <3> HIDE DEF n
    <3>1. QED
      BY <1>3, <1>6, SMT
  <2>2. From(l) # From(r)
    <3> HIDE DEF n
    <3>1. QED
      BY <1>4, <1>5, <1>6, SMT
  <2>3. QED
    BY <2>1, <2>2
<1>9. QED
  BY <1>2, <1>3, <1>4, <1>5, <1>6, <1>7, <1>8 DEF l, r, n

-----------------------------------------------------------------------------
(* Where calls write. *)

Size(u) == IF u = Top THEN max_simd_degree_or_2 ELSE 2 * max_simd_degree_or_2

\* What the invariant says of one call, and of one that has recursed.
LEMMA InvOf ==
  ASSUME SubtreeInv
  PROVE  /\ DegreeOK /\ len \in Nat /\ len > ChunkLen /\ <<0, len>> \in DOMAIN task
         /\ task[<<0, len>>].up = Top /\ task[<<0, len>>].off = 0
         /\ \A t \in DOMAIN task :
              /\ TaskOK(t) /\ Placed(t) /\ t = <<t[1], t[2]>> /\ t[1] \in Nat /\ t[2] \in Nat
              /\ t[2] # 0 /\ t[2] > 0 /\ task[t].up \in DOMAIN array
         /\ \A u \in DOMAIN array : OfLength(array[u], Size(u)) /\ Size(u) \in Nat
         /\ \A u \in DOMAIN array \ {Top} : Recursed(u) /\ u \in DOMAIN task
         /\ Top \in DOMAIN array
         /\ \A t, u \in DOMAIN task : Nested(t, u)
<1>1. DegreeOK /\ len \in Nat /\ len > ChunkLen /\ <<0, len>> \in DOMAIN task
      /\ task[<<0, len>>].up = Top /\ task[<<0, len>>].off = 0
      /\ Top \in DOMAIN array /\ OfLength(array[Top], max_simd_degree_or_2)
      /\ (\A t \in DOMAIN task : TaskOK(t))
      /\ (\A t \in DOMAIN array \ {Top} : Recursed(t))
      /\ \A t, u \in DOMAIN task : Nested(t, u)
  BY DEF SubtreeInv
<1>2. ASSUME NEW t \in DOMAIN task
      PROVE  /\ TaskOK(t) /\ Placed(t) /\ t = <<t[1], t[2]>> /\ t[1] \in Nat /\ t[2] \in Nat
             /\ t[2] # 0 /\ t[2] > 0 /\ task[t].up \in DOMAIN array
  <2>1. TaskOK(t) /\ Placed(t) /\ t = <<t[1], t[2]>> /\ t[1] \in Nat /\ t[2] \in Nat /\ t[2] # 0
    BY <1>1 DEF TaskOK
  <2>2. t[2] > 0
    BY <2>1, SMT
  <2>3. task[t].up \in DOMAIN array
    BY <1>1, <2>1 DEF Placed
  <2>4. QED
    BY <2>1, <2>2, <2>3
<1>3. ASSUME NEW u \in DOMAIN array
      PROVE  OfLength(array[u], Size(u)) /\ Size(u) \in Nat
  <2>1. OfLength(array[u], Size(u))
    BY <1>1, <1>3 DEF Size, Recursed
  <2>2. QED
    BY <2>1 DEF OfLength
<1>4. \A u \in DOMAIN array \ {Top} : Recursed(u) /\ u \in DOMAIN task
  BY <1>1 DEF Recursed
<1>5. QED
  BY <1>1, <1>2, <1>3, <1>4

\* A call that returns as many values as it may has the slots for them.
LEMMA SlotsOf ==
  ASSUME SubtreeInv, NEW t \in DOMAIN task, NEW m, CountOK(t[2], m)
  PROVE  /\ m \in Nat \ {0} /\ task[t].off \in Nat
         /\ task[t].off + m <= Size(task[t].up)
         /\ task[t].up # t
<1> DEFINE up == task[t].up
           off == task[t].off
<1>1. /\ DegreeOK /\ len \in Nat /\ len > ChunkLen /\ Placed(t) /\ up \in DOMAIN array
      /\ \A u \in DOMAIN array \ {Top} : Recursed(u) /\ u \in DOMAIN task
      /\ \A u \in DOMAIN task : u = <<u[1], u[2]>> /\ u[1] \in Nat /\ u[2] \in Nat
  BY InvOf
<1>2. Cap \in Nat /\ Cap <= max_simd_degree_or_2 /\ max_simd_degree_or_2 \in Nat
  BY <1>1, CapOf
<1>3. m \in 1 .. Cap
  BY DEF CountOK
<1>4. m \in Nat \ {0} /\ m <= Cap
  BY <1>2, <1>3, SMT
<1>5. CASE t = <<0, len>> /\ up = Top /\ off = 0
  <2>1. off \in Nat /\ off + m <= max_simd_degree_or_2
    <3> HIDE DEF off
    <3>1. QED
      BY <1>2, <1>4, <1>5, SMT
  <2>2. t # Top
    BY <1>1, <1>5, HashTreeAssumption, SMT DEF Top
  <2>3. QED
    BY <1>4, <1>5, <2>1, <2>2 DEF Size
<1>6. CASE /\ up \in DOMAIN array \ {Top}
           /\ \/ t = left_call(up) /\ off = 0
              \/ t = right_call(up) /\ off = left_slots(up)
  <2>1. up[2] > degree * ChunkLen /\ up = <<up[1], up[2]>> /\ up[1] \in Nat /\ up[2] \in Nat
    BY <1>1, <1>6 DEF Recursed
  <2> HIDE DEF up
  <2>2. left_call(up) # up /\ right_call(up) # up
        /\ left_call(up)[2] = left_subtree_len(up[2])
        /\ right_call(up)[2] = up[2] - left_subtree_len(up[2])
    BY <1>1, <2>1, SidesOf
  <2>3. off \in Nat /\ off <= Cap
    <3>1. CASE off = 0
      <4> HIDE DEF off
      <4>1. QED
        BY <1>2, <3>1, SMT
    <3>2. CASE off = left_slots(up)
      <4>1. left_slots(up) = 2 \/ left_slots(up) = degree
        BY DEF left_slots
      <4>2. degree \in Nat /\ degree <= Cap /\ Cap >= 2
        BY <1>1, CapOf
      <4> HIDE DEF off
      <4>3. QED
        BY <1>2, <3>2, <4>1, <4>2, SMT
    <3>3. QED
      BY <1>6, <3>1, <3>2
  <2>4. off + m <= 2 * max_simd_degree_or_2
    <3> HIDE DEF off
    <3>1. QED
      BY <1>2, <1>4, <2>3, SMT
  <2>5. t # up /\ up # Top
    BY <1>6, <2>2
  <2>6. QED
    BY <1>4, <2>3, <2>4, <2>5 DEF Size, up
<1>7. QED
  BY <1>1, <1>5, <1>6 DEF Placed

\* Two calls that write to the same array write to different slots.
LEMMA SlotsApart ==
  ASSUME SubtreeInv, NEW t \in DOMAIN task, NEW u \in DOMAIN task, t # u,
         task[t].up = task[u].up,
         NEW m, CountOK(t[2], m), NEW k, CountOK(u[2], k)
  PROVE  task[u].off + k <= task[t].off \/ task[t].off + m <= task[u].off
<1> DEFINE up == task[t].up
<1>1. /\ DegreeOK /\ Placed(t) /\ Placed(u)
      /\ \A v \in DOMAIN array \ {Top} : Recursed(v) /\ v \in DOMAIN task
      /\ \A v \in DOMAIN task : v = <<v[1], v[2]>> /\ v[1] \in Nat /\ v[2] \in Nat
  BY InvOf
<1>2. /\ up \in DOMAIN array \ {Top}
      /\ \/ /\ t = left_call(up) /\ task[t].off = 0
            /\ u = right_call(up) /\ task[u].off = left_slots(up)
         \/ /\ u = left_call(up) /\ task[u].off = 0
            /\ t = right_call(up) /\ task[t].off = left_slots(up)
  BY <1>1 DEF Placed
<1>3. up[2] > degree * ChunkLen /\ up = <<up[1], up[2]>> /\ up[1] \in Nat /\ up[2] \in Nat
  BY <1>1, <1>2 DEF Recursed
<1> HIDE DEF up
<1>4. left_call(up)[2] = left_subtree_len(up[2])
  BY <1>1, <1>3, SidesOf
<1>5. ASSUME NEW x, CountOK(left_call(up)[2], x)
      PROVE  0 + x <= left_slots(up)
  <2>1. x = left_slots(up) /\ x \in 1 .. Cap /\ Cap \in Nat
    BY <1>1, <1>3, <1>4, <1>5, SidesCount, CapOf
  <2>2. 0 + x = x /\ x <= x
    BY <2>1, SMT
  <2>3. QED
    BY <2>1, <2>2
<1>6. QED
  BY <1>2, <1>5

-----------------------------------------------------------------------------
(* A call returns. *)

\* What call t may return.
Returnable(t, V, m) ==
  /\ t \in DOMAIN task /\ task[t].state # "returned"
  /\ OfLength(V, m) /\ CountOK(t[2], m)
  /\ Condensed(V, 1, m) = SubtreeCV(key, flags, t[1], t[2])
  /\ t \in DOMAIN array =>
       task[left_call(t)].state = "returned" /\ task[right_call(t)].state = "returned"

\* Nothing of the machine or of the input changes.
LEMMA SameMachine ==
  ASSUME degree' = degree
  PROVE  /\ \A n, m : CountOK(n, m)' <=> CountOK(n, m)
         /\ \A t : left_slots(t)' = left_slots(t) /\ left_call(t)' = left_call(t)
                   /\ right_call(t)' = right_call(t)
         /\ DegreeOK' <=> DegreeOK
<1>1. Cap' = Cap
  BY DEF Cap
<1>2. ASSUME NEW n, NEW m
      PROVE  CountOK(n, m)' <=> CountOK(n, m)
  BY <1>1 DEF CountOK
<1>3. ASSUME NEW t
      PROVE  left_slots(t)' = left_slots(t) /\ left_call(t)' = left_call(t)
             /\ right_call(t)' = right_call(t)
  BY DEF left_slots, left_call, right_call
<1>4. DegreeOK' <=> DegreeOK
  BY DEF DegreeOK
<1>5. QED
  BY <1>2, <1>3, <1>4

\* Returning leaves what other calls returned as it was.
LEMMA ReturnStep ==
  ASSUME SubtreeInv, NEW t, NEW V, NEW m, Returnable(t, V, m),
         array' = written(t, V), task' = returned(t, V), UNCHANGED <<len, degree, pair>>
  PROVE  SubtreeInv'
<1> DEFINE up == task[t].up
           off == task[t].off
<1>1. /\ DegreeOK /\ len \in Nat /\ len > ChunkLen /\ <<0, len>> \in DOMAIN task
      /\ \A v \in DOMAIN task :
           /\ TaskOK(v) /\ Placed(v) /\ v = <<v[1], v[2]>> /\ v[1] \in Nat /\ v[2] \in Nat
           /\ v[2] # 0 /\ v[2] > 0 /\ task[v].up \in DOMAIN array
      /\ \A v \in DOMAIN array : OfLength(array[v], Size(v)) /\ Size(v) \in Nat
      /\ \A v \in DOMAIN array \ {Top} : Recursed(v) /\ v \in DOMAIN task
      /\ Top \in DOMAIN array
      /\ \A v, w \in DOMAIN task : Nested(v, w)
  BY InvOf
<1>2. /\ t \in DOMAIN task /\ task[t].state # "returned" /\ OfLength(V, m) /\ CountOK(t[2], m)
      /\ Condensed(V, 1, m) = SubtreeCV(key, flags, t[1], t[2])
      /\ t \in DOMAIN array =>
           task[left_call(t)].state = "returned" /\ task[right_call(t)].state = "returned"
  BY DEF Returnable
<1>3. m \in Nat \ {0} /\ off \in Nat /\ off + m <= Size(up) /\ up # t /\ up \in DOMAIN array
  BY <1>1, <1>2, SlotsOf
<1>4. len' = len /\ degree' = degree /\ pair' = pair
  OBVIOUS
<1>5. /\ DOMAIN task' = DOMAIN task
      /\ \A v \in DOMAIN task : v # t => task'[v] = task[v]
      /\ task'[t] = [state |-> "returned", up |-> up, off |-> off, count |-> m]
  <2>1. PICK c, d : task[t] = [state |-> c, up |-> up, off |-> off, count |-> d]
    BY <1>1, <1>2 DEF TaskOK
  <2>2. Len(V) = m
    BY <1>2 DEF OfLength
  <2>3. task' = [task EXCEPT ![t].state = "returned", ![t].count = m]
    BY <2>2 DEF returned
  <2> DEFINE r == task[t]
  <2>4. DOMAIN task' = DOMAIN task /\ (\A v \in DOMAIN task : v # t => task'[v] = task[v])
        /\ task'[t] = [[r EXCEPT !.state = "returned"] EXCEPT !.count = m]
    BY <1>2, <2>3
  <2> HIDE DEF r
  <2>5. [[r EXCEPT !.state = "returned"] EXCEPT !.count = m]
          = [state |-> "returned", up |-> up, off |-> off, count |-> m]
    <3> HIDE DEF up, off
    <3> DEFINE q == [r EXCEPT !.state = "returned"]
    <3>1. q = [state |-> "returned", up |-> up, off |-> off, count |-> d]
      BY <2>1 DEF r
    <3> HIDE DEF q
    <3>2. [q EXCEPT !.count = m] = [state |-> "returned", up |-> up, off |-> off, count |-> m]
      BY <3>1
    <3>3. QED
      BY <3>2 DEF q
  <2>6. QED
    BY <2>4, <2>5
<1> DEFINE a == array[up]
           b == [i \in DOMAIN a |-> IF i - off \in DOMAIN V THEN V[i - off] ELSE a[i]]
           size == Size(up)
<1>6. /\ DOMAIN array' = DOMAIN array
      /\ \A v \in DOMAIN array : v # up => array'[v] = array[v]
      /\ array'[up] = b
  BY <1>3 DEF written
<1>7. /\ OfLength(b, size)
      /\ SameRun(b, off + 1, V, 1, m)
      /\ \A o, k \in Nat : (o + k <= off \/ off + m <= o) /\ o + k <= size
                             => SameRun(b, o + 1, a, o + 1, k)
  <2>1. size \in Nat /\ OfLength(a, size) /\ m \in Nat /\ off + m <= size
    BY <1>1, <1>3
  <2> HIDE DEF a, size, off
  <2>2. QED
    BY <1>2, <1>3, <2>1, WrittenRun
<1> HIDE DEF a, b
<1>8. /\ \A n, k : CountOK(n, k)' <=> CountOK(n, k)
      /\ \A v : left_slots(v)' = left_slots(v) /\ left_call(v)' = left_call(v)
                /\ right_call(v)' = right_call(v)
      /\ DegreeOK'
  BY <1>1, <1>4, SameMachine
<1>9. ASSUME NEW v \in DOMAIN task
      PROVE  Placed(v)'
  <2>1. task'[v].up = task[v].up /\ task'[v].off = task[v].off
    BY <1>5
  <2>2. QED
    BY <1>1, <1>4, <1>6, <1>8, <2>1 DEF Placed
<1>10. Valued(t)'
  <2>1. task'[t].count = m /\ task'[t].up = up /\ task'[t].off = off
    BY <1>5
  <2>2. Condensed(b, off + 1, m) = Condensed(V, 1, m)
    <3> DEFINE one == 1
               o == off + 1
    <3>1. o \in Nat /\ one \in Nat /\ m > 0 /\ m \in Nat /\ SameRun(b, o, V, one, m)
      <4>1. m > 0
        BY <1>3, SMT
      <4>2. QED
        BY <1>3, <1>7, <4>1
    <3> HIDE DEF one, o
    <3>2. Condensed(b, o, m) = Condensed(V, one, m)
      BY <3>1, CondensedSame
    <3>3. QED
      BY <3>2 DEF one, o
  <2>3. Condensed(array'[task'[t].up], task'[t].off + 1, task'[t].count)
          = SubtreeCV(key, flags, t[1], t[2])
    BY <1>2, <1>6, <2>1, <2>2
  <2>4. CountOK(t[2], task[t].count)'
    <3>1. CountOK(t[2], m)'
      BY <1>2, <1>8
    <3>2. QED
      BY <2>1, <3>1 DEF CountOK
  <2>5. QED
    BY <2>3, <2>4 DEF Valued, Condensed
<1>11. ASSUME NEW v \in DOMAIN task, v # t, task[v].state = "returned"
       PROVE  Valued(v)'
  <2> DEFINE k == task[v].count
             o == task[v].off
             p == task[v].up
  <2>1. task'[v] = task[v]
    BY <1>5, <1>11
  <2>2. Valued(v) /\ CountOK(v[2], k)
    BY <1>1, <1>11 DEF TaskOK, Valued
  <2>3. k \in Nat \ {0} /\ o \in Nat /\ o + k <= Size(p)
    BY <2>2, SlotsOf
  <2>4. Condensed(array'[p], o + 1, k) = Condensed(array[p], o + 1, k)
    <3>1. CASE p # up
      BY <1>1, <1>6, <3>1
    <3>2. CASE p = up
      <4>1. o + k <= off \/ off + m <= o
        BY <1>2, <1>11, <2>2, <3>2, SlotsApart
      <4>2. SameRun(b, o + 1, a, o + 1, k)
        <5>1. o + k <= size /\ k \in Nat
          BY <2>3, <3>2
        <5> HIDE DEF size, off, o, k
        <5>2. QED
          BY <1>7, <2>3, <4>1, <5>1
      <4> DEFINE j == o + 1
      <4>3. j \in Nat /\ k \in Nat /\ k > 0 /\ SameRun(b, j, a, j, k)
        <5>1. k > 0
          BY <2>3, SMT
        <5>2. QED
          BY <2>3, <4>2, <5>1
      <4> HIDE DEF j, k
      <4>4. Condensed(b, j, k) = Condensed(a, j, k)
        BY <4>3, CondensedSame
      <4>5. QED
        BY <1>6, <3>2, <4>4 DEF j, a
    <3>3. QED
      BY <3>1, <3>2
  <2>5. Condensed(array'[task'[v].up], task'[v].off + 1, task'[v].count)
          = SubtreeCV(key, flags, v[1], v[2])
    BY <2>1, <2>2, <2>4 DEF Valued
  <2>6. CountOK(v[2], task[v].count)'
    <3>1. PICK c : c = task[v].count
      OBVIOUS
    <3>2. CountOK(v[2], c)'
      BY <1>8, <2>2, <3>1
    <3>3. task'[v].count = c
      BY <2>1, <3>1
    <3>4. QED
      BY <3>2, <3>3 DEF CountOK
  <2>7. QED
    BY <2>5, <2>6 DEF Valued, Condensed
<1>12. ASSUME NEW v \in DOMAIN task
       PROVE  TaskOK(v)'
  <2>1. CASE v = t
    <3> DEFINE w == task'[t]
    <3>1. w = [state |-> "returned", up |-> up, off |-> off, count |-> m]
      BY <1>5
    <3> HIDE DEF w
    <3>2. w.state = "returned" /\ w = [state |-> w.state, up |-> w.up, off |-> w.off, count |-> w.count]
      BY <3>1
    <3>3. t = <<t[1], t[2]>> /\ t[1] \in Nat /\ t[2] \in Nat \ {0} /\ Placed(t)'
      BY <1>1, <1>2, <1>9
    <3>4. QED
      BY <1>10, <2>1, <3>2, <3>3 DEF TaskOK, w
  <2>2. CASE v # t
    <3>1. task'[v] = task[v] /\ TaskOK(v) /\ Placed(v)'
      BY <1>1, <1>5, <1>9, <2>2
    <3>2. QED
      BY <1>6, <1>11, <2>2, <3>1 DEF TaskOK
  <2>3. QED
    BY <2>1, <2>2
<1>13. ASSUME NEW v \in DOMAIN array
       PROVE  OfLength(array'[v], Size(v))
  BY <1>1, <1>6, <1>7
<1>14. ASSUME NEW v \in DOMAIN array \ {Top}
       PROVE  Recursed(v)'
  <2>1. Recursed(v) /\ v \in DOMAIN task
    BY <1>1
  <2> DEFINE x == left_call(v)
             y == right_call(v)
  <2>2. /\ x \in DOMAIN task /\ y \in DOMAIN task
        /\ task[x].up = v /\ task[x].off = 0
        /\ task[y].up = v /\ task[y].off = left_slots(v)
        /\ task[v].state # "called" /\ v[2] > degree * ChunkLen
        /\ task[v].state = "returned" => task[x].state = "returned" /\ task[y].state = "returned"
    BY <2>1 DEF Recursed
  <2> HIDE DEF x, y
  <2>3. /\ task'[x].up = v /\ task'[x].off = 0
        /\ task'[y].up = v /\ task'[y].off = left_slots(v)
        /\ task'[v].state # "called"
    BY <1>5, <2>1, <2>2
  <2>4. ASSUME task'[v].state = "returned"
        PROVE  task'[x].state = "returned" /\ task'[y].state = "returned"
    <3>1. task[x].state = "returned" /\ task[y].state = "returned"
      BY <1>2, <1>5, <2>1, <2>2, <2>4 DEF x, y
    <3>2. QED
      BY <1>5, <2>2, <3>1
  <2>5. OfLength(array'[v], 2 * max_simd_degree_or_2)
    BY <1>13 DEF Size
  <2>6. left_call(v)' = x /\ right_call(v)' = y /\ left_slots(v)' = left_slots(v)
    BY <1>8 DEF x, y
  <2>7. v \in DOMAIN task' /\ x \in DOMAIN task' /\ y \in DOMAIN task' /\ v[2] > degree' * ChunkLen
    BY <1>4, <1>5, <2>1, <2>2
  <2>8. QED
    BY <2>3, <2>4, <2>5, <2>6, <2>7 DEF Recursed, OfLength
<1>15. ASSUME NEW v \in DOMAIN task, NEW w \in DOMAIN task
       PROVE  Nested(v, w)'
  <2>1. Nested(v, w)
    BY <1>1
  <2>2. QED
    BY <1>6, <2>1 DEF Nested, Apart, Inside, From, End
<1>16. PairIsTopOfTree'
  <2>1. PairIsTopOfTree
    BY DEF SubtreeInv
  <2>2. QED
    BY <1>4, <2>1 DEF PairIsTopOfTree
<1>17. OfLength(array'[Top], max_simd_degree_or_2)
  BY <1>1, <1>13 DEF Size
<1>18. task'[<<0, len>>].up = Top /\ task'[<<0, len>>].off = 0
  <2>1. task[<<0, len>>].up = Top /\ task[<<0, len>>].off = 0
    BY InvOf
  <2>2. \A v \in DOMAIN task : task'[v].up = task[v].up /\ task'[v].off = task[v].off
    BY <1>5
  <2>3. QED
    BY <1>1, <2>1, <2>2
<1>19. QED
  BY <1>1, <1>4, <1>5, <1>6, <1>8, <1>12, <1>14, <1>15, <1>16, <1>17, <1>18
     DEF SubtreeInv, OfLength

\* Hashing chunks is returning.
LEMMA HashChunksStep ==
  ASSUME SubtreeInv, NEW t \in DOMAIN task, HashChunks(t)
  PROVE  SubtreeInv'
<1> DEFINE V == compress_chunks_parallel(t[1], t[2])
           m == Chunks(t[2])
<1>1. DegreeOK /\ t[1] \in Nat /\ t[2] \in Nat /\ t[2] > 0 /\ TaskOK(t)
  BY InvOf
<1>2. /\ task[t].state = "called" /\ t[2] <= degree * ChunkLen
      /\ array' = written(t, V) /\ task' = returned(t, V) /\ UNCHANGED <<len, degree, pair>>
  BY DEF HashChunks
<1>3. OfLength(V, m) /\ Condensed(V, 1, m) = SubtreeCV(key, flags, t[1], t[2])
  BY <1>1, ChunksHashed, ChunksCondensed
<1>4. CountOK(t[2], m)
  BY <1>1, <1>2, LeafCount
<1>5. task[t].state # "returned" /\ t \notin DOMAIN array
  BY <1>1, <1>2 DEF TaskOK
<1> HIDE DEF V, m
<1>6. Returnable(t, V, m)
  BY <1>3, <1>4, <1>5 DEF Returnable
<1>7. QED
  BY <1>2, <1>6, ReturnStep

\* What a call that has recursed has in its array when both sides have
\* returned: the values of the right side behind those of the left one.
LEMMA SidesReturned ==
  ASSUME SubtreeInv, NEW t \in DOMAIN array, t # Top,
         task[left_call(t)].state = "returned", task[right_call(t)].state = "returned"
  PROVE  LET lc == task[left_call(t)].count
             rc == task[right_call(t)].count
         IN  /\ CountOK(left_call(t)[2], lc) /\ CountOK(right_call(t)[2], rc)
             /\ lc \in Nat /\ rc \in Nat /\ lc = left_slots(t)
             /\ lc + rc <= 2 * max_simd_degree_or_2
             /\ Condensed(array[t], 1, lc)
                  = SubtreeCV(key, flags, left_call(t)[1], left_call(t)[2])
             /\ Condensed(array[t], lc + 1, rc)
                  = SubtreeCV(key, flags, right_call(t)[1], right_call(t)[2])
<1> DEFINE l == left_call(t)
           r == right_call(t)
           lc == task[l].count
           rc == task[r].count
<1>1. DegreeOK /\ Recursed(t) /\ t \in DOMAIN task
  BY InvOf
<1>2. /\ l \in DOMAIN task /\ r \in DOMAIN task /\ t[2] > degree * ChunkLen
      /\ task[l].up = t /\ task[l].off = 0 /\ task[r].up = t /\ task[r].off = left_slots(t)
  BY <1>1 DEF Recursed
<1>3. Valued(l) /\ Valued(r) /\ t = <<t[1], t[2]>> /\ t[1] \in Nat /\ t[2] \in Nat
  <2>1. TaskOK(l) /\ TaskOK(r)
    BY <1>2, InvOf
  <2>2. QED
    BY <1>1, <2>1, InvOf DEF TaskOK
<1>4. l[2] = left_subtree_len(t[2])
  BY <1>1, <1>2, <1>3, SidesOf
<1>5. r[2] = t[2] - left_subtree_len(t[2])
  BY <1>1, <1>2, <1>3, SidesOf
<1>6. CountOK(l[2], lc) /\ CountOK(r[2], rc)
  BY <1>3 DEF Valued
<1>7. lc = left_slots(t) /\ lc \in 1 .. Cap /\ rc \in 1 .. lc
  BY <1>1, <1>2, <1>3, <1>4, <1>5, <1>6, SidesCount
<1>8. Condensed(array[t], 0 + 1, lc) = SubtreeCV(key, flags, l[1], l[2])
      /\ Condensed(array[t], lc + 1, rc) = SubtreeCV(key, flags, r[1], r[2])
  BY <1>2, <1>3, <1>7 DEF Valued
<1>9. lc \in Nat /\ rc \in Nat /\ lc + rc <= 2 * max_simd_degree_or_2 /\ 0 + 1 = 1
  <2>1. Cap \in Nat /\ Cap <= max_simd_degree_or_2 /\ max_simd_degree_or_2 \in Nat
    BY <1>1, CapOf
  <2> HIDE DEF lc, rc
  <2>2. QED
    BY <1>7, <2>1, SMT
<1>10. QED
  BY <1>6, <1>7, <1>8, <1>9

\* Joining is returning.
LEMMA JoinStep ==
  ASSUME SubtreeInv, NEW t \in DOMAIN task, Join(t)
  PROVE  SubtreeInv'
<1> DEFINE lc == task[left_call(t)].count
           rc == task[right_call(t)].count
           V == joined(array[t], lc, rc)
           m == JoinedLen(lc, rc)
           n == 2 * max_simd_degree_or_2
<1>1. DegreeOK /\ t[1] \in Nat /\ t[2] \in Nat /\ t[2] > 0 /\ t[2] # 0 /\ TaskOK(t)
      /\ t = <<t[1], t[2]>>
  BY InvOf
<1>2. /\ task[t].state = "forked"
      /\ task[left_call(t)].state = "returned" /\ task[right_call(t)].state = "returned"
      /\ array' = written(t, V) /\ task' = returned(t, V) /\ UNCHANGED <<len, degree, pair>>
  BY DEF Join
<1>3. t \in DOMAIN array /\ t # Top
  BY <1>1, <1>2 DEF TaskOK, Top
<1>4. t[2] > degree * ChunkLen /\ OfLength(array[t], n)
  BY <1>3, InvOf DEF Recursed
<1>5. /\ CountOK(left_call(t)[2], lc) /\ CountOK(right_call(t)[2], rc)
      /\ lc \in Nat /\ rc \in Nat /\ lc + rc <= n
      /\ Condensed(array[t], 1, lc) = SubtreeCV(key, flags, left_call(t)[1], left_call(t)[2])
      /\ Condensed(array[t], lc + 1, rc)
           = SubtreeCV(key, flags, right_call(t)[1], right_call(t)[2])
  BY <1>2, <1>3, SidesReturned
<1>6. n \in Nat
  BY <1>4 DEF OfLength
<1>7. OfLength(V, m) /\ Condensed(V, 1, m) = SubtreeCV(key, flags, t[1], t[2])
  <2> HIDE DEF lc, rc, n
  <2>1. QED
    BY <1>1, <1>4, <1>5, <1>6, JoinedValues
<1>8. CountOK(t[2], m)
  <2>1. left_call(t)[2] = left_subtree_len(t[2]) /\ right_call(t)[2] = t[2] - left_subtree_len(t[2])
    BY <1>1, <1>4, SidesOf
  <2> HIDE DEF lc, rc
  <2>2. QED
    BY <1>1, <1>4, <1>5, <2>1, JoinedCount
<1> HIDE DEF V, m
<1>9. Returnable(t, V, m)
  <2>1. task[t].state # "returned"
    BY <1>2
  <2>2. QED
    BY <1>2, <1>7, <1>8, <2>1 DEF Returnable
<1>10. QED
  BY <1>2, <1>9, ReturnStep

-----------------------------------------------------------------------------
(* A call recurses. *)

\* Where a call begins and ends.
LEMMA Extent ==
  ASSUME NEW t, t[1] \in Nat, t[2] \in Nat
  PROVE  From(t) \in Nat /\ End(t) \in Nat /\ End(t) = From(t) + t[2]
<1>1. From(t) \in Nat
  BY Multiples DEF From
<1>2. End(t) = From(t) + t[2]
  BY DEF End
<1> HIDE DEF From, End
<1>3. QED
  BY <1>1, <1>2, SMT

\* What is inside t is apart from what is apart from t, and inside of what t is
\* inside of.
LEMMA InsideOf ==
  ASSUME NEW s, NEW t, NEW v, From(s) \in Nat, End(s) \in Nat, From(t) \in Nat, End(t) \in Nat,
         From(v) \in Nat, End(v) \in Nat, From(t) <= From(s), End(s) <= End(t)
  PROVE  /\ Apart(v, t) => Apart(v, s)
         /\ Inside(t, v) => Inside(s, v)
         /\ Inside(s, t)
<1> DEFINE a == From(s)
           b == End(s)
           c == From(t)
           d == End(t)
           e == From(v)
           f == End(v)
<1>1. Apart(v, t) <=> (f <= c \/ d <= e)
  BY DEF Apart
<1>2. Apart(v, s) <=> (f <= a \/ b <= e)
  BY DEF Apart
<1>3. (Inside(t, v) <=> (e <= c /\ d <= f)) /\ (Inside(s, v) <=> (e <= a /\ b <= f))
      /\ (Inside(s, t) <=> (c <= a /\ b <= d))
  BY DEF Inside
<1> HIDE DEF a, b, c, d, e, f
<1>4. a \in Nat /\ b \in Nat /\ c \in Nat /\ d \in Nat /\ e \in Nat /\ f \in Nat /\ c <= a /\ b <= d
  BY DEF a, b, c, d, e, f
<1>5. (f <= c \/ d <= e) => (f <= a \/ b <= e)
  BY <1>4, SMT
<1>6. (e <= c /\ d <= f) => (e <= a /\ b <= f)
  BY <1>4, SMT
<1>7. QED
  BY <1>1, <1>2, <1>3, <1>4, <1>5, <1>6

\* The sides of a call that has not recursed yet have not been called.
LEMMA SidesNotCalled ==
  ASSUME SubtreeInv, NEW t \in DOMAIN task, t \notin DOMAIN array, t[2] > degree * ChunkLen
  PROVE  LET l == left_call(t)
             r == right_call(t)
         IN  /\ l \notin DOMAIN task /\ r \notin DOMAIN task
             /\ l \notin DOMAIN array /\ r \notin DOMAIN array
             /\ l # Top /\ r # Top /\ t # Top
             /\ \A s \in {l, r} : /\ From(s) \in Nat /\ End(s) \in Nat
                                  /\ From(t) <= From(s) /\ End(s) <= End(t)
             /\ End(l) <= From(r)
<1> DEFINE l == left_call(t)
           r == right_call(t)
<1>1. DegreeOK /\ t = <<t[1], t[2]>> /\ t[1] \in Nat /\ t[2] \in Nat /\ t[2] # 0
      /\ \A v, w \in DOMAIN task : Nested(v, w)
  BY InvOf
<1>2. /\ l = <<l[1], l[2]>> /\ l[1] \in Nat /\ l[2] \in Nat \ {0}
      /\ r = <<r[1], r[2]>> /\ r[1] \in Nat /\ r[2] \in Nat \ {0}
      /\ From(t) \in Nat /\ From(l) = From(t) /\ From(r) = From(t) + l[2]
      /\ End(l) = From(r) /\ End(r) = End(t) /\ l[2] < t[2] /\ r[2] < t[2]
      /\ l # t /\ r # t /\ l # r
  BY <1>1, SidesOf
<1> HIDE DEF l, r
<1>3. /\ From(l) \in Nat /\ End(l) \in Nat /\ End(l) = From(l) + l[2]
      /\ From(r) \in Nat /\ End(r) \in Nat /\ End(r) = From(r) + r[2]
      /\ End(t) \in Nat /\ End(t) = From(t) + t[2]
  BY <1>1, <1>2, Extent
<1> DEFINE a == From(t)
           x == l[2]
           y == r[2]
           z == t[2]
           b == End(t)
           c == From(r)
<1>4. a \in Nat /\ x \in Nat \ {0} /\ y \in Nat \ {0} /\ z \in Nat /\ x < z /\ y < z
      /\ b \in Nat /\ c \in Nat /\ b = a + z /\ c = a + x /\ b = c + y
  BY <1>1, <1>2, <1>3
<1>5. From(l) = a /\ End(l) = c /\ End(r) = b
  BY <1>2
<1> HIDE DEF a, x, y, z, b, c
<1>6. a < c /\ c < b /\ a <= a /\ a <= c /\ c <= b /\ b <= b /\ c <= c
      /\ ~ (b <= a) /\ ~ (c <= a) /\ ~ (b <= c)
  BY <1>4, SMT
<1>7. \A s \in {l, r} : ~ Apart(t, s) /\ ~ Inside(t, s)
  BY <1>5, <1>6 DEF Apart, Inside, a, b, c
<1>8. \A s \in {l, r} : s # t /\ s \notin DOMAIN task
  BY <1>1, <1>2, <1>7 DEF Nested
<1>9. \A s \in {l, r} : s # Top
  BY <1>2 DEF Top
<1>10. \A s \in {l, r} : s \notin DOMAIN array
  BY <1>8, <1>9, InvOf
<1>11. \A s \in {l, r} : From(s) \in Nat /\ End(s) \in Nat /\ From(t) <= From(s) /\ End(s) <= End(t)
  BY <1>3, <1>5, <1>6 DEF a, b, c
<1>12. End(l) <= From(r) /\ t # Top
  BY <1>1, <1>5, <1>6 DEF c, Top
<1>13. QED
  BY <1>8, <1>9, <1>10, <1>11, <1>12 DEF l, r

\* Recursing makes two calls that were not made before, and leaves the others
\* and their values as they were.
LEMMA ForkStep ==
  ASSUME SubtreeInv, NEW t \in DOMAIN task, Fork(t)
  PROVE  SubtreeInv'
<1> DEFINE l == left_call(t)
           r == right_call(t)
           n == 2 * max_simd_degree_or_2
           empty == uninitialised(n)
           old == task[t]
<1>1. /\ DegreeOK /\ len \in Nat /\ len > ChunkLen /\ <<0, len>> \in DOMAIN task
      /\ \A v \in DOMAIN task :
           /\ TaskOK(v) /\ Placed(v) /\ v = <<v[1], v[2]>> /\ v[1] \in Nat /\ v[2] \in Nat
           /\ v[2] # 0 /\ v[2] > 0 /\ task[v].up \in DOMAIN array
      /\ \A v \in DOMAIN array : OfLength(array[v], Size(v)) /\ Size(v) \in Nat
      /\ \A v \in DOMAIN array \ {Top} : Recursed(v) /\ v \in DOMAIN task
      /\ Top \in DOMAIN array
      /\ \A v, w \in DOMAIN task : Nested(v, w)
  BY InvOf
<1>2. /\ old.state = "called" /\ t[2] > degree * ChunkLen
      /\ len' = len /\ degree' = degree /\ pair' = pair
      /\ array' = [u \in DOMAIN array \cup {t} |-> IF u = t THEN empty ELSE array[u]]
      /\ task' = [u \in DOMAIN task \cup {l, r} |->
                    CASE u = t -> [old EXCEPT !.state = "forked"]
                      [] u = l -> Call(t, 0)
                      [] u = r -> Call(t, left_slots(t))
                      [] OTHER -> task[u]]
  BY DEF Fork
<1>3. t \notin DOMAIN array
  BY <1>1, <1>2 DEF TaskOK
<1>4. /\ l \notin DOMAIN task /\ r \notin DOMAIN task
      /\ l \notin DOMAIN array /\ r \notin DOMAIN array
      /\ l # Top /\ r # Top /\ t # Top
      /\ \A s \in {l, r} : /\ From(s) \in Nat /\ End(s) \in Nat
                           /\ From(t) <= From(s) /\ End(s) <= End(t)
      /\ End(l) <= From(r)
  BY <1>2, <1>3, SidesNotCalled
<1>5. /\ l = <<l[1], l[2]>> /\ l[1] \in Nat /\ l[2] \in Nat \ {0}
      /\ r = <<r[1], r[2]>> /\ r[1] \in Nat /\ r[2] \in Nat \ {0}
      /\ l # t /\ r # t /\ l # r
  BY <1>1, <1>2, SidesOf
<1> HIDE DEF l, r, empty, n
<1>6. /\ DOMAIN array' = DOMAIN array \cup {t} /\ array'[t] = empty
      /\ \A v \in DOMAIN array : array'[v] = array[v]
  BY <1>2, <1>3
<1>7. /\ DOMAIN task' = DOMAIN task \cup {l, r}
      /\ task'[t] = [old EXCEPT !.state = "forked"]
      /\ task'[l] = Call(t, 0) /\ task'[r] = Call(t, left_slots(t))
      /\ \A v \in DOMAIN task \ {t} : task'[v] = task[v]
  BY <1>2, <1>4, <1>5
<1>8. task'[t] = [state |-> "forked", up |-> old.up, off |-> old.off, count |-> 0]
  <2>1. old = [state |-> "called", up |-> old.up, off |-> old.off, count |-> 0]
    <3>1. old.count = 0
      BY <1>1, <1>2 DEF TaskOK
    <3>2. old = [state |-> old.state, up |-> old.up, off |-> old.off, count |-> old.count]
      BY <1>1 DEF TaskOK
    <3>3. QED
      BY <1>2, <3>1, <3>2
  <2>2. PICK x, y : old = [state |-> "called", up |-> x, off |-> y, count |-> 0]
                    /\ x = old.up /\ y = old.off
    BY <2>1
  <2> HIDE DEF old
  <2>3. [old EXCEPT !.state = "forked"] = [state |-> "forked", up |-> x, off |-> y, count |-> 0]
    BY <2>2
  <2>4. QED
    BY <1>7, <2>2, <2>3
<1>9. /\ task'[l].state = "called" /\ task'[l].up = t /\ task'[l].off = 0 /\ task'[l].count = 0
      /\ task'[r].state = "called" /\ task'[r].up = t /\ task'[r].off = left_slots(t)
      /\ task'[r].count = 0
      /\ task'[l] = [state |-> "called", up |-> t, off |-> 0, count |-> 0]
      /\ task'[r] = [state |-> "called", up |-> t, off |-> left_slots(t), count |-> 0]
  BY <1>7 DEF Call
<1>10. /\ \A k, m : CountOK(k, m)' <=> CountOK(k, m)
       /\ \A v : left_slots(v)' = left_slots(v) /\ left_call(v)' = left_call(v)
                 /\ right_call(v)' = right_call(v)
       /\ DegreeOK'
  BY <1>1, <1>2, SameMachine
<1>11. \A v \in DOMAIN task : /\ task'[v].up = task[v].up /\ task'[v].off = task[v].off
                              /\ v # t => task'[v] = task[v]
  BY <1>7, <1>8
<1>12. ASSUME NEW v \in DOMAIN task
       PROVE  Placed(v)'
  <2>1. Placed(v) /\ task'[v].up = task[v].up /\ task'[v].off = task[v].off
    BY <1>1, <1>11
  <2>2. QED
    BY <1>2, <1>6, <1>10, <2>1 DEF Placed
<1>13. Placed(l)' /\ Placed(r)'
  BY <1>4, <1>6, <1>9, <1>10 DEF Placed, l, r
<1>14. ASSUME NEW v \in DOMAIN task, v # t
       PROVE  TaskOK(v)'
  <2>1. task'[v] = task[v] /\ TaskOK(v) /\ Placed(v)'
    BY <1>1, <1>11, <1>12, <1>14
  <2>2. v \in DOMAIN array' <=> v \in DOMAIN array
    BY <1>6, <1>14
  <2>3. ASSUME task[v].state = "returned"
        PROVE  Valued(v)'
    <3>1. Valued(v) /\ task[v].up \in DOMAIN array
      BY <1>1, <2>1, <2>3 DEF TaskOK
    <3>2. array'[task'[v].up] = array[task[v].up]
      BY <1>6, <2>1, <3>1
    <3>3. PICK c : c = task[v].count
      OBVIOUS
    <3>4. CountOK(v[2], c)'
      BY <1>10, <3>1, <3>3 DEF Valued
    <3>5. CountOK(v[2], task[v].count)'
      BY <2>1, <3>3, <3>4 DEF CountOK
    <3>6. Condensed(array'[task'[v].up], task'[v].off + 1, task'[v].count)
            = SubtreeCV(key, flags, v[1], v[2])
      BY <2>1, <3>1, <3>2 DEF Valued
    <3>7. QED
      BY <3>5, <3>6 DEF Valued, Condensed
  <2>4. QED
    BY <2>1, <2>2, <2>3 DEF TaskOK
<1>15. TaskOK(t)'
  <2> DEFINE w == task'[t]
  <2>1. w = [state |-> "forked", up |-> old.up, off |-> old.off, count |-> 0]
    BY <1>8
  <2> HIDE DEF w, old
  <2>2. w.state = "forked" /\ w.count = 0
        /\ w = [state |-> w.state, up |-> w.up, off |-> w.off, count |-> w.count]
    BY <2>1
  <2>3. t = <<t[1], t[2]>> /\ t[1] \in Nat /\ t[2] \in Nat \ {0} /\ Placed(t)'
        /\ t \in DOMAIN array'
    BY <1>1, <1>6, <1>12
  <2>4. QED
    BY <2>2, <2>3 DEF TaskOK, w
<1>16. ASSUME NEW s \in {l, r}
       PROVE  TaskOK(s)'
  <2>1. s = <<s[1], s[2]>> /\ s[1] \in Nat /\ s[2] \in Nat \ {0} /\ Placed(s)'
    BY <1>5, <1>13
  <2>2. s \notin DOMAIN array'
    BY <1>4, <1>5, <1>6
  <2> DEFINE w == task'[s]
  <2>3. w.state = "called" /\ w.count = 0
        /\ w = [state |-> w.state, up |-> w.up, off |-> w.off, count |-> w.count]
    BY <1>9
  <2> HIDE DEF w
  <2>4. QED
    BY <2>1, <2>2, <2>3 DEF TaskOK, w
<1>17. \A v \in DOMAIN task' : TaskOK(v)'
  BY <1>7, <1>14, <1>15, <1>16
<1>18. OfLength(empty, n)
  <2>1. n \in Nat
    BY <1>1, CapOf, SMT DEF n
  <2>2. empty = [i \in 1 .. n |-> Garbage]
    BY DEF empty, uninitialised
  <2>3. empty = [i \in 1 .. n |-> empty[i]]
    BY <2>2
  <2>4. QED
    BY <2>1, <2>3, RunOfLength
<1>19. ASSUME NEW v \in DOMAIN array \ {Top}
       PROVE  Recursed(v)'
  <2>1. Recursed(v) /\ v \in DOMAIN task /\ v # t
    BY <1>1, <1>3
  <2> DEFINE x == left_call(v)
             y == right_call(v)
  <2>2. /\ x \in DOMAIN task /\ y \in DOMAIN task
        /\ task[x].up = v /\ task[x].off = 0
        /\ task[y].up = v /\ task[y].off = left_slots(v)
        /\ task[v].state # "called" /\ v[2] > degree * ChunkLen
        /\ task[v].state = "returned" => task[x].state = "returned" /\ task[y].state = "returned"
        /\ OfLength(array[v], 2 * max_simd_degree_or_2)
    BY <2>1 DEF Recursed
  <2>3. left_call(v)' = x /\ right_call(v)' = y /\ left_slots(v)' = left_slots(v)
    BY <1>10
  <2> HIDE DEF x, y
  <2>4. /\ task'[x].up = v /\ task'[x].off = 0
        /\ task'[y].up = v /\ task'[y].off = left_slots(v)
        /\ task'[v] = task[v] /\ array'[v] = array[v]
        /\ v \in DOMAIN task' /\ x \in DOMAIN task' /\ y \in DOMAIN task'
    BY <1>6, <1>7, <1>11, <2>1, <2>2
  <2>5. ASSUME task[v].state = "returned"
        PROVE  task'[x].state = "returned" /\ task'[y].state = "returned"
    <3>1. x # t /\ y # t
      BY <1>2, <2>2, <2>5
    <3>2. QED
      BY <1>11, <2>2, <2>5, <3>1
  <2>6. v[2] > degree' * ChunkLen
    BY <1>2, <2>2
  <2>7. QED
    BY <2>2, <2>3, <2>4, <2>5, <2>6 DEF Recursed, OfLength
<1>20. Recursed(t)'
  <2>1. OfLength(array'[t], 2 * max_simd_degree_or_2)
    BY <1>6, <1>18 DEF n
  <2>2. t \in DOMAIN task' /\ l \in DOMAIN task' /\ r \in DOMAIN task' /\ task'[t].state = "forked"
        /\ t[2] > degree' * ChunkLen
    BY <1>2, <1>7, <1>8
  <2>3. left_call(t)' = l /\ right_call(t)' = r /\ left_slots(t)' = left_slots(t)
    BY <1>10 DEF l, r
  <2>4. QED
    BY <1>9, <2>1, <2>2, <2>3 DEF Recursed, OfLength
<1>21. \A v \in DOMAIN array' \ {Top} : Recursed(v)'
  BY <1>6, <1>19, <1>20
<1>22. ASSUME NEW v \in DOMAIN task, NEW w \in DOMAIN task
       PROVE  Nested(v, w)'
  <2>1. Nested(v, w)
    BY <1>1
  <2>2. QED
    BY <1>6, <2>1 DEF Nested, Apart, Inside, From, End
<1>23. ASSUME NEW v \in DOMAIN task, NEW s \in {l, r}
       PROVE  Nested(v, s)' /\ Nested(s, v)'
  <2>1. /\ From(s) \in Nat /\ End(s) \in Nat /\ From(t) <= From(s) /\ End(s) <= End(t)
        /\ From(t) \in Nat /\ End(t) \in Nat /\ From(v) \in Nat /\ End(v) \in Nat
    BY <1>1, <1>4, Extent
  <2>2. /\ Apart(v, t) => Apart(v, s)
        /\ Inside(t, v) => Inside(s, v)
        /\ Inside(s, t)
    BY <2>1, InsideOf
  <2>3. \/ Apart(v, s)
        \/ Inside(s, v) /\ v \in DOMAIN array'
    <3>1. CASE v = t
      BY <1>6, <2>2, <3>1
    <3>2. CASE v # t
      <4>1. Nested(v, t)
        BY <1>1
      <4>2. QED
        BY <1>3, <1>6, <2>2, <3>2, <4>1 DEF Nested
    <3>3. QED
      BY <3>1, <3>2
  <2>4. Apart(v, s) <=> Apart(s, v)
    BY DEF Apart
  <2>5. QED
    BY <2>3, <2>4 DEF Nested, Apart, Inside, From, End
<1>24. Nested(l, r)' /\ Nested(r, l)' /\ Nested(l, l)' /\ Nested(r, r)'
  BY <1>4 DEF Nested, Apart, Inside, From, End
<1>25. \A v, w \in DOMAIN task' : Nested(v, w)'
  BY <1>7, <1>22, <1>23, <1>24
<1>26. PairIsTopOfTree'
  <2>1. PairIsTopOfTree
    BY DEF SubtreeInv
  <2>2. QED
    BY <1>2, <2>1 DEF PairIsTopOfTree
<1>27. OfLength(array'[Top], max_simd_degree_or_2) /\ Top \in DOMAIN array'
  BY <1>1, <1>6 DEF Size
<1>28. task'[<<0, len>>].up = Top /\ task'[<<0, len>>].off = 0
  <2>1. task[<<0, len>>].up = Top /\ task[<<0, len>>].off = 0
    BY InvOf
  <2>2. QED
    BY <1>1, <1>11, <2>1
<1>29. QED
  BY <1>1, <1>2, <1>7, <1>10, <1>17, <1>21, <1>25, <1>26, <1>27, <1>28
     DEF SubtreeInv, OfLength

-----------------------------------------------------------------------------
(* The outermost caller condenses what it got to two values. *)

\* The i-th layer over the values w, when f[i - 1] is the one below.
Above(f, i, w) ==
  IF i = 0 THEN w
  ELSE IF Len(f[i - 1]) > 2 THEN compress_parents_parallel(f[i - 1], Len(f[i - 1]))
       ELSE f[i - 1]

Layers(w) == CHOOSE f : f = [i \in 0 .. max_simd_degree_or_2 |-> Above(f, i, w)]

\* Condensing layer by layer is well defined.
LEMMA LayersExist ==
  ASSUME NEW w, NEW m \in Nat
  PROVE  \E f : f = [i \in 0 .. m |-> Above(f, i, w)]
<1> DEFINE P == {p \in Nat : \E f : f = [i \in 0 .. p |-> Above(f, i, w)]}
<1>1. ASSUME NEW p \in Nat, \A k \in 0 .. p - 1 : k \in P
      PROVE  p \in P
  <2>1. \E f : \A i \in 0 .. p - 1 : f[i] = Above(f, i, w)
    <3>1. CASE p = 0
      <4>1. 0 .. p - 1 = {}
        BY <3>1, SMT
      <4>2. QED
        BY <4>1
    <3>2. CASE p # 0
      <4>1. p - 1 \in 0 .. p - 1
        BY <3>2, SMT
      <4>2. PICK f : f = [i \in 0 .. p - 1 |-> Above(f, i, w)]
        BY <1>1, <4>1
      <4>3. ASSUME NEW i \in 0 .. p - 1
            PROVE  f[i] = Above(f, i, w)
        BY <4>2
      <4>4. QED
        BY <4>3
    <3>3. QED
      BY <3>1, <3>2
  <2>2. PICK f : \A i \in 0 .. p - 1 : f[i] = Above(f, i, w)
    BY <2>1
  <2> DEFINE g == [i \in 0 .. p |-> Above(f, i, w)]
  <2>3. ASSUME NEW i \in 0 .. p
        PROVE  Above(g, i, w) = Above(f, i, w)
    <3>1. CASE i = 0
      BY <3>1 DEF Above
    <3>2. CASE i # 0
      <4>1. i - 1 \in 0 .. p - 1 /\ i - 1 \in 0 .. p
        BY <3>2, SMT
      <4>2. g[i - 1] = f[i - 1]
        BY <2>2, <4>1
      <4> HIDE DEF g
      <4>3. QED
        BY <4>2 DEF Above
    <3>3. QED
      BY <3>1, <3>2
  <2>4. g = [i \in 0 .. p |-> Above(g, i, w)]
    <3> DEFINE u(i) == Above(g, i, w)
               v(i) == Above(f, i, w)
    <3>1. \A i \in 0 .. p : u(i) = v(i)
      BY <2>3
    <3>2. g = [i \in 0 .. p |-> v(i)]
      OBVIOUS
    <3> HIDE DEF u, v, g
    <3>3. g = [i \in 0 .. p |-> u(i)]
      BY <3>1, <3>2
    <3>4. QED
      BY <3>3 DEF u
  <2> HIDE DEF g
  <2>5. QED
    BY <2>4
<1>2. \A p \in Nat : p \in P
  BY <1>1, StrongInduction
<1>3. QED
  BY <1>2

\* Half of more than two, rounded up, is two or more, and less.
LEMMA HalfUp ==
  ASSUME NEW k \in Nat, k > 2
  PROVE  LET h == (k + 1) \div 2
         IN  h \in Nat /\ h >= 2 /\ h + 1 <= k
BY SMT

\* Layer by layer, two values are left, which merge to what all of them do.
LEMMA CondensedToTwo ==
  ASSUME NEW w, NEW m \in Nat, OfLength(w, m), m >= 2, m <= max_simd_degree_or_2,
         max_simd_degree_or_2 \in Nat
  PROVE  LET top == Layers(w)[max_simd_degree_or_2]
         IN  OfLength(top, 2) /\ Condensed(top, 1, 2) = Condensed(w, 1, m)
<1> DEFINE N == max_simd_degree_or_2
           f == Layers(w)
<1>1. f = [i \in 0 .. N |-> Above(f, i, w)]
  <2> DEFINE Is(g) == g = [i \in 0 .. N |-> Above(g, i, w)]
  <2>1. \E g : Is(g)
    BY LayersExist
  <2>2. f = CHOOSE g : Is(g)
    BY DEF Layers
  <2> HIDE DEF Is, f
  <2>3. Is(f)
    BY <2>1, <2>2
  <2>4. QED
    BY <2>3 DEF Is
<1> HIDE DEF f
<1>2. \A i \in 0 .. N : f[i] = Above(f, i, w)
  <2> DEFINE h(i) == Above(f, i, w)
  <2>1. f = [i \in 0 .. N |-> h(i)]
    BY <1>1
  <2> HIDE DEF h
  <2>2. \A i \in 0 .. N : f[i] = h(i)
    BY <2>1
  <2>3. QED
    BY <2>2 DEF h
<1> DEFINE Good(i) == \E k \in Nat : /\ OfLength(f[i], k) /\ k >= 2
                                     /\ k <= 2 \/ k + i <= m
                                     /\ Condensed(f[i], 1, k) = Condensed(w, 1, m)
           P == {i \in Nat : i <= N => Good(i)}
<1>3. ASSUME NEW i \in Nat, \A k \in 0 .. i - 1 : k \in P
      PROVE  i \in P
  <2> SUFFICES ASSUME i <= N
               PROVE  Good(i)
    OBVIOUS
  <2>1. i \in 0 .. N
    BY SMT
  <2>2. CASE i = 0
    <3>1. f[i] = w
      BY <1>2, <2>1, <2>2 DEF Above
    <3>2. m <= 2 \/ m + i <= m
      BY <2>2, SMT
    <3>3. QED
      BY <3>1, <3>2
  <2>3. CASE i # 0
    <3>1. i - 1 \in 0 .. i - 1 /\ i - 1 <= N /\ i - 1 \in Nat
      BY <2>1, <2>3, SMT
    <3>2. Good(i - 1)
      BY <1>3, <3>1
    <3> DEFINE s == f[i - 1]
               j == i - 1
    <3>3. PICK k \in Nat : /\ OfLength(s, k) /\ k >= 2 /\ (k <= 2 \/ k + j <= m)
                           /\ Condensed(s, 1, k) = Condensed(w, 1, m)
      BY <3>2
    <3>4. Len(s) = k
      BY <3>3 DEF OfLength
    <3>5. f[i] = IF k > 2 THEN compress_parents_parallel(s, k) ELSE s
      BY <1>2, <2>1, <2>3, <3>4 DEF Above
    <3> HIDE DEF s
    <3>6. CASE k > 2
      <4> DEFINE h == (k + 1) \div 2
                 v == compress_parents_parallel(s, k)
      <4>1. f[i] = v
        BY <3>5, <3>6
      <4>2. OfLength(v, h)
        BY ParentsOfLength
      <4>3. Condensed(v, 1, h) = Condensed(s, 1, k)
        <5>1. k > 0
          BY <3>6, SMT
        <5>2. QED
          BY <5>1, CondensedLayer
      <4>4. h \in Nat /\ h >= 2 /\ h + 1 <= k
        BY <3>6, HalfUp
      <4> HIDE DEF h, v
      <4>5. h <= 2 \/ h + i <= m
        BY <3>1, <3>3, <3>6, <4>4, SMT
      <4>6. Condensed(f[i], 1, h) = Condensed(w, 1, m) /\ OfLength(f[i], h)
        BY <3>3, <4>1, <4>2, <4>3
      <4>7. QED
        BY <4>4, <4>5, <4>6
    <3>7. CASE ~ (k > 2)
      <4>1. k <= 2 /\ f[i] = s
        BY <3>5, <3>7, SMT
      <4>2. QED
        BY <3>3, <4>1
    <3>8. QED
      BY <3>6, <3>7
  <2>4. QED
    BY <2>2, <2>3
<1> HIDE DEF P
<1>4. \A i \in Nat : i \in P
  BY <1>3, StrongInduction
<1>5. N \in Nat /\ N <= N
  BY SMT
<1>6. Good(N)
  BY <1>4, <1>5 DEF P
<1>7. PICK k \in Nat : /\ OfLength(f[N], k) /\ k >= 2 /\ (k <= 2 \/ k + N <= m)
                       /\ Condensed(f[N], 1, k) = Condensed(w, 1, m)
  BY <1>6
<1>8. k = 2
  <2> HIDE DEF N
  <2>1. N \in Nat /\ m <= N
    BY DEF N
  <2>2. QED
    BY <1>7, <2>1, SMT
<1>9. QED
  BY <1>7, <1>8 DEF f

\* The parent of two chaining values tells them apart from any others.
LEMMA ParentTells ==
  ASSUME NEW a, NEW b, NEW c, NEW d, parent_cv(a, b) = parent_cv(c, d)
  PROVE  a = c /\ b = d
<1> DEFINE o(x, y) == parent_output(x, y, key, flags)
<1>1. \A x, y : o(x, y).block.left = x /\ o(x, y).block.right = y
  BY DEF parent_output, make_output
<1>2. \A x, y : parent_cv(x, y) = <<"cv", o(x, y)>>
  BY DEF parent_cv, output_chaining_value
<1> HIDE DEF o
<1>3. \A x, y : parent_cv(x, y)[2] = o(x, y)
  BY <1>2
<1>4. o(a, b) = o(c, d)
  BY <1>3
<1>5. QED
  BY <1>1, <1>4

\* Two values merge to their parent.
LEMMA CondensedPair ==
  ASSUME NEW a
  PROVE  Condensed(a, 1, 2) = parent_cv(a[1], a[2])
<1> DEFINE one == 1
<1>1. PowerOfTwo(one) /\ one \in 1 .. one /\ one \in Nat /\ one <= 1 /\ one + 1 \in Nat
  BY DoubledPower, SMT
<1> HIDE DEF one
<1>2. Condensed(a, 1, one + one) = parent_cv(Condensed(a, 1, one), Condensed(a, one + 1, one))
  BY <1>1, CondensedSides
<1>3. \A i \in Nat : Condensed(a, i, one) = a[i]
  BY <1>1, CondensedRecursion
<1>4. one + one = 2 /\ one + 1 = 2 /\ 1 \in Nat /\ 2 \in Nat
  BY SMT DEF one
<1>5. QED
  BY <1>2, <1>3, <1>4

\* What the outermost call has returned.
LEMMA RootReturned ==
  ASSUME SubtreeInv, task[<<0, len>>].state = "returned"
  PROVE  LET m == task[<<0, len>>].count
         IN  /\ m \in Nat /\ m >= 2 /\ m <= max_simd_degree_or_2
             /\ Condensed(array[Top], 1, m) = SubtreeCV(key, flags, 0, len)
<1> DEFINE t == <<0, len>>
           m == task[t].count
<1>1. DegreeOK /\ len \in Nat /\ len > ChunkLen /\ t \in DOMAIN task /\ task[t].up = Top
      /\ task[t].off = 0 /\ TaskOK(t) /\ t[1] = 0 /\ t[2] = len
  BY InvOf
<1>2. Valued(t)
  BY <1>1 DEF TaskOK
<1>3. CountOK(len, m) /\ Condensed(array[Top], 0 + 1, m) = SubtreeCV(key, flags, 0, len)
  BY <1>1, <1>2 DEF Valued
<1>4. m \in 1 .. Cap /\ (m = 1 <=> len <= ChunkLen)
  BY <1>3 DEF CountOK
<1>5. Cap \in Nat /\ Cap <= max_simd_degree_or_2 /\ max_simd_degree_or_2 \in Nat
  BY <1>1, CapOf
<1> HIDE DEF m
<1>6. ~ (len <= ChunkLen)
  BY <1>1, HashTreeAssumption, SMT
<1>7. m \in Nat /\ m >= 2 /\ m <= max_simd_degree_or_2 /\ 0 + 1 = 1
  BY <1>4, <1>5, <1>6, SMT
<1>8. QED
  BY <1>3, <1>7 DEF m

\* Condensing gives the values below the top of the tree.
LEMMA CondenseStep ==
  ASSUME SubtreeInv, Condense
  PROVE  SubtreeInv'
<1> DEFINE m == task[<<0, len>>].count
           w == SubSeq(array[Top], 1, m)
           N == max_simd_degree_or_2
           l == left_subtree_len(len)
           x == SubtreeCV(key, flags, 0, l)
           y == SubtreeCV(key, flags, l \div ChunkLen, len - l)
<1>1. /\ task[<<0, len>>].state = "returned" /\ pair' = Layers(w)[N]
      /\ len' = len /\ degree' = degree /\ task' = task /\ array' = array
  BY DEF Condense, Layers, Above
<1>2. /\ m \in Nat /\ m >= 2 /\ m <= N
      /\ Condensed(array[Top], 1, m) = SubtreeCV(key, flags, 0, len)
  BY <1>1, RootReturned
<1>3. OfLength(array[Top], N) /\ len \in Nat /\ len > ChunkLen /\ N \in Nat
  <2>1. OfLength(array[Top], N) /\ len \in Nat /\ len > ChunkLen
    BY DEF SubtreeInv
  <2>2. QED
    BY <2>1 DEF OfLength
<1> HIDE DEF m, N
<1>4. OfLength(w, m) /\ \A i \in 1 .. m : w[i] = array[Top][i]
  <2>1. m \in 1 .. N
    BY <1>2, <1>3, SMT
  <2>2. QED
    BY <1>3, <2>1, FirstValues
<1> HIDE DEF w
<1>5. Condensed(w, 1, m) = Condensed(array[Top], 1, m)
  <2> DEFINE one == 1
             a == array[Top]
  <2>1. m > 0 /\ one \in Nat /\ \A i \in 0 .. m - 1 : one + i \in 1 .. m
    BY <1>2, SMT
  <2> HIDE DEF one, a
  <2>2. SameRun(w, one, a, one, m)
    BY <1>4, <2>1 DEF SameRun, a
  <2>3. Condensed(w, one, m) = Condensed(a, one, m)
    BY <1>2, <2>1, <2>2, CondensedSame
  <2>4. QED
    BY <2>3 DEF one, a
<1>6. OfLength(pair', 2) /\ Condensed(pair', 1, 2) = SubtreeCV(key, flags, 0, len)
  <2> DEFINE top == Layers(w)[N]
  <2>1. OfLength(top, 2) /\ Condensed(top, 1, 2) = Condensed(w, 1, m)
    BY <1>2, <1>3, <1>4, CondensedToTwo DEF N
  <2> HIDE DEF top
  <2>2. pair' = top
    BY <1>1 DEF top
  <2>3. QED
    BY <1>2, <1>5, <2>1, <2>2
<1>7. SubtreeCV(key, flags, 0, len) = parent_cv(x, y)
  <2> DEFINE k == key
             f == flags
             c == 0
  <2>1. c \in Nat
    OBVIOUS
  <2>2. c + (l \div ChunkLen) = l \div ChunkLen
    <3>1. PICK p : PowerOfTwo(p) /\ l \div ChunkLen = p
      BY <1>3, LeftSides
    <3>2. p \in Nat
      BY <3>1 DEF PowerOfTwo
    <3>3. c + p = p
      BY <3>2, SMT
    <3>4. QED
      BY <3>1, <3>3
  <2> HIDE DEF k, f, c
  <2>3. TreeOutput(k, f, c, len) =
          LET z == left_subtree_len(len)
          IN  parent_output(SubtreeCV(k, f, c, z),
                            SubtreeCV(k, f, c + (z \div ChunkLen), len - z), k, f)
    BY <1>3, <2>1, TreeOutputRecursion
  <2>4. QED
    BY <2>2, <2>3 DEF SubtreeCV, parent_cv, k, f, c
<1> HIDE DEF x, y
<1>8. PICK p : p = pair'
  OBVIOUS
<1>9. p[1] = x /\ p[2] = y
  <2>1. Condensed(p, 1, 2) = parent_cv(p[1], p[2])
    BY CondensedPair
  <2>2. parent_cv(p[1], p[2]) = parent_cv(x, y)
    BY <1>6, <1>7, <1>8, <2>1
  <2>3. QED
    BY <2>2, ParentTells
<1>10. pair' = <<x, y>>
  <2>1. OfLength(p, 2)
    BY <1>6, <1>8
  <2>2. PICK S : p \in Seq(S)
    BY <2>1 DEF OfLength
  <2>3. Len(p) = 2
    BY <2>1 DEF OfLength
  <2>4. p = <<p[1], p[2]>>
    BY <2>2, <2>3, SMT
  <2>5. QED
    BY <1>8, <1>9, <2>4
<1>11. PairIsTopOfTree'
  BY <1>1, <1>10 DEF PairIsTopOfTree, x, y
<1>12. \A n, k : CountOK(n, k)' <=> CountOK(n, k)
  BY <1>1, SameMachine
<1>13. \A v : /\ TaskOK(v)' <=> TaskOK(v)
              /\ Recursed(v)' <=> Recursed(v)
  <2> SUFFICES ASSUME NEW v
               PROVE  (TaskOK(v)' <=> TaskOK(v)) /\ (Recursed(v)' <=> Recursed(v))
    OBVIOUS
  <2>1. Placed(v)' <=> Placed(v)
    BY <1>1 DEF Placed, left_slots, left_call, right_call
  <2>2. Valued(v)' <=> Valued(v)
    BY <1>1 DEF Valued, Condensed, CountOK, Cap
  <2>3. TaskOK(v)' <=> TaskOK(v)
    BY <1>1, <2>1, <2>2 DEF TaskOK
  <2>4. Recursed(v)' <=> Recursed(v)
    BY <1>1 DEF Recursed, left_slots, left_call, right_call
  <2>5. QED
    BY <2>3, <2>4
<1>14. \A v, u : Nested(v, u)' <=> Nested(v, u)
  BY <1>1 DEF Nested
<1>15. DegreeOK' <=> DegreeOK
  BY <1>1, SameMachine
<1>16. QED
  BY <1>1, <1>11, <1>13, <1>14, <1>15 DEF SubtreeInv

-----------------------------------------------------------------------------
(* The theorems. *)

LEMMA SubtreeStep == SubtreeInv /\ [Next]_vars => SubtreeInv'
<1> SUFFICES ASSUME SubtreeInv, [Next]_vars
             PROVE  SubtreeInv'
  OBVIOUS
<1>1. ASSUME NEW t \in DOMAIN task, HashChunks(t)
      PROVE  SubtreeInv'
  BY <1>1, HashChunksStep
<1>2. ASSUME NEW t \in DOMAIN task, Fork(t)
      PROVE  SubtreeInv'
  BY <1>2, ForkStep
<1>3. ASSUME NEW t \in DOMAIN task, Join(t)
      PROVE  SubtreeInv'
  BY <1>3, JoinStep
<1>4. CASE Condense
  BY <1>4, CondenseStep
<1>5. CASE UNCHANGED vars
  <2>1. len' = len /\ degree' = degree /\ task' = task /\ array' = array /\ pair' = pair
    BY <1>5 DEF vars
  <2>2. \A v : TaskOK(v)' <=> TaskOK(v)
    BY <2>1 DEF TaskOK, Placed, Valued, Condensed, CountOK, Cap, left_slots, left_call, right_call
  <2>3. \A v : Recursed(v)' <=> Recursed(v)
    BY <2>1 DEF Recursed, left_slots, left_call, right_call
  <2>4. \A v, u : Nested(v, u)' <=> Nested(v, u)
    BY <2>1 DEF Nested
  <2>5. (DegreeOK' <=> DegreeOK) /\ (PairIsTopOfTree' <=> PairIsTopOfTree)
    BY <2>1 DEF DegreeOK, PairIsTopOfTree
  <2>6. QED
    BY <2>1, <2>2, <2>3, <2>4, <2>5 DEF SubtreeInv
<1>6. QED
  BY <1>1, <1>2, <1>3, <1>4, <1>5 DEF Next

\* Whatever the length of the input and the degree of the machine, and in
\* whatever order the forked calls of blake3_compress_subtree_wide run: no call
\* is made twice, each writes behind the slots of its sibling, and what it has
\* written merges to the chaining value of its own subtree.
THEOREM SubtreeInvariant == Spec => []SubtreeInv
<1>1. QED
  BY SubtreeInit, SubtreeStep, PTL DEF Spec

\* No call of blake3_compress_subtree_wide writes into the slots of the call
\* that may run at the same time, or behind the cv_array of its caller; and the
\* outermost one returns no more values than compress_subtree_to_parent_node
\* asserts.
THEOREM SlotsNeverShared == Spec => []WritesInSlots
<1>1. SubtreeInv => WritesInSlots
  <2> SUFFICES ASSUME SubtreeInv, NEW t \in DOMAIN task
               PROVE  task[t].count <= slots(t)
    BY DEF WritesInSlots
  <2> DEFINE up == task[t].up
             off == task[t].off
             m == task[t].count
  <2>1. /\ DegreeOK /\ TaskOK(t) /\ Placed(t) /\ t[2] \in Nat /\ up \in DOMAIN array
        /\ \A u \in DOMAIN array : OfLength(array[u], Size(u)) /\ Size(u) \in Nat
        /\ \A u \in DOMAIN array \ {Top} : Recursed(u) /\ u \in DOMAIN task
        /\ \A v \in DOMAIN task : v = <<v[1], v[2]>> /\ v[1] \in Nat /\ v[2] \in Nat
    BY InvOf
  <2>2. Len(array[up]) = Size(up) /\ Size(up) \in Nat
    BY <2>1 DEF OfLength
  <2>3. off = 0 \/ off = left_slots(up)
    BY <2>1 DEF Placed
  <2>4. /\ left_slots(up) \in Nat /\ 2 * max_simd_degree_or_2 >= left_slots(up)
        /\ max_simd_degree_or_2 \in Nat
    <3>1. left_slots(up) = 2 \/ left_slots(up) = degree
      BY DEF left_slots
    <3>2. /\ degree \in Nat /\ degree <= Cap /\ Cap \in Nat /\ Cap >= 2
          /\ Cap <= max_simd_degree_or_2 /\ max_simd_degree_or_2 \in Nat
      BY <2>1, CapOf
    <3> HIDE DEF up
    <3>3. QED
      BY <3>1, <3>2, SMT
  <2>5. CASE task[t].state = "returned"
    <3>1. CountOK(t[2], m)
      BY <2>1, <2>5 DEF TaskOK, Valued
    <3>2. m \in Nat /\ off \in Nat /\ off + m <= Size(up)
      BY <3>1, SlotsOf
    <3>3. CASE up # Top /\ t = left_call(up)
      <4>1. Recursed(up) /\ up[2] > degree * ChunkLen /\ up[2] \in Nat
        BY <2>1, <3>3 DEF Recursed
      <4>2. t[2] = left_subtree_len(up[2])
        BY <3>3 DEF left_call
      <4> HIDE DEF up
      <4>3. m = left_slots(up)
        BY <2>1, <3>1, <4>1, <4>2, SidesCount
      <4>4. slots(t) = left_slots(up)
        BY <3>3 DEF slots, up
      <4> HIDE DEF m
      <4>5. QED
        BY <2>4, <4>3, <4>4, SMT DEF m
    <3>4. CASE ~ (up # Top /\ t = left_call(up))
      <4>1. slots(t) = Size(up) - off
        BY <2>2, <3>4 DEF slots
      <4> HIDE DEF m, off, up
      <4>2. m <= Size(up) - off
        BY <2>2, <3>2, SMT
      <4>3. QED
        BY <4>1, <4>2 DEF m
    <3>5. QED
      BY <3>3, <3>4
  <2>6. CASE task[t].state # "returned"
    <3>1. m = 0
      BY <2>1, <2>6 DEF TaskOK
    <3>2. slots(t) = left_slots(up) \/ slots(t) = Size(up) - off
      BY <2>2 DEF slots
    <3>3. off <= Size(up)
      <4>1. CASE up = Top
        <5>1. off = 0
          BY <2>1, <4>1 DEF Placed
        <5> HIDE DEF off, up
        <5>2. QED
          BY <2>2, <5>1, SMT
      <4>2. CASE up # Top
        <5>1. Size(up) = 2 * max_simd_degree_or_2
          BY <4>2 DEF Size
        <5> HIDE DEF off, up
        <5>2. QED
          BY <2>3, <2>4, <5>1, SMT
      <4>3. QED
        BY <4>1, <4>2
    <3>4. off \in Nat
      BY <2>3, <2>4
    <3> HIDE DEF off, up, m
    <3>5. m <= slots(t)
      BY <2>2, <2>4, <3>1, <3>2, <3>3, <3>4, SMT
    <3>6. QED
      BY <3>5 DEF m
  <2>7. QED
    BY <2>5, <2>6
<1>2. QED
  BY <1>1, SubtreeInvariant, PTL

\* A join of blake3_compress_subtree_wide finds the values of its two sides one
\* behind the other: the left side always fills the slots that were left to it.
THEOREM NoGapEver == Spec => []NoGapAtJoin
<1>1. SubtreeInv => NoGapAtJoin
  <2> SUFFICES ASSUME SubtreeInv, NEW t \in DOMAIN task, task[t].state = "returned",
                      t \in DOMAIN array
               PROVE  task[left_call(t)].count = left_slots(t)
    BY DEF NoGapAtJoin
  <2>1. t # Top
    <3>1. t[2] # 0 /\ t = <<t[1], t[2]>>
      BY InvOf
    <3>2. QED
      BY <3>1 DEF Top
  <2>2. task[left_call(t)].state = "returned" /\ task[right_call(t)].state = "returned"
    BY <2>1, InvOf DEF Recursed
  <2>3. QED
    BY <2>1, <2>2, SidesReturned
<1>2. QED
  BY <1>1, SubtreeInvariant, PTL

\* The root is left to the caller of compress_subtree_to_parent_node: two
\* values or more come back for it to condense.
THEOREM RootNeverCompressed == Spec => []RootLeftToCaller
<1>1. SubtreeInv => RootLeftToCaller
  BY RootReturned DEF RootLeftToCaller
<1>2. QED
  BY <1>1, SubtreeInvariant, PTL

\* compress_subtree_to_parent_node returns the two chaining values below the
\* top of the tree, whatever the degree and the order of the calls.
THEOREM PairIsTop == Spec => []PairIsTopOfTree
<1>1. SubtreeInv => PairIsTopOfTree
  BY DEF SubtreeInv
<1>2. QED
  BY <1>1, SubtreeInvariant, PTL

=============================================================================
