---------------------- MODULE ReputationMiningCycleProofs ----------------------
(***************************************************************************)
(* Proofs about ReputationMiningCycle: every hash has one entry, the       *)
(* search between two trees is sound, the honest hash prevails, and the    *)
(* rewards paid are covered by the stakes lost.  First the recursive       *)
(* functions of TreeShape, then one entry and one pair, then who is where  *)
(* in the rounds, then the clocks, and last the rewards.                   *)
(***************************************************************************)
EXTENDS ReputationMiningCycle, SetLemmas, TLAPS

Solves(h, S, B, b, p, c) ==
  \A x \in S : h[x] = IF x \in B THEN b[x] ELSE c[h[p[x]]]

Below(D, rank, n) == {x \in D : rank[x] < n}

\* Two partial solutions of one recursion agree wherever both are defined.
LEMMA SolutionsAgree ==
  ASSUME NEW D, NEW B, NEW b, NEW p, NEW c, NEW rank \in [D -> Nat],
         \A x \in D \ B : p[x] \in D /\ rank[p[x]] < rank[x],
         NEW m \in Nat, NEW n \in Nat,
         NEW g, Solves(g, Below(D, rank, m), B, b, p, c),
         NEW h, Solves(h, Below(D, rank, n), B, b, p, c)
  PROVE  \A x \in D : rank[x] < m /\ rank[x] < n => g[x] = h[x]
<1> DEFINE Bad == {r \in Nat : \E x \in D : rank[x] = r /\ r < m /\ r < n /\ g[x] # h[x]}
<1>1. ASSUME Bad # {} PROVE FALSE
  <2>1. PICK r \in Bad : \A q \in Bad : r <= q
    <3>1. Bad \subseteq Nat OBVIOUS
    <3> HIDE DEF Bad
    <3> QED BY <1>1, <3>1, LeastNatural
  <2>2. PICK x \in D : rank[x] = r /\ r < m /\ r < n /\ g[x] # h[x] BY <2>1
  <2>3. /\ g[x] = IF x \in B THEN b[x] ELSE c[g[p[x]]]
        /\ h[x] = IF x \in B THEN b[x] ELSE c[h[p[x]]]
    BY <2>2 DEF Solves, Below
  <2>4. x \notin B BY <2>2, <2>3
  <2>5. p[x] \in D /\ rank[p[x]] \in Nat /\ rank[p[x]] < r BY <2>2, <2>4
  <2>6. rank[p[x]] \notin Bad BY <2>1, <2>5
  <2>7. rank[p[x]] < m /\ rank[p[x]] < n BY <2>2, <2>5
  <2>8. g[p[x]] = h[p[x]] BY <2>5, <2>6, <2>7
  <2> QED BY <2>2, <2>3, <2>4, <2>8
<1> QED BY <1>1

\* A recursion that goes down in rank has a solution below every rank.
LEMMA Solvable ==
  ASSUME NEW D, NEW B, NEW b, NEW p, NEW c \in [Nat -> Nat], NEW rank \in [D -> Nat],
         \A x \in D \cap B : b[x] \in Nat,
         \A x \in D \ B : p[x] \in D /\ rank[p[x]] < rank[x]
  PROVE  \A n \in Nat : \E h \in [Below(D, rank, n) -> Nat] :
           Solves(h, Below(D, rank, n), B, b, p, c)
<1> USE DEF Below
<1> DEFINE Upto(n) == Below(D, rank, n)
           Bad == {n \in Nat : ~ \E h \in [Upto(n) -> Nat] : Solves(h, Upto(n), B, b, p, c)}
<1>1. ASSUME Bad # {} PROVE FALSE
  <2>1. PICK n \in Bad : \A q \in Bad : n <= q
    <3>1. Bad \subseteq Nat OBVIOUS
    <3> HIDE DEF Bad
    <3> QED BY <1>1, <3>1, LeastNatural
  <2>2. n # 0
    <3> SUFFICES ASSUME n = 0 PROVE FALSE OBVIOUS
    <3> DEFINE none == [x \in Upto(n) |-> 0]
    <3>1. Upto(n) = {} OBVIOUS
    <3>2. none \in [Upto(n) -> Nat] OBVIOUS
    <3>3. Solves(none, Upto(n), B, b, p, c) BY <3>1 DEF Solves
    <3> HIDE DEF none
    <3>4. \E h \in [Upto(n) -> Nat] : Solves(h, Upto(n), B, b, p, c) BY <3>2, <3>3
    <3>5. n \notin Bad BY <3>4
    <3> HIDE DEF Bad
    <3> QED BY <2>1, <3>5
  <2>3. n - 1 \in Nat /\ n - 1 \notin Bad
    <3>1. n \in Nat OBVIOUS
    <3> HIDE DEF Bad
    <3> QED BY <2>1, <2>2, <3>1
  <2>4. PICK h \in [Upto(n - 1) -> Nat] : Solves(h, Upto(n - 1), B, b, p, c) BY <2>3
  <2> DEFINE k == [x \in Upto(n) |-> IF x \in B THEN b[x] ELSE c[h[p[x]]]]
  <2>5. \A x \in Upto(n) \ B : p[x] \in Upto(n - 1) /\ p[x] \in Upto(n) BY <2>1
  <2>6. k \in [Upto(n) -> Nat]
    <3>1. \A x \in Upto(n) : (IF x \in B THEN b[x] ELSE c[h[p[x]]]) \in Nat
      BY <2>4, <2>5
    <3> QED BY <3>1
  <2>7. \A y \in Upto(n - 1) : k[y] = h[y]
    <3>1. Upto(n - 1) \subseteq Upto(n) BY <2>1
    <3> QED BY <2>4, <3>1 DEF Solves
  <2>8. Solves(k, Upto(n), B, b, p, c)
    BY <2>5, <2>7 DEF Solves
  <2> QED BY <2>1, <2>6, <2>8
<1> QED BY <1>1

(* A function defined by a step back: h[x] is b[x] or a function of h at   *)
(* the place p[x], which is of a lower rank.                               *)
LEMMA Recursion ==
  ASSUME NEW D, NEW B, NEW b, NEW p, NEW c \in [Nat -> Nat], NEW rank \in [D -> Nat],
         \A x \in D \cap B : b[x] \in Nat,
         \A x \in D \ B : p[x] \in D /\ rank[p[x]] < rank[x]
  PROVE  \E h \in [D -> Nat] : Solves(h, D, B, b, p, c)
<1> DEFINE Upto(n) == Below(D, rank, n)
           sol(n) == CHOOSE h \in [Upto(n) -> Nat] : Solves(h, Upto(n), B, b, p, c)
           h == [x \in D |-> sol(rank[x] + 1)[x]]
<1>1. \A n \in Nat : sol(n) \in [Upto(n) -> Nat] /\ Solves(sol(n), Upto(n), B, b, p, c)
  <2> TAKE n \in Nat
  <2>1. \E g \in [Upto(n) -> Nat] : Solves(g, Upto(n), B, b, p, c)
    <3>1. \A k \in Nat : \E g \in [Upto(k) -> Nat] : Solves(g, Upto(k), B, b, p, c)
      BY Solvable DEF Upto
    <3> HIDE DEF Upto
    <3> QED BY <3>1
  <2> HIDE DEF Upto
  <2> QED BY <2>1
<1> HIDE DEF sol
<1>2. h \in [D -> Nat]
  <2>1. \A x \in D : x \in Upto(rank[x] + 1) /\ rank[x] + 1 \in Nat BY DEF Below
  <2>2. \A x \in D : sol(rank[x] + 1)[x] \in Nat BY <1>1, <2>1
  <2> QED BY <2>2
<1>3. ASSUME NEW x \in D PROVE h[x] = IF x \in B THEN b[x] ELSE c[h[p[x]]]
  <2> DEFINE g == sol(rank[x] + 1)
  <2>1. rank[x] + 1 \in Nat /\ x \in Upto(rank[x] + 1) BY DEF Below
  <2>2. Solves(g, Upto(rank[x] + 1), B, b, p, c) BY <1>1, <2>1
  <2>3. g[x] = IF x \in B THEN b[x] ELSE c[g[p[x]]] BY <2>1, <2>2 DEF Solves
  <2>4. CASE x \in B BY <2>3, <2>4
  <2>5. CASE x \notin B
    <3> DEFINE y == p[x]
               f == sol(rank[y] + 1)
    <3>1. y \in D /\ rank[y] \in Nat /\ rank[y] < rank[x] BY <2>5
    <3>2. rank[y] + 1 \in Nat /\ y \in Upto(rank[y] + 1) BY <3>1 DEF Below
    <3>3. Solves(f, Upto(rank[y] + 1), B, b, p, c) BY <1>1, <3>2
    <3>4. rank[y] < rank[x] + 1 /\ rank[y] < rank[y] + 1 BY <3>1
    <3> HIDE DEF g, f, y
    <3>5. f[y] = g[y]
      BY <2>1, <2>2, <3>1, <3>2, <3>3, <3>4, SolutionsAgree
    <3>6. h[y] = f[y] BY <3>1 DEF f
    <3> QED BY <2>3, <2>5, <3>5, <3>6 DEF g, y
  <2> QED BY <2>4, <2>5
<1>4. Solves(h, D, B, b, p, c)
  <2> HIDE DEF h
  <2> QED BY <1>3 DEF Solves
<1> QED BY <1>2, <1>4

\* What pow2 returns: powers of two.
LEMMA Pow2Def ==
  /\ pow2[0] = 1
  /\ \A k \in Nat : pow2[k] \in Nat /\ pow2[k + 1] = 2 * pow2[k]
<1> DEFINE b == [k \in Nat |-> 1]
           p == [k \in Nat |-> k - 1]
           c == [v \in Nat |-> 2 * v]
           r == [k \in Nat |-> k]
<1>1. /\ c \in [Nat -> Nat] /\ r \in [Nat -> Nat]
      /\ \A k \in Nat \cap {0} : b[k] \in Nat
      /\ \A k \in Nat \ {0} : p[k] \in Nat /\ r[p[k]] < r[k]
  OBVIOUS
<1>2. PICK h \in [Nat -> Nat] : Solves(h, Nat, {0}, b, p, c)
  <2> HIDE DEF b, p, c, r
  <2> QED BY <1>1, Recursion
<1>3. h = [k \in Nat |-> IF k = 0 THEN 1 ELSE 2 * h[k - 1]]
  <2>1. \A k \in Nat : h[k] = IF k = 0 THEN 1 ELSE 2 * h[k - 1]
    <3> TAKE k \in Nat
    <3>1. h[k] = IF k \in {0} THEN b[k] ELSE c[h[p[k]]] BY <1>2 DEF Solves
    <3>2. b[k] = 1 /\ p[k] = k - 1 OBVIOUS
    <3>3. k # 0 => h[p[k]] \in Nat /\ c[h[p[k]]] = 2 * h[p[k]] BY <1>1, <1>2
    <3> QED BY <3>1, <3>2, <3>3
  <2> QED BY <2>1
<1>4. pow2 = [k \in Nat |-> IF k = 0 THEN 1 ELSE 2 * pow2[k - 1]]
  BY <1>3 DEF pow2
<1>5. \A k \in Nat : pow2[k] = IF k = 0 THEN 1 ELSE 2 * pow2[k - 1] BY <1>4
<1>6. \A k \in Nat : pow2[k] \in Nat
  <2> DEFINE Bad == {k \in Nat : pow2[k] \notin Nat}
  <2>1. ASSUME Bad # {} PROVE FALSE
    <3>1. PICK k \in Bad : \A q \in Bad : k <= q
      <4>1. Bad \subseteq Nat OBVIOUS
      <4> HIDE DEF Bad
      <4> QED BY <2>1, <4>1, LeastNatural
    <3>2. k # 0 BY <1>5, <3>1
    <3>3. k - 1 \in Nat /\ k - 1 \notin Bad BY <3>1, <3>2
    <3>4. pow2[k - 1] \in Nat BY <3>3
    <3> QED BY <1>5, <3>1, <3>2, <3>4
  <2> QED BY <2>1
<1>7. \A k \in Nat : pow2[k + 1] = 2 * pow2[k] BY <1>5
<1> QED BY <1>5, <1>6, <1>7

\* Powers of two grow, and are above their exponent.
LEMMA Pow2Grows == \A k \in Nat : pow2[k] >= k + 1
<1> DEFINE Bad == {k \in Nat : ~(pow2[k] >= k + 1)}
<1>1. ASSUME Bad # {} PROVE FALSE
  <2>1. PICK k \in Bad : \A q \in Bad : k <= q
    <3>1. Bad \subseteq Nat OBVIOUS
    <3> HIDE DEF Bad
    <3> QED BY <1>1, <3>1, LeastNatural
  <2>2. k # 0 BY <2>1, Pow2Def
  <2>3. k - 1 \in Nat /\ k - 1 \notin Bad BY <2>1, <2>2
  <2>4. pow2[k - 1] >= k /\ pow2[k - 1] \in Nat BY <2>3, Pow2Def
  <2>5. pow2[k] = 2 * pow2[k - 1]
    <3>1. pow2[(k - 1) + 1] = 2 * pow2[k - 1] BY <2>3, Pow2Def
    <3> QED BY <2>1, <3>1
  <2>6. k \in Nat /\ ~(pow2[k] >= k + 1) BY <2>1
  <2>7. pow2[k] >= 2 * k /\ k >= 1 BY <2>2, <2>4, <2>5, <2>6
  <2> HIDE DEF Bad
  <2> QED BY <2>6, <2>7, <2>5, <2>4
<1> QED BY <1>1

\* pow2 is strictly increasing.
LEMMA Pow2Monotone == \A j \in Nat, k \in Nat : j < k => pow2[j] < pow2[k]
<1> SUFFICES ASSUME NEW j \in Nat PROVE \A k \in Nat : j < k => pow2[j] < pow2[k]
  OBVIOUS
<1> DEFINE Bad == {k \in Nat : j < k /\ ~(pow2[j] < pow2[k])}
<1>1. ASSUME Bad # {} PROVE FALSE
  <2>1. PICK k \in Bad : \A q \in Bad : k <= q
    <3>1. Bad \subseteq Nat OBVIOUS
    <3> HIDE DEF Bad
    <3> QED BY <1>1, <3>1, LeastNatural
  <2>2. k - 1 \in Nat /\ k - 1 \notin Bad BY <2>1
  <2>3. /\ pow2[k - 1] \in Nat /\ pow2[k - 1] >= k /\ pow2[(k - 1) + 1] = 2 * pow2[k - 1]
        /\ pow2[j] \in Nat
    BY <2>2, Pow2Def, Pow2Grows
  <2>4. pow2[k] = 2 * pow2[k - 1] BY <2>1, <2>3
  <2>5. pow2[j] <= pow2[k - 1] BY <2>1, <2>2, <2>3
  <2> QED BY <2>1, <2>2, <2>3, <2>4, <2>5
<1> QED BY <1>1

\* log2Ceiling(v) finds the least power of two that reaches v.
LEMMA Log2Exists ==
  ASSUME NEW v \in Nat, v >= 1
  PROVE  LET k == log2Ceiling(v)
         IN  k \in 0 .. v /\ pow2[k] >= v /\ \A j \in 0 .. k - 1 : pow2[j] < v
<1> DEFINE Above == {k \in Nat : pow2[k] >= v}
<1>1. v \in Above BY Pow2Grows, Pow2Def
<1>2. PICK k \in Above : \A q \in Above : k <= q
  <2>1. Above \subseteq Nat /\ Above # {} BY <1>1
  <2> HIDE DEF Above
  <2> QED BY <2>1, LeastNatural
<1>3. k \in 0 .. v /\ pow2[k] >= v BY <1>1, <1>2
<1>4. \A j \in 0 .. k - 1 : pow2[j] < v
  <2> TAKE j \in 0 .. k - 1
  <2>1. j \in Nat /\ j \notin Above BY <1>2, <1>3
  <2> QED BY <2>1, Pow2Def
<1> QED BY <1>3, <1>4 DEF log2Ceiling

\* The least power of two that is not below v.
LEMMA Log2 ==
  ASSUME NEW v \in Nat, v >= 1
  PROVE  /\ log2Ceiling(v) \in Nat
         /\ pow2[log2Ceiling(v)] >= v
         /\ log2Ceiling(v) > 0 => pow2[log2Ceiling(v) - 1] < v
         /\ v >= 2 => log2Ceiling(v) > 0
BY Log2Exists, Pow2Def

\* ... and there is only one.
LEMMA Log2Is ==
  ASSUME NEW v \in Nat, v >= 1, NEW k \in Nat, pow2[k] >= v, k > 0 => pow2[k - 1] < v
  PROVE  log2Ceiling(v) = k
<1> DEFINE m == log2Ceiling(v)
<1>1. m \in Nat /\ pow2[m] >= v /\ (m > 0 => pow2[m - 1] < v) BY Log2
<1> HIDE DEF m
<1>2. CASE m < k
  <2>1. k - 1 \in Nat /\ m <= k - 1 BY <1>1, <1>2
  <2>2. pow2[m] <= pow2[k - 1]
    <3>1. pow2[k - 1] \in Nat /\ pow2[m] \in Nat BY <1>1, <2>1, Pow2Def
    <3>2. CASE m = k - 1 BY <3>1, <3>2
    <3>3. CASE m < k - 1 BY <1>1, <2>1, <3>1, <3>3, Pow2Monotone
    <3> QED BY <1>1, <2>1, <3>2, <3>3
  <2> QED BY <1>1, <1>2, <2>1, <2>2, Pow2Def
<1>3. CASE k < m
  <2>1. m - 1 \in Nat /\ k <= m - 1 BY <1>1, <1>3
  <2>2. pow2[k] <= pow2[m - 1]
    <3>1. pow2[m - 1] \in Nat /\ pow2[k] \in Nat BY <2>1, Pow2Def
    <3>2. CASE k = m - 1 BY <3>1, <3>2
    <3>3. CASE k < m - 1 BY <2>1, <3>1, <3>3, Pow2Monotone
    <3> QED BY <2>1, <3>2, <3>3
  <2> QED BY <1>1, <1>3, <2>1, <2>2, Pow2Def
<1> QED BY <1>1, <1>2, <1>3 DEF m

\* A node splits into two parts, the left one no smaller.
LEMMA LeftWidth ==
  ASSUME NEW w \in Nat, w >= 2
  PROVE  /\ leftWidth(w) \in 1 .. w - 1
         /\ w - leftWidth(w) <= leftWidth(w)
         /\ leftWidth(w) = pow2[log2Ceiling(w) - 1]
<1> DEFINE k == log2Ceiling(w)
<1>1. k \in Nat /\ k > 0 /\ pow2[k] >= w /\ pow2[k - 1] < w BY Log2
<1> HIDE DEF k
<1>2. k - 1 \in Nat /\ (k - 1) + 1 = k BY <1>1
<1>3. pow2[k] = 2 * pow2[k - 1] /\ pow2[k - 1] \in Nat BY <1>2, Pow2Def
<1>4. pow2[k] \div 2 = pow2[k - 1] BY <1>3
<1>5. leftWidth(w) = pow2[k - 1] BY <1>4 DEF leftWidth, nextPowerOfTwoInclusive, k
<1> QED BY <1>1, <1>3, <1>5 DEF k

\* proofLayers is the recursion it is written as.
LEMMA ProofLayersDef ==
  ASSUME NEW m \in Nat, NEW i \in Nat
  PROVE  /\ proofLayers[<<m, i>>] \in Nat
         /\ proofLayers[<<m, i>>] =
              IF m # 0 /\ i + 1 > leftWidth(m + 1)
              THEN 1 + proofLayers[<<m - leftWidth(m + 1), i - leftWidth(m + 1)>>]
              ELSE log2Ceiling(m + 1)
<1> DEFINE D == Nat \X Nat
           right(x) == x[1] # 0 /\ x[2] + 1 > leftWidth(x[1] + 1)
           B == {x \in D : ~right(x)}
           b == [x \in D |-> log2Ceiling(x[1] + 1)]
           p == [x \in D |-> <<x[1] - leftWidth(x[1] + 1), x[2] - leftWidth(x[1] + 1)>>]
           c == [v \in Nat |-> 1 + v]
           r == [x \in D |-> x[1]]
<1>1. c \in [Nat -> Nat] /\ r \in [D -> Nat] OBVIOUS
<1>2. ASSUME NEW x \in D PROVE b[x] \in Nat
  <2>1. x[1] \in Nat /\ x[1] + 1 >= 1 /\ x[1] + 1 \in Nat OBVIOUS
  <2>2. log2Ceiling(x[1] + 1) \in Nat BY <2>1, Log2
  <2> QED BY <2>2
<1>3. ASSUME NEW x \in D, right(x) PROVE p[x] \in D /\ r[p[x]] < r[x]
  <2>1. x[1] \in Nat /\ x[2] \in Nat /\ x[1] + 1 >= 2 /\ x[1] + 1 \in Nat BY <1>3
  <2>2. leftWidth(x[1] + 1) \in 1 .. (x[1] + 1) - 1 BY <2>1, LeftWidth
  <2> DEFINE half == leftWidth(x[1] + 1)
  <2>3. half \in Nat /\ half >= 1 /\ half <= x[1] BY <2>1, <2>2
  <2>4. x[2] + 1 > half BY <1>3
  <2>5. p[x] = <<x[1] - half, x[2] - half>> OBVIOUS
  <2> HIDE DEF half, p
  <2>6. x[1] - half \in Nat /\ x[2] - half \in Nat /\ x[1] - half < x[1]
    BY <2>1, <2>3, <2>4
  <2> QED BY <2>5, <2>6
<1>4. PICK h \in [D -> Nat] : Solves(h, D, B, b, p, c)
  <2>1. \A x \in D \cap B : b[x] \in Nat BY <1>2
  <2>2. \A x \in D \ B : p[x] \in D /\ r[p[x]] < r[x] BY <1>3
  <2> HIDE DEF D, B, b, p, c, r
  <2> QED BY <1>1, <2>1, <2>2, Recursion
<1>5. \A x \in D : h[x] = LET half == leftWidth(x[1] + 1)
                          IN  IF x[1] # 0 /\ x[2] + 1 > half
                              THEN 1 + h[<<x[1] - half, x[2] - half>>]
                              ELSE log2Ceiling(x[1] + 1)
  <2> TAKE x \in D
  <2>1. h[x] = IF x \in B THEN b[x] ELSE c[h[p[x]]] BY <1>4 DEF Solves
  <2>2. CASE right(x)
    <3>1. x \notin B BY <2>2
    <3>2. h[p[x]] \in Nat BY <1>3, <1>4, <2>2
    <3>3. c[h[p[x]]] = 1 + h[p[x]] BY <3>2
    <3>4. p[x] = <<x[1] - leftWidth(x[1] + 1), x[2] - leftWidth(x[1] + 1)>> OBVIOUS
    <3> HIDE DEF p, c, b, B
    <3> QED BY <2>1, <2>2, <3>1, <3>3, <3>4
  <2>3. CASE ~right(x)
    <3>1. x \in B BY <2>3
    <3>2. b[x] = log2Ceiling(x[1] + 1) OBVIOUS
    <3> HIDE DEF p, c, b, B
    <3> QED BY <2>1, <2>3, <3>1, <3>2
  <2> QED BY <2>2, <2>3
<1>6. h = [x \in Nat \X Nat |-> LET half == leftWidth(x[1] + 1)
                          IN  IF x[1] # 0 /\ x[2] + 1 > half
                              THEN 1 + h[<<x[1] - half, x[2] - half>>]
                              ELSE log2Ceiling(x[1] + 1)]
  BY <1>5
<1>7. proofLayers = [x \in Nat \X Nat |-> LET half == leftWidth(x[1] + 1)
                          IN  IF x[1] # 0 /\ x[2] + 1 > half
                              THEN 1 + proofLayers[<<x[1] - half, x[2] - half>>]
                              ELSE log2Ceiling(x[1] + 1)]
  BY <1>6 DEF proofLayers
<1>8. \A x \in D : proofLayers[x] = LET half == leftWidth(x[1] + 1)
                          IN  IF x[1] # 0 /\ x[2] + 1 > half
                              THEN 1 + proofLayers[<<x[1] - half, x[2] - half>>]
                              ELSE log2Ceiling(x[1] + 1)
  BY <1>7
<1>9. \A x \in D : proofLayers[x] \in Nat
  <2> DEFINE Bad == {k \in Nat : \E x \in D : x[1] = k /\ proofLayers[x] \notin Nat}
  <2>1. ASSUME Bad # {} PROVE FALSE
    <3>1. PICK k \in Bad : \A q \in Bad : k <= q
      <4>1. Bad \subseteq Nat OBVIOUS
      <4> HIDE DEF Bad
      <4> QED BY <2>1, <4>1, LeastNatural
    <3>2. PICK x \in D : x[1] = k /\ proofLayers[x] \notin Nat BY <3>1
    <3>3. CASE right(x)
      <4>1. p[x] \in D /\ r[p[x]] < r[x] BY <1>3, <3>3
      <4>2. p[x] = <<x[1] - leftWidth(x[1] + 1), x[2] - leftWidth(x[1] + 1)>> OBVIOUS
      <4>3. proofLayers[x] = 1 + proofLayers[p[x]] BY <1>8, <3>3, <4>2
      <4>4. r[p[x]] = p[x][1] /\ r[x] = x[1] /\ p[x][1] \in Nat BY <4>1
      <4> HIDE DEF p, r
      <4>5. p[x][1] \notin Bad
        <5>1. p[x][1] < k /\ k \in Nat BY <3>1, <3>2, <4>1, <4>4
        <5> HIDE DEF Bad
        <5> QED BY <3>1, <4>4, <5>1
      <4>6. proofLayers[p[x]] \in Nat BY <4>1, <4>4, <4>5
      <4> QED BY <3>2, <4>3, <4>6
    <3>4. CASE ~right(x)
      <4>1. proofLayers[x] = log2Ceiling(x[1] + 1) BY <1>8, <3>4
      <4>2. b[x] = log2Ceiling(x[1] + 1) OBVIOUS
      <4> HIDE DEF b
      <4> QED BY <1>2, <3>2, <4>1, <4>2
    <3> QED BY <3>3, <3>4
  <2> QED BY <2>1
<1>10. <<m, i>> \in D /\ <<m, i>>[1] = m /\ <<m, i>>[2] = i OBVIOUS
<1> QED BY <1>8, <1>9, <1>10

\* pathLength is the recursion it is written as,
LEMMA PathLengthDef ==
  ASSUME NEW w \in Nat, NEW i \in Nat
  PROVE  /\ pathLength[<<w, i>>] \in Nat
         /\ w <= 1 => pathLength[<<w, i>>] = 0
         /\ w > 1 /\ i < leftWidth(w)
              => pathLength[<<w, i>>] = 1 + pathLength[<<leftWidth(w), i>>]
         /\ w > 1 /\ i >= leftWidth(w)
              => pathLength[<<w, i>>] = 1 + pathLength[<<w - leftWidth(w), i - leftWidth(w)>>]
<1> DEFINE D == Nat \X Nat
           B == {x \in D : x[1] <= 1}
           b == [x \in D |-> 0]
           half(x) == leftWidth(x[1])
           child(x) == IF x[2] < half(x) THEN <<half(x), x[2]>>
                                         ELSE <<x[1] - half(x), x[2] - half(x)>>
           p == [x \in D |-> child(x)]
           c == [v \in Nat |-> 1 + v]
           r == [x \in D |-> x[1]]
<1>1. c \in [Nat -> Nat] /\ r \in [D -> Nat] OBVIOUS
<1>2. \A x \in D : b[x] \in Nat OBVIOUS
<1>3. ASSUME NEW x \in D, ~(x[1] <= 1) PROVE child(x) \in D /\ child(x)[1] < x[1]
  <2>1. x[1] \in Nat /\ x[2] \in Nat /\ x[1] >= 2 BY <1>3
  <2>2. leftWidth(x[1]) \in 1 .. x[1] - 1 BY <2>1, LeftWidth
  <2>3. half(x) \in Nat /\ half(x) >= 1 /\ half(x) < x[1] BY <2>1, <2>2
  <2> HIDE DEF half
  <2>4. CASE x[2] < half(x) BY <2>1, <2>3, <2>4
  <2>5. CASE ~(x[2] < half(x))
    <3>1. child(x) = <<x[1] - half(x), x[2] - half(x)>> BY <2>5
    <3>2. x[1] - half(x) \in Nat /\ x[2] - half(x) \in Nat /\ x[1] - half(x) < x[1]
      BY <2>1, <2>3, <2>5
    <3> QED BY <3>1, <3>2
  <2> QED BY <2>4, <2>5
<1>4. PICK h \in [D -> Nat] : Solves(h, D, B, b, p, c)
  <2>1. \A x \in D \cap B : b[x] \in Nat BY <1>2
  <2>2. \A x \in D \ B : p[x] \in D /\ r[p[x]] < r[x] BY <1>3
  <2> HIDE DEF D, B, b, p, c, r, child
  <2> QED BY <1>1, <2>1, <2>2, Recursion
<1>5. \A x \in D : h[x] = IF x[1] <= 1 THEN 0 ELSE 1 + h[child(x)]
  <2> TAKE x \in D
  <2>1. h[x] = IF x \in B THEN b[x] ELSE c[h[p[x]]] BY <1>4 DEF Solves
  <2>2. CASE ~(x[1] <= 1)
    <3>1. x \notin B /\ p[x] = child(x) BY <2>2
    <3>2. h[child(x)] \in Nat BY <1>3, <1>4, <2>2
    <3>3. c[h[child(x)]] = 1 + h[child(x)] BY <3>2
    <3> HIDE DEF p, c, b, B, child
    <3> QED BY <2>1, <2>2, <3>1, <3>3
  <2>3. CASE x[1] <= 1
    <3>1. x \in B /\ b[x] = 0 BY <2>3
    <3> HIDE DEF p, c, b, B, child
    <3> QED BY <2>1, <2>3, <3>1
  <2> QED BY <2>2, <2>3
<1>6. h = [x \in Nat \X Nat |-> LET half_1 == leftWidth(x[1])
                          IN  IF x[1] <= 1 THEN 0
                              ELSE 1 + h[IF x[2] < half_1 THEN <<half_1, x[2]>>
                                         ELSE <<x[1] - half_1, x[2] - half_1>>]]
  BY <1>5
<1>7. pathLength = [x \in Nat \X Nat |-> LET half_1 == leftWidth(x[1])
                          IN  IF x[1] <= 1 THEN 0
                              ELSE 1 + pathLength[IF x[2] < half_1 THEN <<half_1, x[2]>>
                                         ELSE <<x[1] - half_1, x[2] - half_1>>]]
  BY <1>6 DEF pathLength
<1>8. \A x \in D : pathLength[x] = IF x[1] <= 1 THEN 0 ELSE 1 + pathLength[child(x)]
  BY <1>7
<1>9. \A x \in D : pathLength[x] \in Nat
  <2> DEFINE Bad == {k \in Nat : \E x \in D : x[1] = k /\ pathLength[x] \notin Nat}
  <2>1. ASSUME Bad # {} PROVE FALSE
    <3>1. PICK k \in Bad : \A q \in Bad : k <= q
      <4>1. Bad \subseteq Nat OBVIOUS
      <4> HIDE DEF Bad
      <4> QED BY <2>1, <4>1, LeastNatural
    <3>2. PICK x \in D : x[1] = k /\ pathLength[x] \notin Nat BY <3>1
    <3>3. CASE ~(x[1] <= 1)
      <4>1. child(x) \in D /\ child(x)[1] < x[1] BY <1>3, <3>3
      <4>2. pathLength[x] = 1 + pathLength[child(x)] BY <1>8, <3>3
      <4> HIDE DEF child
      <4>3. child(x)[1] \in Nat BY <4>1
      <4>4. child(x)[1] \notin Bad
        <5>1. child(x)[1] < k /\ k \in Nat BY <3>1, <3>2, <4>1
        <5> HIDE DEF Bad
        <5> QED BY <3>1, <4>3, <5>1
      <4>5. pathLength[child(x)] \in Nat BY <4>1, <4>3, <4>4
      <4> QED BY <3>2, <4>2, <4>5
    <3>4. CASE x[1] <= 1
      <4>1. pathLength[x] = IF x[1] <= 1 THEN 0 ELSE 1 + pathLength[child(x)] BY <1>8
      <4> HIDE DEF child
      <4> QED BY <3>2, <3>4, <4>1
    <3> QED BY <3>3, <3>4
  <2> QED BY <2>1
<1>10. <<w, i>> \in D /\ <<w, i>>[1] = w /\ <<w, i>>[2] = i OBVIOUS
<1>11. /\ w > 1 /\ i < leftWidth(w) => child(<<w, i>>) = <<leftWidth(w), i>>
       /\ w > 1 /\ i >= leftWidth(w) => child(<<w, i>>) = <<w - leftWidth(w), i - leftWidth(w)>>
  <2>1. w > 1 => leftWidth(w) \in 1 .. w - 1 BY LeftWidth
  <2> QED BY <1>10, <2>1
<1>12. pathLength[<<w, i>>] = IF w <= 1 THEN 0 ELSE 1 + pathLength[child(<<w, i>>)]
  BY <1>8, <1>10
<1> HIDE DEF child
<1> QED BY <1>9, <1>10, <1>11, <1>12

\* whose step goes to the left child,
LEMMA PathLeft ==
  ASSUME NEW w \in Nat, NEW i \in Nat, w > 1, i < leftWidth(w)
  PROVE  pathLength[<<w, i>>] = 1 + pathLength[<<leftWidth(w), i>>]
BY PathLengthDef

\* or to the right one,
LEMMA PathRight ==
  ASSUME NEW w \in Nat, NEW i \in Nat, w > 1, i >= leftWidth(w)
  PROVE  pathLength[<<w, i>>] = 1 + pathLength[<<w - leftWidth(w), i - leftWidth(w)>>]
BY PathLengthDef

\* and ends at a leaf.
LEMMA PathZero ==
  ASSUME NEW w \in Nat, NEW i \in Nat, w <= 1
  PROVE  pathLength[<<w, i>>] = 0
BY PathLengthDef

\* The left child of a node is a full tree.
LEMMA FullTree ==
  \A k \in Nat : \A i \in 0 .. pow2[k] - 1 : pathLength[<<pow2[k], i>>] = k
<1> DEFINE Bad == {k \in Nat : \E i \in 0 .. pow2[k] - 1 : pathLength[<<pow2[k], i>>] # k}
<1>1. ASSUME Bad # {} PROVE FALSE
  <2>1. PICK k \in Bad : \A q \in Bad : k <= q
    <3>1. Bad \subseteq Nat OBVIOUS
    <3> HIDE DEF Bad
    <3> QED BY <1>1, <3>1, LeastNatural
  <2>2. k \in Nat /\ pow2[k] \in Nat BY <2>1, Pow2Def
  <2>3. PICK i \in 0 .. pow2[k] - 1 : pathLength[<<pow2[k], i>>] # k BY <2>1
  <2>21. k # 0 /\ k - 1 \notin Bad
           => \A j \in 0 .. pow2[k - 1] - 1 : pathLength[<<pow2[k - 1], j>>] = k - 1
    <3>1. k # 0 => k - 1 \in Nat
      <4> HIDE DEF Bad
      <4> QED BY <2>2
    <3>2. \A q \in Nat : q \notin Bad
            => \A j \in 0 .. pow2[q] - 1 : pathLength[<<pow2[q], j>>] = q
      OBVIOUS
    <3> HIDE DEF Bad
    <3> QED BY <3>1, <3>2
  <2> HIDE DEF Bad
  <2>4. i \in Nat /\ i < pow2[k] BY <2>2, <2>3
  <2>5. CASE k = 0
    <3>1. pow2[0] = 1 /\ 1 \in Nat BY Pow2Def
    <3> QED BY <2>3, <2>4, <2>5, <3>1, PathZero
  <2>6. CASE k # 0
    <3> DEFINE w == pow2[k]
               half == pow2[k - 1]
    <3>1. k - 1 \in Nat /\ (k - 1) + 1 = k BY <2>2, <2>6
    <3>2. half \in Nat /\ half >= k /\ w = 2 * half /\ w \in Nat
      BY <3>1, <2>2, Pow2Def, Pow2Grows
    <3>3. log2Ceiling(w) = k
      <4>1. w >= 1 /\ pow2[k] >= w /\ (k > 0 => pow2[k - 1] < w) BY <2>2, <2>6, <3>2
      <4> HIDE DEF w
      <4> QED BY <2>2, <3>2, <4>1, Log2Is
    <3>4. w >= 2 BY <2>2, <2>6, <3>2
    <3>5. leftWidth(w) = half
      <4> HIDE DEF w
      <4> QED BY <3>2, <3>3, <3>4, LeftWidth
    <3>6. k - 1 \notin Bad
      <4>1. ~(k <= k - 1) BY <2>2
      <4> HIDE DEF Bad
      <4> QED BY <2>1, <4>1
    <3>7. \A j \in 0 .. half - 1 : pathLength[<<half, j>>] = k - 1 BY <2>6, <2>21, <3>6
    <3> HIDE DEF w, half
    <3>8. CASE i < half
      <4>1. pathLength[<<half, i>>] = k - 1 BY <2>4, <3>2, <3>7, <3>8
      <4>2. pathLength[<<w, i>>] = 1 + pathLength[<<half, i>>]
        BY <2>4, <3>2, <3>4, <3>5, <3>8, PathLeft
      <4> QED BY <2>2, <2>3, <4>1, <4>2 DEF w
    <3>9. CASE i >= half
      <4>1. i - half \in 0 .. half - 1 /\ w - half = half BY <2>4, <3>2, <3>9 DEF w
      <4>2. pathLength[<<half, i - half>>] = k - 1 BY <3>7, <4>1
      <4>3. pathLength[<<w, i>>] = 1 + pathLength[<<half, i - half>>]
        BY <2>4, <3>2, <3>4, <3>5, <3>9, <4>1, PathRight
      <4> QED BY <2>2, <2>3, <4>2, <4>3 DEF w
    <3> QED BY <2>4, <3>2, <3>8, <3>9
  <2> QED BY <2>5, <2>6
<1> QED BY <1>1

\* What the contract expects of a proof is what the tree has.
LEMMA ProofLengthIsDepth ==
  \A n \in Nat : n >= 1 =>
     \A i \in 0 .. n - 1 : proofLayers[<<n - 1, i>>] = pathLength[<<n, i>>]
<1> DEFINE Bad == {n \in Nat : n >= 1 /\
                     \E i \in 0 .. n - 1 : proofLayers[<<n - 1, i>>] # pathLength[<<n, i>>]}
<1>1. ASSUME Bad # {} PROVE FALSE
  <2>1. PICK n \in Bad : \A q \in Bad : n <= q
    <3>1. Bad \subseteq Nat OBVIOUS
    <3> HIDE DEF Bad
    <3> QED BY <1>1, <3>1, LeastNatural
  <2>2. n \in Nat /\ n >= 1 /\ n - 1 \in Nat /\ (n - 1) + 1 = n BY <2>1
  <2>3. PICK i \in 0 .. n - 1 : proofLayers[<<n - 1, i>>] # pathLength[<<n, i>>] BY <2>1
  <2>4. i \in Nat /\ i < n BY <2>2, <2>3
  <2> DEFINE half == leftWidth(n)
  <2>5. n >= 2 => half \in 1 .. n - 1 /\ half = pow2[log2Ceiling(n) - 1]
    BY <2>2, LeftWidth
  <2>6. proofLayers[<<n - 1, i>>] = IF n - 1 # 0 /\ i + 1 > half
                                    THEN 1 + proofLayers[<<(n - 1) - half, i - half>>]
                                    ELSE log2Ceiling(n)
    BY <2>2, <2>4, ProofLayersDef
  <2>7. CASE n = 1
    <3>1. log2Ceiling(1) = 0
      <4>1. pow2[0] >= 1 /\ 1 \in Nat /\ 0 \in Nat BY Pow2Def
      <4> QED BY <4>1, Log2Is
    <3>2. pathLength[<<n, i>>] = 0 BY <2>2, <2>4, <2>7, PathZero
    <3> HIDE DEF half
    <3> QED BY <2>3, <2>6, <2>7, <3>1, <3>2
  <2>8. CASE n >= 2 /\ i >= half
    <3> DEFINE m == n - half
    <3>1. half \in Nat /\ half >= 1 /\ half < n BY <2>2, <2>5, <2>8
    <3>2. m \in Nat /\ m >= 1 /\ m < n /\ i - half \in 0 .. m - 1
          /\ (n - 1) - half = m - 1
      <4> HIDE DEF half
      <4> QED BY <2>2, <2>4, <2>8, <3>1
    <3> HIDE DEF half
    <3>3. m \notin Bad
      <4>1. ~(n <= m) BY <2>2, <3>2
      <4> HIDE DEF Bad, m
      <4> QED BY <2>1, <4>1
    <3>4. proofLayers[<<m - 1, i - half>>] = pathLength[<<m, i - half>>]
      <4> HIDE DEF m
      <4> QED BY <3>2, <3>3
    <3>5. pathLength[<<n, i>>] = 1 + pathLength[<<m, i - half>>]
      BY <2>2, <2>4, <2>8, PathRight DEF half, m
    <3>6. proofLayers[<<n - 1, i>>] = 1 + proofLayers[<<m - 1, i - half>>]
      <4>1. n - 1 # 0 /\ i + 1 > half BY <2>4, <2>8, <3>1
      <4> QED BY <2>6, <3>2, <4>1
    <3> QED BY <2>3, <3>4, <3>5, <3>6
  <2>9. CASE n >= 2 /\ i < half
    <3> DEFINE k == log2Ceiling(n)
    <3>1. k \in Nat /\ k > 0 BY <2>2, <2>9, Log2
    <3>2. half = pow2[k - 1] /\ half \in Nat /\ half < n /\ half >= 1 BY <2>2, <2>5, <2>9
    <3> HIDE DEF half, k
    <3>3. proofLayers[<<n - 1, i>>] = k
      <4>1. ~(i + 1 > half) BY <2>4, <2>9, <3>2
      <4> QED BY <2>6, <4>1 DEF k
    <3>4. pathLength[<<half, i>>] = k - 1
      <4>1. k - 1 \in Nat /\ i \in 0 .. pow2[k - 1] - 1 BY <2>4, <2>9, <3>1, <3>2
      <4> QED BY <3>2, <4>1, FullTree
    <3>5. pathLength[<<n, i>>] = 1 + pathLength[<<half, i>>]
      BY <2>2, <2>4, <2>9, PathLeft DEF half
    <3> QED BY <2>3, <3>1, <3>3, <3>4, <3>5
  <2>10. n = 1 \/ (n >= 2 /\ i >= half) \/ (n >= 2 /\ i < half)
    <3>1. n >= 2 => half \in Nat BY <2>5
    <3> HIDE DEF half
    <3> QED BY <2>2, <2>4, <3>1
  <2> HIDE DEF half
  <2> QED BY <2>7, <2>8, <2>9, <2>10
<1> QED BY <1>1

\* No proof is longer than that of a full tree.
LEMMA ProofLengthBound ==
  \A n \in Nat : n >= 1 =>
     \A i \in 0 .. n - 1 : pathLength[<<n, i>>] <= log2Ceiling(n)
<1> DEFINE Bad == {n \in Nat : n >= 1 /\
                     \E i \in 0 .. n - 1 : ~(pathLength[<<n, i>>] <= log2Ceiling(n))}
<1>1. ASSUME Bad # {} PROVE FALSE
  <2>1. PICK n \in Bad : \A q \in Bad : n <= q
    <3>1. Bad \subseteq Nat OBVIOUS
    <3> HIDE DEF Bad
    <3> QED BY <1>1, <3>1, LeastNatural
  <2>2. n \in Nat /\ n >= 1 BY <2>1
  <2>3. PICK i \in 0 .. n - 1 : ~(pathLength[<<n, i>>] <= log2Ceiling(n)) BY <2>1
  <2>4. i \in Nat /\ i < n BY <2>2, <2>3
  <2> DEFINE half == leftWidth(n)
             k == log2Ceiling(n)
  <2>5. k \in Nat /\ (n >= 2 => k > 0) /\ pow2[k] >= n BY <2>2, Log2
  <2>6. n >= 2 => half \in 1 .. n - 1 /\ half = pow2[k - 1] /\ n - half <= half
    BY <2>2, LeftWidth
  <2>7. CASE n = 1
    <3>1. pathLength[<<n, i>>] = 0 BY <2>2, <2>4, <2>7, PathZero
    <3> QED BY <2>3, <2>5, <3>1
  <2>8. CASE n >= 2
    <3>1. half \in Nat /\ half >= 1 /\ half < n /\ half = pow2[k - 1] /\ n - half <= half
          /\ k - 1 \in Nat
      BY <2>2, <2>5, <2>6, <2>8
    <3>2. ASSUME i < half PROVE FALSE
      <4>1. pathLength[<<n, i>>] = 1 + pathLength[<<half, i>>]
        BY <2>2, <2>4, <2>8, <3>2, PathLeft
      <4> HIDE DEF half, k
      <4>2. pathLength[<<half, i>>] = k - 1
        <5>1. i \in 0 .. pow2[k - 1] - 1 BY <2>4, <3>1, <3>2
        <5> QED BY <3>1, <5>1, FullTree
      <4> QED BY <2>3, <2>5, <4>1, <4>2 DEF k
    <3>3. ASSUME i >= half PROVE FALSE
      <4> DEFINE m == n - half
                 j == i - half
      <4>1. pathLength[<<n, i>>] = 1 + pathLength[<<m, j>>]
        BY <2>2, <2>4, <2>8, <3>3, PathRight
      <4>2. m \in Nat /\ m >= 1 /\ m < n /\ j \in 0 .. m - 1 /\ m <= pow2[k - 1]
        <5> HIDE DEF half, k
        <5> QED BY <2>2, <2>4, <3>1, <3>3
      <4>3. m \notin Bad
        <5>1. ~(n <= m) BY <2>2, <4>2
        <5> HIDE DEF Bad, m
        <5> QED BY <2>1, <5>1
      <4> HIDE DEF m, j, half, k
      <4>4. pathLength[<<m, j>>] <= log2Ceiling(m) BY <4>2, <4>3
      <4> DEFINE q == log2Ceiling(m)
      <4>5. q \in Nat /\ (q > 0 => pow2[q - 1] < m) BY <4>2, Log2
      <4> HIDE DEF q
      <4>6. q <= k - 1
        <5> SUFFICES ASSUME q > k - 1 PROVE FALSE BY <3>1, <4>5
        <5>1. q - 1 \in Nat /\ k - 1 <= q - 1 BY <3>1, <4>5
        <5>2. pow2[q - 1] < m BY <4>5, <5>1
        <5>3. pow2[q - 1] \in Nat /\ pow2[k - 1] \in Nat BY <3>1, <5>1, Pow2Def
        <5>4. pow2[k - 1] <= pow2[q - 1]
          <6>1. CASE k - 1 = q - 1 BY <5>3, <6>1
          <6>2. CASE k - 1 < q - 1 BY <3>1, <5>1, <5>3, <6>2, Pow2Monotone
          <6> QED BY <3>1, <5>1, <6>1, <6>2
        <5> QED BY <4>2, <5>2, <5>3, <5>4
      <4>7. m \in Nat /\ j \in Nat BY <4>2
      <4>8. pathLength[<<m, j>>] \in Nat BY <4>7, PathLengthDef
      <4>9. pathLength[<<m, j>>] <= q BY <4>4 DEF q
      <4> QED BY <2>3, <2>5, <4>1, <4>5, <4>6, <4>8, <4>9 DEF k
    <3> HIDE DEF half
    <3> QED BY <2>4, <3>1, <3>2, <3>3
  <2> HIDE DEF half, k
  <2> QED BY <2>2, <2>7, <2>8
<1> QED BY <1>1

\* The challenge of an entry is open at this step, and at no other.
ResultStep(s) == s \in Nat /\ s >= 3 /\ pow2[s - 2] > NLeaves /\ pow2[s - 3] <= NLeaves

Depth == log2Ceiling(NLeaves)

\* A tree has at least two leaves.
LEMMA Leaves == NLeaves \in Nat /\ NLeaves >= 2 /\ NLeaves >= 1
BY TreeAssumption

\* Depth is the logarithm of the number of leaves, rounded up.
LEMMA DepthFacts ==
  /\ Depth \in Nat /\ Depth >= 1
  /\ pow2[Depth] >= NLeaves /\ pow2[Depth - 1] < NLeaves
  /\ pow2[Depth] \in Nat /\ pow2[Depth - 1] \in Nat
<1>1. Depth \in Nat /\ pow2[Depth] >= NLeaves /\ Depth > 0
  BY Leaves, Log2 DEF Depth
<1>2. pow2[Depth - 1] < NLeaves BY <1>1, Leaves, Log2 DEF Depth
<1>3. Depth - 1 \in Nat BY <1>1
<1> QED BY <1>1, <1>2, <1>3, Pow2Def

\* pow2 is weakly increasing,
LEMMA Pow2AtMost ==
  ASSUME NEW j \in Nat, NEW k \in Nat, j <= k
  PROVE  pow2[j] <= pow2[k] /\ pow2[j] \in Nat /\ pow2[k] \in Nat
<1>1. pow2[j] \in Nat /\ pow2[k] \in Nat BY Pow2Def
<1>2. CASE j = k BY <1>1, <1>2
<1>3. CASE j < k BY <1>1, <1>3, Pow2Monotone
<1> QED BY <1>1, <1>2, <1>3

\* and reflects the order of its arguments.
LEMMA Pow2Order ==
  ASSUME NEW j \in Nat, NEW k \in Nat, pow2[j] < pow2[k]
  PROVE  j < k
<1> SUFFICES ASSUME k <= j PROVE FALSE OBVIOUS
<1> QED BY Pow2AtMost

\* There is one step at which a search result stands confirmed.
LEMMA ResultStepUnique ==
  ASSUME NEW s, NEW t, ResultStep(s), ResultStep(t)
  PROVE  s = t
<1>1. \A a, b : ResultStep(a) /\ ResultStep(b) => ~(a < b)
  <2> SUFFICES ASSUME NEW a, NEW b, ResultStep(a), ResultStep(b), a < b PROVE FALSE
    OBVIOUS
  <2>1. a \in Nat /\ b \in Nat /\ a - 2 \in Nat /\ b - 3 \in Nat /\ a - 2 <= b - 3
    BY DEF ResultStep
  <2>2. pow2[a - 2] <= pow2[b - 3] BY <2>1, Pow2AtMost
  <2>3. pow2[a - 2] \in Nat /\ pow2[b - 3] \in Nat BY <2>1, Pow2Def
  <2> QED BY <2>2, <2>3, Leaves DEF ResultStep
<1>2. s \in Nat /\ t \in Nat BY DEF ResultStep
<1> QED BY <1>1, <1>2

\* It lies beyond every step of the search.
LEMMA ResultStepBounds ==
  ASSUME NEW s, ResultStep(s)
  PROVE  s \in Nat /\ s >= Depth + 2 /\ s <= Depth + 3
<1>1. /\ s \in Nat /\ s >= 3 /\ pow2[s - 2] > NLeaves /\ pow2[s - 3] <= NLeaves
      /\ s - 2 \in Nat /\ s - 3 \in Nat /\ Depth - 1 \in Nat
      /\ pow2[s - 2] \in Nat /\ pow2[s - 3] \in Nat
  BY Pow2Def, DepthFacts DEF ResultStep
<1>2. pow2[Depth - 1] < pow2[s - 2] BY <1>1, DepthFacts, Leaves
<1>3. Depth - 1 < s - 2 BY <1>1, <1>2, Pow2Order
<1>4. s - 3 <= Depth
  <2> SUFFICES ASSUME Depth < s - 3 PROVE FALSE BY <1>1, DepthFacts
  <2>1. pow2[Depth] < pow2[s - 3] BY <1>1, DepthFacts, Pow2Monotone
  <2> QED BY <1>1, <2>1, DepthFacts, Leaves
<1> QED BY <1>1, <1>3, <1>4, DepthFacts

\* After the search the result is still to be confirmed,
LEMMA SearchedUnconfirmed ==
  ASSUME NEW s \in 2 .. Depth + 1
  PROVE  resultUnconfirmed(s, NLeaves)
<1>1. s \in Nat /\ s - 2 \in Nat /\ Depth - 1 \in Nat /\ s - 2 <= Depth - 1 /\ s >= 2
  BY DepthFacts
<1>2. pow2[s - 2] <= pow2[Depth - 1] /\ pow2[s - 2] \in Nat BY <1>1, Pow2AtMost
<1> QED BY <1>1, <1>2, DepthFacts, Leaves DEF resultUnconfirmed

\* and once confirmed it cannot be confirmed again, answered challenge or not.
LEMMA UnconfirmedSearched ==
  ASSUME NEW s \in Nat, NEW t, ResultStep(t), s = t \/ s = t + 1
  PROVE  ~resultUnconfirmed(s, NLeaves)
<1>1. t \in Nat /\ t >= 3 /\ pow2[t - 2] > NLeaves /\ t - 2 \in Nat BY DEF ResultStep
<1>2. s - 2 \in Nat /\ t - 2 <= s - 2 BY <1>1
<1>3. pow2[t - 2] <= pow2[s - 2] /\ pow2[s - 2] \in Nat /\ pow2[t - 2] \in Nat
  BY <1>1, <1>2, Pow2AtMost
<1> QED BY <1>1, <1>3, Leaves DEF resultUnconfirmed

\* Confirming the result goes straight to the step of the challenge.
LEMMA ConfirmedStep ==
  ASSUME NEW e, NEW steps \in Nat, e.challengeStepCompleted = steps,
         resultUnconfirmed(steps, NLeaves),
         NEW F, "challengeStepCompleted" \in F, e = [f \in F |-> e[f]]
  PROVE  \E s : /\ ResultStep(s) /\ steps < s
                /\ afterConfirmBinarySearchResult(e, NLeaves)
                     = [e EXCEPT !.challengeStepCompleted = s]
<1> DEFINE Done == {s \in Nat : s >= steps /\ ~resultUnconfirmed(s, NLeaves)}
           IsFirst(s) == /\ ~resultUnconfirmed(s, NLeaves)
                         /\ \A r \in steps .. s - 1 : resultUnconfirmed(r, NLeaves)
<1>1. steps >= 2 BY DEF resultUnconfirmed
<1>2. NLeaves + 2 \in Nat /\ ~resultUnconfirmed(NLeaves + 2, NLeaves)
  <2>1. pow2[NLeaves] >= NLeaves + 1 /\ pow2[NLeaves] \in Nat BY Leaves, Pow2Grows, Pow2Def
  <2>2. (NLeaves + 2) - 2 = NLeaves BY Leaves
  <2> QED BY <2>1, <2>2, Leaves DEF resultUnconfirmed
<1>3. steps <= NLeaves + 2
  <2> SUFFICES ASSUME steps > NLeaves + 2 PROVE FALSE BY Leaves
  <2>1. steps - 2 \in Nat /\ NLeaves <= steps - 2 BY <1>1, Leaves
  <2>2. pow2[steps - 2] >= (steps - 2) + 1 /\ pow2[steps - 2] \in Nat
    BY <2>1, Pow2Grows, Pow2Def
  <2> QED BY <2>1, <2>2, Leaves DEF resultUnconfirmed
<1>4. PICK s \in Done : \A q \in Done : s <= q
  <2>1. NLeaves + 2 \in Done BY <1>2, <1>3, Leaves
  <2>2. Done \subseteq Nat OBVIOUS
  <2> HIDE DEF Done
  <2> QED BY <2>1, <2>2, LeastNatural
<1>5. s \in Nat /\ s >= steps /\ ~resultUnconfirmed(s, NLeaves) BY <1>4
<1>6. \A r \in steps .. s - 1 : resultUnconfirmed(r, NLeaves)
  <2> TAKE r \in steps .. s - 1
  <2>1. r \in Nat /\ ~(s <= r) BY <1>5
  <2>2. r \notin Done
    <3> HIDE DEF Done
    <3> QED BY <1>4, <2>1
  <2> QED BY <2>1, <2>2
<1>7. s <= NLeaves + 2 /\ s # steps
  <2>1. NLeaves + 2 \in Done BY <1>2, <1>3, Leaves
  <2>2. s <= NLeaves + 2
    <3> HIDE DEF Done
    <3> QED BY <1>4, <2>1
  <2> QED BY <1>5, <2>2
<1> HIDE DEF Done
<1>8. s - 1 \in steps .. s - 1 /\ s > steps BY <1>5, <1>7
<1>9. ResultStep(s)
  <2>1. resultUnconfirmed(s - 1, NLeaves) BY <1>6, <1>8
  <2>2. (s - 1) - 2 = s - 3 /\ s >= 3 /\ s >= 2 /\ s - 2 \in Nat BY <1>1, <1>5, <1>8
  <2>3. pow2[s - 3] <= NLeaves BY <2>1, <2>2 DEF resultUnconfirmed
  <2>4. pow2[s - 2] \in Nat BY <2>2, Pow2Def
  <2>5. pow2[s - 2] > NLeaves BY <1>5, <2>2, <2>4, Leaves DEF resultUnconfirmed
  <2> QED BY <1>5, <2>2, <2>3, <2>5 DEF ResultStep
<1>10. s \in steps .. steps + NLeaves BY <1>1, <1>5, <1>7, Leaves
<1>11. IsFirst(s) BY <1>5, <1>6
<1>12. \A t \in steps .. steps + NLeaves : IsFirst(t) => t = s
  <2> SUFFICES ASSUME NEW t \in steps .. steps + NLeaves, IsFirst(t), t # s PROVE FALSE
    OBVIOUS
  <2>1. t \in Nat /\ t >= steps BY Leaves
  <2>2. CASE t < s
    <3>1. t \in steps .. s - 1 BY <1>5, <2>1, <2>2
    <3> QED BY <1>6, <3>1
  <2>3. CASE s < t
    <3>1. s \in steps .. t - 1 BY <1>5, <2>1, <2>3
    <3> QED BY <1>5, <3>1
  <2> QED BY <1>5, <2>1, <2>2, <2>3
<1>13. s = CHOOSE t \in steps .. steps + NLeaves : IsFirst(t)
  <2> HIDE DEF IsFirst
  <2> QED BY <1>10, <1>11, <1>12
<1>14. afterConfirmBinarySearchResult(e, NLeaves) = [e EXCEPT !.challengeStepCompleted = s]
  BY <1>13 DEF afterConfirmBinarySearchResult
<1> QED BY <1>8, <1>9, <1>14

(* How far the search over lb .. ub has come: the step both entries are to *)
(* make next, as the length of proof that is asked for tells.              *)
due(lb, ub) == expectedProofLength(NLeaves, lb) - leafDepth(lb, ub, lb) + 1

OnPath(lb, ub) ==
  /\ lb \in 0 .. NLeaves - 1 /\ ub \in lb .. NLeaves - 1
  /\ due(lb, ub) >= 1
  /\ \A i \in lb .. ub : expectedProofLength(NLeaves, i) - leafDepth(lb, ub, i) + 1 = due(lb, ub)

\* The length the contract expects of a proof is the length of the path to the leaf.
LEMMA ExpectedLength ==
  ASSUME NEW i \in 0 .. NLeaves - 1
  PROVE  /\ expectedProofLength(NLeaves, i) \in Nat
         /\ expectedProofLength(NLeaves, i) = pathLength[<<NLeaves, i>>]
         /\ expectedProofLength(NLeaves, i) <= Depth
         /\ expectedProofLength(NLeaves, i) >= 1
<1>1. i \in Nat /\ NLeaves \in Nat /\ NLeaves >= 2 /\ NLeaves >= 1 BY Leaves
<1>2. proofLayers[<<NLeaves - 1, i>>] = pathLength[<<NLeaves, i>>]
  BY <1>1, ProofLengthIsDepth
<1>3. pathLength[<<NLeaves, i>>] \in Nat BY <1>1, PathLengthDef
<1>4. pathLength[<<NLeaves, i>>] <= Depth BY <1>1, ProofLengthBound DEF Depth
<1>5. pathLength[<<NLeaves, i>>] >= 1
  <2>1. leftWidth(NLeaves) \in 1 .. NLeaves - 1 BY <1>1, LeftWidth
  <2>2. CASE i < leftWidth(NLeaves)
    <3>1. pathLength[<<NLeaves, i>>] = 1 + pathLength[<<leftWidth(NLeaves), i>>]
      BY <1>1, <2>2, PathLeft
    <3>2. leftWidth(NLeaves) \in Nat BY <2>1
    <3>3. pathLength[<<leftWidth(NLeaves), i>>] \in Nat BY <1>1, <3>2, PathLengthDef
    <3> QED BY <3>1, <3>3
  <2>3. CASE i >= leftWidth(NLeaves)
    <3> DEFINE m == NLeaves - leftWidth(NLeaves)
               j == i - leftWidth(NLeaves)
    <3>1. pathLength[<<NLeaves, i>>] = 1 + pathLength[<<m, j>>] BY <1>1, <2>3, PathRight
    <3>2. m \in Nat /\ j \in Nat BY <1>1, <2>1, <2>3
    <3> HIDE DEF m, j
    <3>3. pathLength[<<m, j>>] \in Nat BY <3>2, PathLengthDef
    <3> QED BY <3>1, <3>3
  <2>4. leftWidth(NLeaves) \in Nat BY <2>1
  <2> QED BY <1>1, <2>2, <2>3, <2>4
<1> QED BY <1>2, <1>3, <1>4, <1>5 DEF expectedProofLength

\* A leaf is a natural number of layers below its subtree's root.
LEMMA LeafDepthNat ==
  ASSUME NEW lb \in Nat, NEW ub \in Nat, NEW i \in lb .. ub
  PROVE  /\ leafDepth(lb, ub, i) \in Nat
         /\ lb = ub => leafDepth(lb, ub, i) = 0
<1> DEFINE w == ub - lb + 1
           j == i - lb
<1>1. w \in Nat /\ j \in Nat /\ (lb = ub => w <= 1) OBVIOUS
<1> HIDE DEF w, j
<1>2. pathLength[<<w, j>>] \in Nat BY <1>1, PathLengthDef
<1>3. lb = ub => pathLength[<<w, j>>] = 0 BY <1>1, PathZero
<1> QED BY <1>2, <1>3 DEF leafDepth, w, j

\* The two children of a node, and their leaves one step nearer.
LEMMA Halves ==
  ASSUME NEW lb \in Nat, NEW ub \in Nat, lb < ub
  PROVE  LET half == leftWidth(ub - lb + 1)
         IN  /\ half \in Nat /\ half >= 1 /\ lb + half <= ub
             /\ ub - ((ub - lb + 1) - half) = lb + half - 1
             /\ \A i \in lb .. lb + half - 1 :
                  leafDepth(lb, ub, i) = 1 + leafDepth(lb, lb + half - 1, i)
             /\ \A i \in lb + half .. ub :
                  leafDepth(lb, ub, i) = 1 + leafDepth(lb + half, ub, i)
<1> DEFINE w == ub - lb + 1
           half == leftWidth(w)
<1>1. w \in Nat /\ w >= 2 /\ w > 1 OBVIOUS
<1>2. half \in 1 .. w - 1
  <2> HIDE DEF w
  <2> QED BY <1>1, LeftWidth
<1>3. half \in Nat /\ half >= 1 /\ half < w /\ lb + half <= ub
  <2>1. w = ub - lb + 1 OBVIOUS
  <2> HIDE DEF half, w
  <2> QED BY <1>1, <1>2, <2>1
<1>4. ub - (w - half) = lb + half - 1
  <2>1. w = ub - lb + 1 OBVIOUS
  <2> HIDE DEF half, w
  <2> QED BY <1>3, <2>1
<1>5. ASSUME NEW i \in lb .. lb + half - 1
      PROVE  leafDepth(lb, ub, i) = 1 + leafDepth(lb, lb + half - 1, i)
  <2> DEFINE j == i - lb
  <2>1. i \in Int /\ lb <= i /\ i <= lb + half - 1
    <3> HIDE DEF half
    <3> QED BY <1>3
  <2>2. j \in Nat /\ j < half
    <3> HIDE DEF half
    <3> QED BY <1>3, <2>1
  <2>3. (lb + half - 1) - lb + 1 = half
    <3> HIDE DEF half
    <3> QED BY <1>3
  <2>4. pathLength[<<w, j>>] = 1 + pathLength[<<half, j>>]
    <3> HIDE DEF w, j
    <3> QED BY <1>1, <2>2, PathLeft DEF half
  <2> HIDE DEF half
  <2> QED BY <2>3, <2>4 DEF leafDepth
<1>6. ASSUME NEW i \in lb + half .. ub
      PROVE  leafDepth(lb, ub, i) = 1 + leafDepth(lb + half, ub, i)
  <2> DEFINE j == i - lb
  <2>1. i \in Int /\ lb + half <= i /\ i <= ub
    <3> HIDE DEF half
    <3> QED BY <1>3
  <2>2. j \in Nat /\ j >= half
    <3> HIDE DEF half
    <3> QED BY <1>3, <2>1
  <2>3. ub - (lb + half) + 1 = w - half /\ i - (lb + half) = j - half
    <3> HIDE DEF half
    <3> QED BY <1>3, <2>1
  <2>4. pathLength[<<w, j>>] = 1 + pathLength[<<w - half, j - half>>]
    <3> HIDE DEF w, j
    <3> QED BY <1>1, <2>2, PathRight DEF half
  <2> HIDE DEF half
  <2> QED BY <2>3, <2>4 DEF leafDepth
<1> QED BY <1>3, <1>4, <1>5, <1>6

\* The search starts at the root.
LEMMA WholePath == OnPath(0, NLeaves - 1) /\ due(0, NLeaves - 1) = 1
<1>1. ASSUME NEW i \in 0 .. NLeaves - 1
      PROVE  expectedProofLength(NLeaves, i) = leafDepth(0, NLeaves - 1, i)
             /\ expectedProofLength(NLeaves, i) \in Nat
  <2>1. (NLeaves - 1) - 0 + 1 = NLeaves /\ i - 0 = i BY Leaves
  <2> QED BY <2>1, ExpectedLength DEF leafDepth
<1>2. 0 \in 0 .. NLeaves - 1 /\ NLeaves - 1 \in 0 .. NLeaves - 1 BY Leaves
<1>3. due(0, NLeaves - 1) = 1 BY <1>1, <1>2 DEF due
<1> QED BY <1>1, <1>2, <1>3 DEF OnPath

\* On a search path the siblings sent so far and those still to come make one proof.
LEMMA PathFacts ==
  ASSUME NEW lb, NEW ub, OnPath(lb, ub)
  PROVE  /\ lb \in 0 .. NLeaves - 1 /\ ub \in 0 .. NLeaves - 1 /\ lb <= ub
         /\ lb \in Nat /\ ub \in Nat
         /\ due(lb, ub) \in Nat /\ due(lb, ub) >= 1
         /\ expectedProofLength(NLeaves, lb) = leafDepth(lb, ub, lb) + (due(lb, ub) - 1)
<1>1. lb \in 0 .. NLeaves - 1 /\ ub \in lb .. NLeaves - 1 /\ due(lb, ub) >= 1 BY DEF OnPath
<1>2. lb \in Nat /\ ub \in Nat /\ ub \in 0 .. NLeaves - 1 /\ lb <= ub /\ lb \in lb .. ub
  BY <1>1, Leaves
<1>3. leafDepth(lb, ub, lb) \in Nat BY <1>2, LeafDepthNat
<1>4. expectedProofLength(NLeaves, lb) \in Nat BY <1>1, ExpectedLength
<1>5. due(lb, ub) \in Nat /\ expectedProofLength(NLeaves, lb) = leafDepth(lb, ub, lb) + (due(lb, ub) - 1)
  BY <1>1, <1>3, <1>4 DEF due
<1> QED BY <1>1, <1>2, <1>5

\* A search ends after at most Depth halvings.
LEMMA PathEnds ==
  ASSUME NEW lb, NEW ub, OnPath(lb, ub)
  PROVE  /\ lb = ub => due(lb, ub) >= 2 /\ due(lb, ub) <= Depth + 1
         /\ lb # ub => due(lb, ub) <= Depth
<1>1. lb \in 0 .. NLeaves - 1 /\ lb \in Nat /\ ub \in Nat /\ lb <= ub /\ lb \in lb .. ub
  BY PathFacts
<1>2. expectedProofLength(NLeaves, lb) \in 1 .. Depth
  <2>1. /\ expectedProofLength(NLeaves, lb) \in Nat
        /\ expectedProofLength(NLeaves, lb) <= Depth
        /\ expectedProofLength(NLeaves, lb) >= 1
    BY <1>1, ExpectedLength
  <2> QED BY <2>1, DepthFacts
<1>3. lb = ub => leafDepth(lb, ub, lb) = 0 BY <1>1, LeafDepthNat
<1>4. leafDepth(lb, ub, lb) \in Nat BY <1>1, LeafDepthNat
<1>5. lb # ub => leafDepth(lb, ub, lb) >= 1
  <2> SUFFICES ASSUME lb # ub PROVE leafDepth(lb, ub, lb) >= 1 OBVIOUS
  <2> DEFINE half == leftWidth(ub - lb + 1)
  <2>1. lb < ub BY <1>1
  <2>2. half \in Nat /\ half >= 1 BY <1>1, <2>1, Halves
  <2>3. \A i \in lb .. lb + half - 1 : leafDepth(lb, ub, i) = 1 + leafDepth(lb, lb + half - 1, i)
    BY <1>1, <2>1, Halves
  <2> HIDE DEF half
  <2>4. lb \in lb .. lb + half - 1 /\ lb + half - 1 \in Nat BY <1>1, <2>2
  <2>5. leafDepth(lb, lb + half - 1, lb) \in Nat BY <1>1, <2>4, LeafDepthNat
  <2> QED BY <2>3, <2>4, <2>5
<1> QED BY <1>2, <1>3, <1>4, <1>5, DepthFacts DEF due

\* Each half of a node of the path is a node of a path, one step further.
LEMMA PathDown ==
  ASSUME NEW lb, NEW ub, OnPath(lb, ub), lb # ub
  PROVE  LET half == leftWidth(ub - lb + 1)
         IN  /\ half \in Nat /\ half >= 1 /\ lb + half <= ub
             /\ ub - ((ub - lb + 1) - half) = lb + half - 1
             /\ OnPath(lb, lb + half - 1) /\ due(lb, lb + half - 1) = due(lb, ub) + 1
             /\ OnPath(lb + half, ub) /\ due(lb + half, ub) = due(lb, ub) + 1
<1> DEFINE half == leftWidth(ub - lb + 1)
           d == due(lb, ub)
<1>1. lb \in Nat /\ ub \in Nat /\ lb < ub /\ ub <= NLeaves - 1 BY PathFacts, Leaves
<1>2. /\ half \in Nat /\ half >= 1 /\ lb + half <= ub
      /\ ub - ((ub - lb + 1) - half) = lb + half - 1
  BY <1>1, Halves
<1>3. /\ \A i \in lb .. lb + half - 1 :
           leafDepth(lb, ub, i) = 1 + leafDepth(lb, lb + half - 1, i)
      /\ \A i \in lb + half .. ub :
           leafDepth(lb, ub, i) = 1 + leafDepth(lb + half, ub, i)
  BY <1>1, Halves
<1>4. /\ d >= 1 /\ d \in Nat
      /\ \A i \in lb .. ub : expectedProofLength(NLeaves, i) - leafDepth(lb, ub, i) + 1 = d
  BY PathFacts DEF OnPath
<1> HIDE DEF half, d
<1>5. /\ lb + half - 1 \in Nat /\ lb + half \in Nat
      /\ lb \in lb .. lb + half - 1 /\ lb + half \in lb + half .. ub
      /\ lb .. lb + half - 1 \subseteq lb .. ub /\ lb + half .. ub \subseteq lb .. ub
      /\ lb .. ub \subseteq 0 .. NLeaves - 1
      /\ lb + half - 1 \in lb .. NLeaves - 1 /\ lb + half \in 0 .. NLeaves - 1
      /\ ub \in lb + half .. NLeaves - 1 /\ lb \in 0 .. NLeaves - 1
  BY <1>1, <1>2, Leaves
<1>6. ASSUME NEW i \in lb .. lb + half - 1
      PROVE  expectedProofLength(NLeaves, i) - leafDepth(lb, lb + half - 1, i) + 1 = d + 1
  <2>1. leafDepth(lb, lb + half - 1, i) \in Nat BY <1>1, <1>5, LeafDepthNat
  <2>2. i \in 0 .. NLeaves - 1 /\ i \in lb .. ub BY <1>5
  <2>3. expectedProofLength(NLeaves, i) \in Nat BY <2>2, ExpectedLength
  <2>4. leafDepth(lb, ub, i) = 1 + leafDepth(lb, lb + half - 1, i) BY <1>3
  <2>5. expectedProofLength(NLeaves, i) - leafDepth(lb, ub, i) + 1 = d BY <1>4, <2>2
  <2> QED BY <1>4, <2>1, <2>3, <2>4, <2>5
<1>7. ASSUME NEW i \in lb + half .. ub
      PROVE  expectedProofLength(NLeaves, i) - leafDepth(lb + half, ub, i) + 1 = d + 1
  <2>1. leafDepth(lb + half, ub, i) \in Nat BY <1>1, <1>5, LeafDepthNat
  <2>2. i \in 0 .. NLeaves - 1 /\ i \in lb .. ub BY <1>5
  <2>3. expectedProofLength(NLeaves, i) \in Nat BY <2>2, ExpectedLength
  <2>4. leafDepth(lb, ub, i) = 1 + leafDepth(lb + half, ub, i) BY <1>3
  <2>5. expectedProofLength(NLeaves, i) - leafDepth(lb, ub, i) + 1 = d BY <1>4, <2>2
  <2> QED BY <1>4, <2>1, <2>3, <2>4, <2>5
<1>8. due(lb, lb + half - 1) = d + 1 BY <1>5, <1>6 DEF due
<1>9. due(lb + half, ub) = d + 1 BY <1>5, <1>7 DEF due
<1>10. OnPath(lb, lb + half - 1) BY <1>4, <1>5, <1>6, <1>8 DEF OnPath
<1>11. OnPath(lb + half, ub) BY <1>4, <1>5, <1>7, <1>9 DEF OnPath
<1> QED BY <1>2, <1>8, <1>9, <1>10, <1>11 DEF half, d

-----------------------------------------------------------------------------
(* Sequences of entries.                                                   *)

\* What a sequence over T holds.
LEMMA SeqFacts ==
  ASSUME NEW T, NEW s \in Seq(T)
  PROVE  Len(s) \in Nat /\ \A k \in 1 .. Len(s) : s[k] \in T
OBVIOUS

\* Replacing one member of one of several sequences.
LEMMA SetOne ==
  ASSUME NEW R, NEW T, NEW d \in [R -> Seq(T)], NEW r \in R,
         NEW j \in 1 .. Len(d[r]), NEW e \in T
  PROVE  LET f == [d EXCEPT ![r][j] = e]
         IN  /\ f \in [R -> Seq(T)]
             /\ \A q \in R : Len(f[q]) = Len(d[q])
             /\ \A q \in R : \A k \in 1 .. Len(d[q]) :
                  f[q][k] = IF q = r /\ k = j THEN e ELSE d[q][k]
<1> DEFINE f == [d EXCEPT ![r][j] = e]
           s == d[r]
           t == [s EXCEPT ![j] = e]
<1>1. s \in Seq(T) OBVIOUS
<1>2. t \in Seq(T) /\ Len(t) = Len(s) /\ \A k \in 1 .. Len(s) : t[k] = IF k = j THEN e ELSE s[k]
  BY <1>1
<1>3. f = [q \in R |-> IF q = r THEN t ELSE d[q]] OBVIOUS
<1> HIDE DEF t, f
<1> QED BY <1>2, <1>3 DEF f

\* Replacing two members of one of several sequences.
LEMMA SetTwo ==
  ASSUME NEW R, NEW T, NEW d \in [R -> Seq(T)], NEW r \in R,
         NEW j \in 1 .. Len(d[r]), NEW e \in T,
         NEW l \in 1 .. Len(d[r]), NEW g \in T, j # l
  PROVE  LET f == [d EXCEPT ![r][j] = e, ![r][l] = g]
         IN  /\ f \in [R -> Seq(T)]
             /\ \A q \in R : Len(f[q]) = Len(d[q])
             /\ \A q \in R : \A k \in 1 .. Len(d[q]) :
                  f[q][k] = IF q = r /\ k = j THEN e
                            ELSE IF q = r /\ k = l THEN g ELSE d[q][k]
<1> DEFINE f == [d EXCEPT ![r][j] = e, ![r][l] = g]
           c == [d EXCEPT ![r][j] = e]
           b == [c EXCEPT ![r][l] = g]
<1>1. /\ c \in [R -> Seq(T)]
      /\ \A q \in R : Len(c[q]) = Len(d[q])
      /\ \A q \in R : \A k \in 1 .. Len(d[q]) :
                  c[q][k] = IF q = r /\ k = j THEN e ELSE d[q][k]
  BY SetOne
<1>2. f = b OBVIOUS
<1> HIDE DEF c, f
<1>3. l \in 1 .. Len(c[r]) BY <1>1
<1>4. /\ b \in [R -> Seq(T)]
      /\ \A q \in R : Len(b[q]) = Len(c[q])
      /\ \A q \in R : \A k \in 1 .. Len(c[q]) :
                  b[q][k] = IF q = r /\ k = l THEN g ELSE c[q][k]
  BY <1>1, <1>3, SetOne
<1> HIDE DEF b
<1>5. f \in [R -> Seq(T)] BY <1>2, <1>4
<1>6. \A q \in R : Len(f[q]) = Len(d[q]) BY <1>1, <1>2, <1>4
<1>7. \A q \in R : \A k \in 1 .. Len(d[q]) :
                  f[q][k] = IF q = r /\ k = j THEN e
                            ELSE IF q = r /\ k = l THEN g ELSE d[q][k]
  BY <1>1, <1>2, <1>4
<1> QED BY <1>5, <1>6, <1>7 DEF f

-----------------------------------------------------------------------------
(* Rounds and places.                                                      *)

\* Rounds are numbered from 0, and a playable one has a next one.
LEMMA RoundFacts ==
  /\ Rounds \subseteq Nat /\ 0 \in Rounds
  /\ \A r \in PlayableRounds : r \in Rounds /\ r + 1 \in Rounds /\ r # r + 1
<1>1. Cardinality(Submissions) \in Nat BY SubmissionAssumption, FS_CardinalityType
<1> QED BY <1>1 DEF Rounds, PlayableRounds

\* The entry at an index of a round, counted from 0.
LEMMA EntryFacts ==
  ASSUME TypeOK, NEW r \in Rounds, NEW i \in Indices(r)
  PROVE  /\ entryAt(r, i) \in EntryType
         /\ i \in Nat /\ i + 1 \in 1 .. Len(disputeRounds[r]) /\ i < Len(disputeRounds[r])
         /\ (i + 1) - 1 = i
         /\ Len(disputeRounds[r]) \in Nat
<1>1. disputeRounds[r] \in Seq(EntryType) BY DEF TypeOK
<1>2. Len(disputeRounds[r]) \in Nat BY <1>1
<1>3. i \in 0 .. Len(disputeRounds[r]) - 1 BY DEF Indices
<1>4. i \in Nat /\ i + 1 \in 1 .. Len(disputeRounds[r]) /\ i < Len(disputeRounds[r]) BY <1>2, <1>3
<1>5. disputeRounds[r][i + 1] \in EntryType BY <1>1, <1>4, SeqFacts
<1> QED BY <1>2, <1>4, <1>5 DEF entryAt

\* The submission of an entry is the one its first submitter made.
LEMMA HolderFacts ==
  ASSUME TypeOK, NEW r \in Rounds, NEW i \in Indices(r)
  PROVE  /\ submissionAt(r, i) \in Submissions \cup {NoSubmission}
         /\ submissionAt(r, i) # NoSubmission
              => /\ entryAt(r, i).firstSubmitter \in Miners
                 /\ submissionAt(r, i) = submission[entryAt(r, i).firstSubmitter]
                 /\ submissionAt(r, i) \in Submissions
<1>1. entryAt(r, i) \in EntryType BY EntryFacts
<1>2. entryAt(r, i).firstSubmitter \in Miners \cup {NoMiner} BY <1>1 DEF EntryType
<1>3. submission \in [Miners -> Submissions \cup {NoSubmission}] BY DEF TypeOK
<1> QED BY <1>2, <1>3 DEF submissionAt, submissionOf

\* Opponents are neighbours, of each other.
LEMMA OpponentFacts ==
  ASSUME NEW i \in Nat
  PROVE  /\ getOpponentIdx(i) \in Nat /\ getOpponentIdx(i) # i
         /\ getOpponentIdx(getOpponentIdx(i)) = i
         /\ getOpponentIdx(i) <= i + 1
         /\ i % 2 = 0 => getOpponentIdx(i) = i + 1
         /\ i % 2 = 1 => getOpponentIdx(i) = i - 1
BY DEF getOpponentIdx

\* InRound is membership in a round's indices.
LEMMA InRoundNat ==
  ASSUME TypeOK, NEW r \in Rounds, NEW i
  PROVE  InRound(r, i) <=> i \in Indices(r)
BY DEF InRound

-----------------------------------------------------------------------------
(* What the changes of the rounds come to, place by place.                 *)

RoundsType == disputeRounds \in [Rounds -> Seq(EntryType)]

Replaced(r, i, e) == disputeRounds' = [disputeRounds EXCEPT ![r][i + 1] = e]

BothReplaced(r, i, e, o, f) ==
  disputeRounds' = [disputeRounds EXCEPT ![r][i + 1] = e, ![r][o + 1] = f]

\* A step that replaces one entry leaves all others alone,
LEMMA OneChange ==
  ASSUME TypeOK, NEW r \in Rounds, NEW i \in Indices(r), NEW e \in EntryType,
         Replaced(r, i, e)
  PROVE  /\ RoundsType'
         /\ \A q \in Rounds : Len(disputeRounds'[q]) = Len(disputeRounds[q])
         /\ \A q \in Rounds : \A j \in Indices(q) :
              entryAt(q, j)' = IF q = r /\ j = i THEN e ELSE entryAt(q, j)
<1>1. disputeRounds \in [Rounds -> Seq(EntryType)] BY DEF TypeOK
<1>2. i + 1 \in 1 .. Len(disputeRounds[r]) /\ i \in Nat BY EntryFacts
<1>3. /\ disputeRounds' \in [Rounds -> Seq(EntryType)]
      /\ \A q \in Rounds : Len(disputeRounds'[q]) = Len(disputeRounds[q])
      /\ \A q \in Rounds : \A k \in 1 .. Len(disputeRounds[q]) :
           disputeRounds'[q][k] = IF q = r /\ k = i + 1 THEN e ELSE disputeRounds[q][k]
  BY <1>1, <1>2, SetOne DEF Replaced
<1>4. ASSUME NEW q \in Rounds, NEW j \in Indices(q)
      PROVE  entryAt(q, j)' = IF q = r /\ j = i THEN e ELSE entryAt(q, j)
  <2>1. j + 1 \in 1 .. Len(disputeRounds[q]) /\ j \in Nat BY EntryFacts
  <2>2. disputeRounds'[q][j + 1] = IF q = r /\ j + 1 = i + 1 THEN e ELSE disputeRounds[q][j + 1]
    BY <1>3, <2>1
  <2>3. j + 1 = i + 1 <=> j = i BY <1>2, <2>1
  <2> QED BY <2>2, <2>3 DEF entryAt
<1> QED BY <1>3, <1>4 DEF RoundsType

\* and one that replaces two does too.
LEMMA TwoChanges ==
  ASSUME TypeOK, NEW r \in Rounds, NEW i \in Indices(r), NEW e \in EntryType,
         NEW o \in Indices(r), NEW f \in EntryType, i # o,
         BothReplaced(r, i, e, o, f)
  PROVE  /\ RoundsType'
         /\ \A q \in Rounds : Len(disputeRounds'[q]) = Len(disputeRounds[q])
         /\ \A q \in Rounds : \A j \in Indices(q) :
              entryAt(q, j)' = IF q = r /\ j = i THEN e
                               ELSE IF q = r /\ j = o THEN f ELSE entryAt(q, j)
<1>1. disputeRounds \in [Rounds -> Seq(EntryType)] BY DEF TypeOK
<1>2. /\ i + 1 \in 1 .. Len(disputeRounds[r]) /\ i \in Nat
      /\ o + 1 \in 1 .. Len(disputeRounds[r]) /\ o \in Nat /\ i + 1 # o + 1
  BY EntryFacts
<1>3. /\ disputeRounds' \in [Rounds -> Seq(EntryType)]
      /\ \A q \in Rounds : Len(disputeRounds'[q]) = Len(disputeRounds[q])
      /\ \A q \in Rounds : \A k \in 1 .. Len(disputeRounds[q]) :
           disputeRounds'[q][k] = IF q = r /\ k = i + 1 THEN e
                                  ELSE IF q = r /\ k = o + 1 THEN f ELSE disputeRounds[q][k]
  BY <1>1, <1>2, SetTwo DEF BothReplaced
<1>4. ASSUME NEW q \in Rounds, NEW j \in Indices(q)
      PROVE  entryAt(q, j)' = IF q = r /\ j = i THEN e
                              ELSE IF q = r /\ j = o THEN f ELSE entryAt(q, j)
  <2>1. j + 1 \in 1 .. Len(disputeRounds[q]) /\ j \in Nat BY EntryFacts
  <2>2. disputeRounds'[q][j + 1] = IF q = r /\ j + 1 = i + 1 THEN e
                 ELSE IF q = r /\ j + 1 = o + 1 THEN f ELSE disputeRounds[q][j + 1]
    BY <1>3, <2>1
  <2>3. (j + 1 = i + 1 <=> j = i) /\ (j + 1 = o + 1 <=> j = o) BY <1>2, <2>1
  <2> QED BY <2>2, <2>3 DEF entryAt
<1> QED BY <1>3, <1>4 DEF RoundsType

\* What the contract writes over an entry is an entry.
LEMMA TypedEntries ==
  /\ DeletedEntry \in EntryType /\ MaxAge \in Nat /\ MaxAge >= 2 /\ 0 \in 0 .. MaxAge
  /\ \A e \in EntryType : /\ [e EXCEPT !.age = 0] \in EntryType
                          /\ startMemberOfPair(e) \in EntryType
                          /\ older(e) \in EntryType
<1>1. MaxAge \in Nat /\ MaxAge >= 2 BY WindowAssumption DEF MaxAge
<1>2. 0 \in 0 .. NLeaves - 1 /\ NLeaves - 1 \in 0 .. NLeaves /\ NLeaves \in 0 .. NLeaves
      /\ 0 \in 0 .. NLeaves
  BY Leaves
<1>3. DeletedEntry \in EntryType BY <1>1, <1>2 DEF DeletedEntry, EntryType
<1>4. ASSUME NEW e \in EntryType
      PROVE  /\ [e EXCEPT !.age = 0] \in EntryType
             /\ startMemberOfPair(e) \in EntryType
             /\ older(e) \in EntryType
  <2>1. [e EXCEPT !.age = 0] \in EntryType BY <1>1 DEF EntryType
  <2>2. startMemberOfPair(e) \in EntryType
    <3> DEFINE u == IF submissionOf(e) \in jrhConfirmed THEN NLeaves - 1 ELSE NoUpperBound
               c == IF submissionOf(e) \in jrhConfirmed THEN 1 ELSE 0
    <3>1. u \in 0 .. NLeaves /\ c \in Nat BY <1>2 DEF NoUpperBound
    <3>2. startMemberOfPair(e) = [e EXCEPT !.age = 0, !.lowerBound = 0, !.upperBound = u,
                                           !.challengeStepCompleted = c]
      BY DEF startMemberOfPair
    <3> HIDE DEF u, c
    <3>3. startMemberOfPair(e) =
            [firstSubmitter |-> e.firstSubmitter, age |-> 0, challengeStepCompleted |-> c,
             lowerBound |-> 0, upperBound |-> u]
      BY <3>2 DEF EntryType
    <3>4. e.firstSubmitter \in Miners \cup {NoMiner} BY DEF EntryType
    <3> QED BY <1>1, <1>2, <3>1, <3>3, <3>4 DEF EntryType
  <2>3. older(e) \in EntryType BY <1>1 DEF EntryType, older
  <2> QED BY <2>1, <2>2, <2>3
<1> QED BY <1>1, <1>3, <1>4

\* What a push leaves in the round, and in the place before the new one.
LEMMA Pushed ==
  ASSUME NEW s \in Seq(EntryType), NEW e \in EntryType
  PROVE  LET n == Len(s)
             t == pushedTo(s, e)
         IN  /\ t \in Seq(EntryType) /\ Len(t) = n + 1
             /\ \A k \in 1 .. n - 1 : t[k] = s[k]
             /\ n % 2 = 0 => /\ t[n + 1] = [e EXCEPT !.age = 0]
                             /\ n > 0 => t[n] = s[n]
             /\ n % 2 = 1 => /\ t[n + 1] = startMemberOfPair(e)
                             /\ t[n] = startMemberOfPair(s[n])
<1> DEFINE n == Len(s)
           p == Append(s, e)
<1>1. /\ n \in Nat /\ p \in Seq(EntryType) /\ Len(p) = n + 1
      /\ p[n + 1] = e /\ \A k \in 1 .. n : p[k] = s[k] /\ s[k] \in EntryType
  OBVIOUS
<1>2. CASE n % 2 = 0
  <2>1. (n + 1) % 2 # 0 BY <1>1, <1>2
  <2>2. pushedTo(s, e) = [p EXCEPT ![n + 1].age = 0] BY <1>1, <2>1 DEF pushedTo
  <2>3. pushedTo(s, e) = [p EXCEPT ![n + 1] = [e EXCEPT !.age = 0]] BY <1>1, <2>2
  <2>4. [e EXCEPT !.age = 0] \in EntryType BY TypedEntries
  <2> DEFINE g == [e EXCEPT !.age = 0]
  <2> HIDE DEF g, p
  <2>5. /\ [p EXCEPT ![n + 1] = g] \in Seq(EntryType)
        /\ Len([p EXCEPT ![n + 1] = g]) = n + 1
        /\ [p EXCEPT ![n + 1] = g][n + 1] = g
        /\ \A k \in 1 .. n : [p EXCEPT ![n + 1] = g][k] = p[k]
    BY <1>1, <2>4 DEF g
  <2> DEFINE t == pushedTo(s, e)
  <2>6. t = [p EXCEPT ![n + 1] = g] BY <2>3 DEF g
  <2> HIDE DEF t
  <2>7. t \in Seq(EntryType) /\ Len(t) = n + 1 /\ t[n + 1] = g BY <2>5, <2>6
  <2>8. \A k \in 1 .. n : t[k] = s[k] BY <1>1, <2>5, <2>6 DEF p
  <2>9. 1 .. n - 1 \subseteq 1 .. n /\ (n > 0 => n \in 1 .. n) /\ n % 2 # 1 BY <1>1, <1>2
  <2> HIDE DEF n
  <2> QED BY <2>7, <2>8, <2>9 DEF t, g, n
<1>3. CASE n % 2 = 1
  <2>1. (n + 1) % 2 = 0 /\ n >= 1 BY <1>1, <1>3
  <2>2. pushedTo(s, e) = [p EXCEPT ![n + 1] = startMemberOfPair(p[n + 1]),
                                   ![n] = startMemberOfPair(p[n])]
    <3>1. (n + 1) - 1 = n BY <1>1
    <3> HIDE DEF n
    <3> QED BY <1>1, <2>1, <3>1 DEF pushedTo
  <2> DEFINE g == startMemberOfPair(e)
             f == startMemberOfPair(s[n])
  <2>3. pushedTo(s, e) = [p EXCEPT ![n + 1] = g, ![n] = f] BY <1>1, <2>1, <2>2
  <2>4. g \in EntryType /\ f \in EntryType
    <3>1. e \in EntryType /\ s[n] \in EntryType BY <1>1, <2>1
    <3> QED BY <3>1, TypedEntries
  <2> HIDE DEF g, f, p
  <2>5. /\ [p EXCEPT ![n + 1] = g, ![n] = f] \in Seq(EntryType)
        /\ Len([p EXCEPT ![n + 1] = g, ![n] = f]) = n + 1
        /\ [p EXCEPT ![n + 1] = g, ![n] = f][n + 1] = g
        /\ [p EXCEPT ![n + 1] = g, ![n] = f][n] = f
        /\ \A k \in 1 .. n - 1 : [p EXCEPT ![n + 1] = g, ![n] = f][k] = p[k]
    BY <1>1, <2>1, <2>4
  <2> QED BY <1>1, <1>3, <2>3, <2>5 DEF g, f
<1>4. n % 2 = 0 \/ n % 2 = 1 BY <1>1
<1> QED BY <1>2, <1>3, <1>4

\* A number is either even or odd.
LEMMA Parity == \A n \in Nat : /\ n % 2 = 0 \/ n % 2 = 1
                               /\ ~(n % 2 = 0 /\ n % 2 = 1)
                               /\ n % 2 = 1 => n >= 1
OBVIOUS

\* The clock restarts.
Reset(e) == [e EXCEPT !.age = 0]

\* What is left of an entry whose clock is reset.
LEMMA ResetFacts ==
  ASSUME NEW e \in EntryType
  PROVE  /\ Reset(e).firstSubmitter = e.firstSubmitter /\ Reset(e).age = 0
         /\ Reset(e).challengeStepCompleted = e.challengeStepCompleted
         /\ Reset(e).lowerBound = e.lowerBound /\ Reset(e).upperBound = e.upperBound
BY DEF EntryType, Reset

\* Neither the place that moves on nor the one it is paired with.
Apart(r, i, n, q, j) ==
  ~(q = r /\ j = i) /\ ~(q = r + 1 /\ n % 2 = 1 /\ j = n - 1)

\* Place i of round r moves on to the end of the next round.
Progressed(r, i, n) ==
  /\ RoundsType'
  /\ \A q \in Rounds : Len(disputeRounds'[q]) = IF q = r + 1 THEN n + 1 ELSE Len(disputeRounds[q])
  /\ entryAt(r, i)' = DeletedEntry
  /\ n % 2 = 1 => /\ n - 1 \in Indices(r + 1)
                  /\ entryAt(r + 1, n - 1)' = startMemberOfPair(entryAt(r + 1, n - 1))
  /\ \A q \in Rounds : \A j \in Indices(q) :
       Apart(r, i, n, q, j) => entryAt(q, j)' = entryAt(q, j)
  /\ n % 2 = 1 => entryAt(r + 1, n)' = startMemberOfPair(entryAt(r, i))
  /\ n % 2 = 0 => entryAt(r + 1, n)' = Reset(entryAt(r, i))

\* What progress() does to the rounds, entry by entry.
LEMMA ProgressView ==
  ASSUME TypeOK, NEW r \in PlayableRounds, NEW i \in Indices(r), progress(r, i),
         NEW n, n = Len(disputeRounds[r + 1])
  PROVE  Progressed(r, i, n)
<1> DEFINE d == disputeRounds
           e == entryAt(r, i)
           s == d[r + 1]
           t == pushedTo(s, e)
           c == [d EXCEPT ![r][i + 1] = DeletedEntry]
           f == [c EXCEPT ![r + 1] = t]
<1>1. r \in Rounds /\ r + 1 \in Rounds /\ r # r + 1 BY RoundFacts
<1>2. d \in [Rounds -> Seq(EntryType)] BY DEF TypeOK
<1>3. e \in EntryType /\ i \in Nat /\ i + 1 \in 1 .. Len(d[r]) BY <1>1, EntryFacts
<1>4. /\ c \in [Rounds -> Seq(EntryType)]
      /\ \A q \in Rounds : Len(c[q]) = Len(d[q])
      /\ \A q \in Rounds : \A k \in 1 .. Len(d[q]) :
           c[q][k] = IF q = r /\ k = i + 1 THEN DeletedEntry ELSE d[q][k]
  BY <1>1, <1>2, <1>3, TypedEntries, SetOne
<1>5. disputeRounds' = f
  <2>1. disputeRounds' = [d EXCEPT ![r][i + 1] = DeletedEntry, ![r + 1] = pushedTo(@, e)]
    BY DEF progress
  <2>2. c[r + 1] = d[r + 1] BY <1>1, <1>2
  <2>3. disputeRounds' = [c EXCEPT ![r + 1] = pushedTo(c[r + 1], e)]
    <3> HIDE DEF e
    <3> QED BY <1>1, <1>2, <2>1, <2>2
  <2> HIDE DEF c
  <2> QED BY <2>2, <2>3
<1>6. s \in Seq(EntryType) /\ n \in Nat BY <1>1, <1>2
<1>7. /\ t \in Seq(EntryType) /\ Len(t) = n + 1
      /\ \A k \in 1 .. n - 1 : t[k] = s[k]
      /\ n % 2 = 0 => /\ t[n + 1] = [e EXCEPT !.age = 0]
                      /\ n > 0 => t[n] = s[n]
      /\ n % 2 = 1 => /\ t[n + 1] = startMemberOfPair(e)
                      /\ t[n] = startMemberOfPair(s[n])
  <2> HIDE DEF s, e
  <2> QED BY <1>3, <1>6, Pushed DEF s
<1>8. f = [q \in Rounds |-> IF q = r + 1 THEN t ELSE c[q]]
  <2> HIDE DEF c, t
  <2> QED BY <1>1, <1>4
<1> HIDE DEF f, c, t
<1>9. f \in [Rounds -> Seq(EntryType)] BY <1>4, <1>7, <1>8
<1>10. \A q \in Rounds : Len(f[q]) = IF q = r + 1 THEN n + 1 ELSE Len(d[q])
  <2> HIDE DEF s
  <2> QED BY <1>4, <1>7, <1>8
<1>11. ASSUME NEW q \in Rounds, NEW j \in Indices(q)
       PROVE  entryAt(q, j)' = IF q = r /\ j = i THEN DeletedEntry
                               ELSE IF q = r + 1 /\ n % 2 = 1 /\ j = n - 1
                                    THEN startMemberOfPair(entryAt(q, j))
                                    ELSE entryAt(q, j)
  <2>1. j \in Nat /\ j + 1 \in 1 .. Len(d[q]) BY EntryFacts
  <2>2. CASE q # r + 1
    <3>1. f[q][j + 1] = c[q][j + 1] BY <1>8, <2>2
    <3>2. c[q][j + 1] = IF q = r /\ j + 1 = i + 1 THEN DeletedEntry ELSE d[q][j + 1]
      BY <1>4, <2>1
    <3>3. j + 1 = i + 1 <=> j = i BY <1>3, <2>1
    <3> HIDE DEF e
    <3> QED BY <1>5, <2>2, <3>1, <3>2, <3>3 DEF entryAt
  <2>3. CASE q = r + 1
    <3>1. f[q][j + 1] = t[j + 1] BY <1>1, <1>8, <2>3
    <3>2. j + 1 \in 1 .. n BY <2>1, <2>3
    <3>3. CASE j + 1 < n
      <4>1. j + 1 \in 1 .. n - 1 /\ j # n - 1 BY <1>6, <2>1, <3>2, <3>3
      <4>2. t[j + 1] = s[j + 1] BY <1>7, <4>1
      <4> HIDE DEF e
      <4> QED BY <1>1, <1>5, <2>3, <3>1, <4>1, <4>2 DEF entryAt
    <3>4. CASE j + 1 = n
      <4>1. j = n - 1 /\ n > 0 BY <1>6, <2>1, <3>4
      <4>2. n % 2 = 0 \/ n % 2 = 1 BY <1>6, Parity
      <4>3. n % 2 = 1 => t[j + 1] = startMemberOfPair(s[j + 1]) BY <1>7, <3>4
      <4>4. n % 2 = 0 => t[j + 1] = s[j + 1] BY <1>7, <3>4, <4>1
      <4> HIDE DEF e
      <4>5. n % 2 # 1 => n % 2 = 0 BY <4>2
      <4> QED BY <1>1, <1>5, <2>3, <3>1, <4>1, <4>3, <4>4, <4>5 DEF entryAt
    <3>5. n \in Nat BY <1>6
    <3>6. j + 1 < n \/ j + 1 = n BY <2>1, <3>2, <3>5
    <3> QED BY <3>3, <3>4, <3>6
  <2> QED BY <2>2, <2>3
<1>12. /\ n % 2 = 1 => entryAt(r + 1, n)' = startMemberOfPair(e)
       /\ n % 2 = 0 => entryAt(r + 1, n)' = Reset(e)
  <2>1. f[r + 1][n + 1] = t[n + 1] BY <1>1, <1>8
  <2>3. /\ n % 2 = 1 => t[n + 1] = startMemberOfPair(e)
        /\ n % 2 = 0 => t[n + 1] = Reset(e)
    <3> HIDE DEF e
    <3> QED BY <1>7 DEF Reset
  <2>4. entryAt(r + 1, n)' = f[r + 1][n + 1] BY <1>5 DEF entryAt
  <2> HIDE DEF e
  <2> QED BY <2>1, <2>3, <2>4
<1>13. entryAt(r, i)' = DeletedEntry BY <1>1, <1>11
<1>14. n % 2 = 1 => n - 1 \in Indices(r + 1)
  <2>1. n \in Nat /\ Len(d[r + 1]) = n BY <1>6
  <2>2. n % 2 = 1 => n >= 1 BY <2>1, Parity
  <2>3. n % 2 = 1 => n - 1 \in 0 .. n - 1 BY <2>1, <2>2
  <2> QED BY <2>1, <2>3 DEF Indices
<1>15. n % 2 = 1 => entryAt(r + 1, n - 1)' = startMemberOfPair(entryAt(r + 1, n - 1))
  BY <1>1, <1>11, <1>14
<1>16. ASSUME NEW q \in Rounds, NEW j \in Indices(q), Apart(r, i, n, q, j)
       PROVE  entryAt(q, j)' = entryAt(q, j)
  BY <1>11, <1>16 DEF Apart
<1> HIDE DEF e, s
<1> QED BY <1>5, <1>9, <1>10, <1>12, <1>13, <1>14, <1>15, <1>16 DEF Progressed, RoundsType, e

\* The entry of a new hash.
newEntry(m) ==
  [DeletedEntry EXCEPT !.firstSubmitter = m,
       !.age = IF submissionWindowClosed THEN windowAge - MiningWindow ELSE 0]

\* What a first submission of a hash does to the first round.
LEMMA SubmitView ==
  ASSUME TypeOK, NEW m \in Miners,
         disputeRounds' = [disputeRounds EXCEPT ![0] = Append(@, newEntry(m))],
         NEW n, n = Len(disputeRounds[0])
  PROVE      /\ RoundsType' /\ newEntry(m) \in EntryType
             /\ \A q \in Rounds :
                  Len(disputeRounds'[q]) = IF q = 0 THEN n + 1 ELSE Len(disputeRounds[q])
             /\ \A q \in Rounds : \A j \in Indices(q) : entryAt(q, j)' = entryAt(q, j)
             /\ entryAt(0, n)' = newEntry(m)
<1> DEFINE d == disputeRounds
           e == newEntry(m)
           t == Append(d[0], e)
<1>1. 0 \in Rounds /\ d \in [Rounds -> Seq(EntryType)] BY RoundFacts DEF TypeOK
<1>2. e \in EntryType
  <2> DEFINE a == IF submissionWindowClosed THEN windowAge - MiningWindow ELSE 0
  <2>1. windowAge \in 0 .. MiningWindow + 1 BY DEF TypeOK
  <2>2. a \in 0 .. MaxAge
    BY <2>1, WindowAssumption, TypedEntries DEF submissionWindowClosed
  <2> HIDE DEF a
  <2>5. e = [DeletedEntry EXCEPT !.firstSubmitter = m, !.age = a] BY DEF newEntry, a
  <2>3. e = [firstSubmitter |-> m, age |-> a, challengeStepCompleted |-> 0,
             lowerBound |-> 0, upperBound |-> 0]
    BY <2>5 DEF DeletedEntry
  <2>4. 0 \in 0 .. NLeaves - 1 /\ 0 \in 0 .. NLeaves /\ 0 \in Nat BY Leaves
  <2> QED BY <2>2, <2>3, <2>4 DEF EntryType
<1> HIDE DEF e
<1>3. /\ t \in Seq(EntryType) /\ Len(t) = n + 1 /\ t[n + 1] = e /\ n \in Nat
      /\ \A k \in 1 .. n : t[k] = d[0][k]
  BY <1>1, <1>2
<1>4. disputeRounds' = [q \in Rounds |-> IF q = 0 THEN t ELSE d[q]] BY <1>1 DEF e
<1> HIDE DEF t
<1>5. disputeRounds' \in [Rounds -> Seq(EntryType)] BY <1>1, <1>3, <1>4
<1>6. \A q \in Rounds : Len(disputeRounds'[q]) = IF q = 0 THEN n + 1 ELSE Len(d[q])
  BY <1>3, <1>4
<1>7. ASSUME NEW q \in Rounds, NEW j \in Indices(q) PROVE entryAt(q, j)' = entryAt(q, j)
  <2>1. j + 1 \in 1 .. Len(d[q]) BY EntryFacts
  <2> QED BY <1>1, <1>3, <1>4, <2>1 DEF entryAt
<1>8. entryAt(0, n)' = e BY <1>1, <1>3, <1>4 DEF entryAt
<1> QED BY <1>2, <1>5, <1>6, <1>7, <1>8 DEF RoundsType, e

\* A tick: every entry as it was, or older.
LEMMA TickView ==
  ASSUME TypeOK, Tick
  PROVE  /\ RoundsType'
         /\ \A q \in Rounds : Len(disputeRounds'[q]) = Len(disputeRounds[q])
         /\ \A q \in Rounds : \A j \in Indices(q) :
              entryAt(q, j)' = IF submissionWindowClosed THEN older(entryAt(q, j)) ELSE entryAt(q, j)
<1>1. disputeRounds \in [Rounds -> Seq(EntryType)] BY DEF TypeOK
<1>2. CASE submissionWindowClosed
  <2>1. disputeRounds' = [r \in Rounds |->
                            [j \in DOMAIN disputeRounds[r] |-> older(disputeRounds[r][j])]]
    BY <1>2 DEF Tick
  <2>2. ASSUME NEW q \in Rounds
        PROVE  /\ disputeRounds'[q] \in Seq(EntryType)
               /\ Len(disputeRounds'[q]) = Len(disputeRounds[q])
               /\ \A k \in 1 .. Len(disputeRounds[q]) :
                    disputeRounds'[q][k] = older(disputeRounds[q][k])
    <3> DEFINE s == disputeRounds[q]
               t == [j \in DOMAIN s |-> older(s[j])]
    <3>1. disputeRounds'[q] = t BY <2>1
    <3>2. s \in Seq(EntryType) BY <1>1
    <3> HIDE DEF s
    <3>3. DOMAIN s = 1 .. Len(s) /\ Len(s) \in Nat BY <3>2
    <3>4. \A k \in 1 .. Len(s) : older(s[k]) \in EntryType BY <3>2, SeqFacts, TypedEntries
    <3>5. t \in Seq(EntryType) /\ Len(t) = Len(s) /\ \A k \in 1 .. Len(s) : t[k] = older(s[k])
      BY <3>3, <3>4
    <3> QED BY <3>1, <3>5 DEF s
  <2>3. disputeRounds' \in [Rounds -> Seq(EntryType)]
    <3>1. DOMAIN disputeRounds' = Rounds /\ disputeRounds' = [q \in Rounds |-> disputeRounds'[q]]
      BY <2>1
    <3> QED BY <2>2, <3>1
  <2>4. ASSUME NEW q \in Rounds, NEW j \in Indices(q)
        PROVE  entryAt(q, j)' = older(entryAt(q, j))
    <3>1. j + 1 \in 1 .. Len(disputeRounds[q]) BY EntryFacts
    <3> QED BY <2>2, <3>1 DEF entryAt
  <2> QED BY <1>2, <2>2, <2>3, <2>4 DEF RoundsType
<1>3. CASE ~submissionWindowClosed
  <2>1. disputeRounds' = disputeRounds BY <1>3 DEF Tick
  <2> QED BY <1>1, <1>3, <2>1 DEF RoundsType, entryAt
<1> QED BY <1>2, <1>3

(***************************************************************************)
(* The tournament: who is where.                                           *)
(***************************************************************************)

\* The hashes that were invalidated.
Out == {s \in Submissions : timesInvalidated[s] > 0}

Held(r, i) == submissionAt(r, i) # NoSubmission

\* Nothing at this place is in the race any more.
Gone(r, i) == submissionAt(r, i) \in Out \cup {NoSubmission}

AllGone(r) == \A i \in Indices(r) : Gone(r, i)

GoneIn(r) == {i \in Indices(r) : Gone(r, i)}

\* An entry was made by somebody that submitted, and what was submitted is on record.
Known ==
  /\ \A r \in Rounds : \A i \in Indices(r) :
       entryAt(r, i).firstSubmitter # NoMiner
         => submission[entryAt(r, i).firstSubmitter] # NoSubmission
  /\ \A m \in Miners : submission[m] # NoSubmission => submission[m] \in Submitted
  /\ Out \subseteq Submitted /\ jrhConfirmed \subseteq Submitted
  /\ jrhConfirmed # {} => submissionWindowClosed

\* A hash is at one place, and every hash submitted is at some place.
OnePlace ==
  \A r \in Rounds, q \in Rounds : \A i \in Indices(r), j \in Indices(q) :
     submissionAt(r, i) = submissionAt(q, j) /\ Held(r, i) => r = q /\ i = j

EachPlaced ==
  \A s \in Submitted : \E r \in Rounds : \E i \in Indices(r) : submissionAt(r, i) = s

\* Round 0 takes every hash.
Numbered ==
  /\ nUniqueSubmittedHashes = Cardinality(Submitted)
  /\ Len(disputeRounds[0]) = nUniqueSubmittedHashes

\* The two of a pair leave the race together.
PairsTogether ==
  \A r \in Rounds : \A i \in Indices(r) :
     InRound(r, getOpponentIdx(i)) => (Gone(r, i) <=> Gone(r, getOpponentIdx(i)))

\* An entry without opponent is in the race until it is given a bye, which happens
\* when nothing more can arrive.
LoneEntries ==
  \A r \in Rounds : \A i \in Indices(r) :
     ~InRound(r, getOpponentIdx(i)) /\ Gone(r, i)
       => /\ ~Held(r, i) /\ Len(disputeRounds[r]) > 1 /\ submissionWindowClosed
          /\ \A q \in Rounds : q < r => AllGone(q)

\* The counters count what they are meant to.
Counted ==
  /\ nInvalidatedHashes = Cardinality(Out)
  /\ \A r \in Rounds : nHashesCompletedChallengeRound[r] = Cardinality(GoneIn(r))

\* firstIncompleteRound leaves only complete rounds out, and nothing is anywhere
\* before the first hash.
RoundsBehind ==
  /\ \A r \in Rounds : r < firstIncompleteRound => AllGone(r)
  /\ firstIncompleteRound > 0 => submissionWindowClosed /\ nUniqueSubmittedHashes > 0
  /\ \A r \in Rounds : Len(disputeRounds[r]) > 0 => nUniqueSubmittedHashes > 0

Race == PairsTogether /\ LoneEntries /\ Counted /\ RoundsBehind

\* Where the hashes are, whatever is settled how often, and who is in the race, as
\* long as nothing is settled twice.
Struct ==
  Known /\ OnePlace /\ EachPlaced /\ Numbered /\ (settledAgain = 0 => Race)

\* A held entry belongs to a submitted hash.
LEMMA HeldFacts ==
  ASSUME TypeOK, Known, NEW r \in Rounds, NEW i \in Indices(r), Held(r, i)
  PROVE  submissionAt(r, i) \in Submitted /\ submissionAt(r, i) \in Submissions
         /\ submissionAt(r, i) # NoSubmission
<1>1. /\ entryAt(r, i).firstSubmitter \in Miners
      /\ submissionAt(r, i) = submission[entryAt(r, i).firstSubmitter]
      /\ submissionAt(r, i) \in Submissions /\ submissionAt(r, i) # NoSubmission
  BY HolderFacts DEF Held
<1> QED BY <1>1 DEF Known

\* NoSubmission is no hash.
LEMMA NoHash == NoSubmission \notin Submissions /\ NoSubmission \notin Out /\ NoSubmission \notin Submitted
  /\ NoSubmission \notin Confirmable /\ NoMiner \notin Miners
BY SubmissionAssumption DEF Out, Submitted

\* There are finitely many submissions.
LEMMA FiniteSets_ ==
  /\ IsFiniteSet(Submissions) /\ IsFiniteSet(Submitted) /\ IsFiniteSet(Out)
  /\ Cardinality(Submitted) \in Nat /\ Cardinality(Out) \in Nat
<1>1. Submitted \subseteq Submissions /\ Out \subseteq Submissions BY DEF Submitted, Out
<1>2. IsFiniteSet(Submissions) BY SubmissionAssumption
<1>3. IsFiniteSet(Submitted) /\ IsFiniteSet(Out) BY <1>1, <1>2, FS_Subset
<1> QED BY <1>2, <1>3, FS_CardinalityType

-----------------------------------------------------------------------------
(* Steps after which every hash is where it was.                           *)

SamePlaces ==
  \A q \in Rounds : /\ Len(disputeRounds'[q]) = Len(disputeRounds[q])
                    /\ \A j \in Indices(q) : submissionAt(q, j)' = submissionAt(q, j)

\* Rounds of the same length have the same indices.
LEMMA SameIndices ==
  ASSUME SamePlaces
  PROVE  \A q \in Rounds : /\ Indices(q)' = Indices(q)
                           /\ \A j : InRound(q, j)' <=> InRound(q, j)
BY DEF SamePlaces, Indices, InRound

\* Who is where does not change when no first submitter does.
LEMMA SameHolders ==
  ASSUME TypeOK, Known,
         \A q \in Rounds : Len(disputeRounds'[q]) = Len(disputeRounds[q]),
         \A q \in Rounds : \A j \in Indices(q) :
            entryAt(q, j)'.firstSubmitter = entryAt(q, j).firstSubmitter,
         \A m \in Miners : submission[m] # NoSubmission => submission'[m] = submission[m]
  PROVE  /\ SamePlaces
         /\ \A r \in Rounds : \A i \in Indices(r)' :
              entryAt(r, i)'.firstSubmitter # NoMiner
                => submission'[entryAt(r, i)'.firstSubmitter] # NoSubmission
<1>1. ASSUME NEW q \in Rounds, NEW j \in Indices(q)
      PROVE  /\ submissionAt(q, j)' = submissionAt(q, j)
             /\ entryAt(q, j)'.firstSubmitter # NoMiner
                => submission'[entryAt(q, j)'.firstSubmitter] # NoSubmission
  <2>1. entryAt(q, j) \in EntryType BY EntryFacts
  <2>2. entryAt(q, j).firstSubmitter \in Miners \cup {NoMiner} BY <2>1 DEF EntryType
  <2>3. entryAt(q, j).firstSubmitter # NoMiner
          => submission[entryAt(q, j).firstSubmitter] # NoSubmission BY DEF Known
  <2> QED BY <2>2, <2>3 DEF submissionAt, submissionOf
<1>2. SamePlaces BY <1>1 DEF SamePlaces
<1>3. \A q \in Rounds : Indices(q)' = Indices(q) BY <1>2, SameIndices
<1> QED BY <1>1, <1>2, <1>3

\* Struct survives a step that moves no hash and counts none.
LEMMA QuietStruct ==
  ASSUME TypeOK, Struct, SamePlaces, Known',
         Submitted' = Submitted, timesInvalidated' = timesInvalidated,
         nUniqueSubmittedHashes' = nUniqueSubmittedHashes,
         nInvalidatedHashes' = nInvalidatedHashes,
         nHashesCompletedChallengeRound' = nHashesCompletedChallengeRound,
         firstIncompleteRound' = firstIncompleteRound, settledAgain' = settledAgain,
         submissionWindowClosed => submissionWindowClosed'
  PROVE  Struct'
<1>1. Out' = Out BY DEF Out
<1>2. \A q \in Rounds : /\ Indices(q)' = Indices(q)
                        /\ \A j : InRound(q, j)' <=> InRound(q, j)
                        /\ Len(disputeRounds'[q]) = Len(disputeRounds[q])
  BY SameIndices DEF SamePlaces
<1>3. \A q \in Rounds : \A j \in Indices(q) :
        /\ submissionAt(q, j)' = submissionAt(q, j)
        /\ Held(q, j)' <=> Held(q, j)
        /\ Gone(q, j)' <=> Gone(q, j)
  BY <1>1 DEF SamePlaces, Held, Gone
<1>4. \A q \in Rounds : /\ AllGone(q)' <=> AllGone(q)
                        /\ GoneIn(q)' = GoneIn(q)
  BY <1>2, <1>3 DEF AllGone, GoneIn
<1>5. OnePlace' BY <1>2, <1>3 DEF OnePlace, Struct
<1>6. EachPlaced' BY <1>2, <1>3 DEF EachPlaced, Struct
<1>11. Numbered' BY <1>2, RoundFacts DEF Numbered, Struct
<1>7. ASSUME Race PROVE PairsTogether'
  <2> SUFFICES ASSUME NEW r \in Rounds, NEW i \in Indices(r), InRound(r, getOpponentIdx(i))
               PROVE  Gone(r, i)' <=> Gone(r, getOpponentIdx(i))'
    BY <1>2 DEF PairsTogether
  <2>1. getOpponentIdx(i) \in Indices(r) BY DEF InRound
  <2> QED BY <1>3, <1>7, <2>1 DEF PairsTogether, Race
<1>8. ASSUME Race PROVE LoneEntries' BY <1>2, <1>3, <1>4, <1>8 DEF LoneEntries, Race
<1>9. ASSUME Race PROVE Counted' BY <1>1, <1>4, <1>9 DEF Counted, Race
<1>10. ASSUME Race PROVE RoundsBehind' BY <1>2, <1>4, <1>10 DEF RoundsBehind, Race
<1> QED BY <1>5, <1>6, <1>7, <1>8, <1>9, <1>10, <1>11 DEF Struct, Race

\* The indices of a round are the numbers below its length.
LEMMA IndexFacts ==
  ASSUME TypeOK, NEW r \in Rounds
  PROVE  /\ Len(disputeRounds[r]) \in Nat
         /\ Indices(r) \subseteq Nat /\ IsFiniteSet(Indices(r))
         /\ Cardinality(Indices(r)) = Len(disputeRounds[r])
         /\ \A j : j \in Indices(r) <=> j \in Nat /\ j < Len(disputeRounds[r])
         /\ \A j : InRound(r, j) <=> j \in Indices(r)
         /\ IsFiniteSet(GoneIn(r)) /\ Cardinality(GoneIn(r)) \in Nat
         /\ GoneIn(r) \subseteq Indices(r)
<1> DEFINE n == Len(disputeRounds[r])
<1>1. n \in Nat BY DEF TypeOK
<1> HIDE DEF n
<1>2. Indices(r) = 0 .. n - 1 BY DEF Indices, n
<1>3. IsFiniteSet(0 .. n - 1) BY <1>1, FS_Interval
<1>4. Cardinality(0 .. n - 1) = n
  <2>1. Cardinality(0 .. n - 1) = IF 0 > n - 1 THEN 0 ELSE (n - 1) - 0 + 1
    BY <1>1, FS_Interval
  <2> QED BY <1>1, <2>1
<1>5. GoneIn(r) \subseteq Indices(r) BY DEF GoneIn
<1>6. IsFiniteSet(GoneIn(r)) /\ Cardinality(GoneIn(r)) \in Nat
  BY <1>2, <1>3, <1>5, FS_Subset, FS_CardinalityType
<1>7. \A j : j \in 0 .. n - 1 <=> j \in Nat /\ j < n BY <1>1
<1> QED BY <1>1, <1>2, <1>3, <1>4, <1>5, <1>6, <1>7 DEF InRound, n

\* A lone entry that is gone leaves nothing in the race behind it.
LEMMA LoneBehind ==
  ASSUME TypeOK, Race, NEW r \in Rounds, NEW i \in Indices(r), ~Gone(r, i),
         NEW q \in Rounds, NEW j \in Indices(q), r < q, ~InRound(q, getOpponentIdx(j))
  PROVE  ~Gone(q, j)
BY DEF Race, LoneEntries, AllGone

-----------------------------------------------------------------------------
(* A new hash takes a place in round 0.                                    *)

\* Struct survives the first submission of a hash.
LEMMA SubmitStruct ==
  ASSUME TypeOK, Struct, Known', NEW s \in Submissions, s \notin Submitted,
         Submitted' = Submitted \cup {s}, timesInvalidated' = timesInvalidated,
         nUniqueSubmittedHashes' = nUniqueSubmittedHashes + 1,
         nInvalidatedHashes' = nInvalidatedHashes,
         nHashesCompletedChallengeRound' = nHashesCompletedChallengeRound,
         firstIncompleteRound' = firstIncompleteRound, settledAgain' = settledAgain,
         submissionWindowClosed' = submissionWindowClosed,
         ~submissionWindowClosed \/ nUniqueSubmittedHashes = 0,
         NEW n, n = Len(disputeRounds[0]),
         \A q \in Rounds : Len(disputeRounds'[q]) = IF q = 0 THEN n + 1 ELSE Len(disputeRounds[q]),
         \A q \in Rounds : \A j \in Indices(q) : submissionAt(q, j)' = submissionAt(q, j),
         submissionAt(0, n)' = s
  PROVE  Struct'
<1>1. Out' = Out BY DEF Out
<1>2. n \in Nat /\ 0 \in Rounds /\ s # NoSubmission /\ s \notin Out
  BY RoundFacts, IndexFacts, NoHash DEF Struct, Known
<1>3. ASSUME NEW q \in Rounds, NEW j
      PROVE  /\ InRound(q, j)' <=> j \in Indices(q)'
             /\ j \in Indices(q)' <=> j \in Indices(q) \/ (q = 0 /\ j = n)
             /\ InRound(q, j) <=> j \in Indices(q)
  <2>1. Len(disputeRounds[q]) \in Nat BY IndexFacts
  <2>2. q = 0 => Len(disputeRounds[q]) = n OBVIOUS
  <2>3. Indices(q)' = IF q = 0 THEN 0 .. (n + 1) - 1 ELSE 0 .. Len(disputeRounds[q]) - 1
    BY DEF Indices
  <2> QED BY <1>2, <2>1, <2>2, <2>3 DEF Indices, InRound
<1>4. n \notin Indices(0) BY <1>2, IndexFacts
<1>5. \A q \in Rounds : \A j \in Indices(q) :
        /\ submissionAt(q, j)' = submissionAt(q, j)
        /\ Held(q, j)' <=> Held(q, j)
        /\ Gone(q, j)' <=> Gone(q, j)
        /\ Held(q, j) => submissionAt(q, j) # s
  <2> TAKE q \in Rounds
  <2> TAKE j \in Indices(q)
  <2>1. Held(q, j) => submissionAt(q, j) \in Submitted BY HeldFacts DEF Struct
  <2> QED BY <1>1, <2>1 DEF Held, Gone
<1>6. ~Gone(0, n)' /\ Held(0, n)' BY <1>1, <1>2 DEF Gone, Held
<1>7. ASSUME Race
      PROVE  \A q \in Rounds : \A j \in Indices(q) : ~InRound(q, getOpponentIdx(j)) => ~Gone(q, j)
  BY <1>7, IndexFacts DEF Race, LoneEntries, RoundsBehind
<1>8. OnePlace'
  <2> SUFFICES ASSUME NEW r \in Rounds, NEW q \in Rounds,
                      NEW i \in Indices(r)', NEW j \in Indices(q)',
                      submissionAt(r, i)' = submissionAt(q, j)', Held(r, i)'
               PROVE  r = q /\ i = j
    BY DEF OnePlace
  <2>1. CASE i \in Indices(r) /\ j \in Indices(q) BY <1>5, <2>1 DEF OnePlace, Struct
  <2>2. CASE i \notin Indices(r) /\ j \notin Indices(q) BY <1>3, <2>2
  <2>3. CASE i \in Indices(r) /\ j \notin Indices(q)
    <3>1. q = 0 /\ j = n BY <1>3, <2>3
    <3> QED BY <1>5, <2>3, <3>1
  <2>4. CASE i \notin Indices(r) /\ j \in Indices(q)
    <3>1. r = 0 /\ i = n BY <1>3, <2>4
    <3>2. submissionAt(q, j) = s BY <1>5, <2>4, <3>1
    <3>3. ~Held(q, j) BY <1>5, <2>4, <3>2
    <3> QED BY <1>2, <3>2, <3>3 DEF Held
  <2> QED BY <2>1, <2>2, <2>3, <2>4
<1>9. EachPlaced'
  <2> SUFFICES ASSUME NEW t \in Submitted'
               PROVE  \E r \in Rounds : \E i \in Indices(r)' : submissionAt(r, i)' = t
    BY DEF EachPlaced
  <2>1. CASE t = s BY <1>2, <1>3, <2>1
  <2>2. CASE t \in Submitted BY <1>3, <1>5, <2>2 DEF EachPlaced, Struct
  <2> QED BY <2>1, <2>2
<1>10. ASSUME Race PROVE PairsTogether'
  <2> SUFFICES ASSUME NEW r \in Rounds, NEW i \in Indices(r)', InRound(r, getOpponentIdx(i))'
               PROVE  Gone(r, i)' <=> Gone(r, getOpponentIdx(i))'
    BY DEF PairsTogether
  <2> DEFINE o == getOpponentIdx(i)
  <2>1. i \in Nat BY <1>2, <1>3, IndexFacts
  <2>2. o # i /\ getOpponentIdx(o) = i BY <2>1, OpponentFacts
  <2> HIDE DEF o
  <2>3. CASE i \in Indices(r) /\ o \in Indices(r)
    BY <1>3, <1>5, <1>10, <2>3 DEF PairsTogether, Race, o
  <2>4. CASE i \in Indices(r) /\ o \notin Indices(r)
    <3>1. r = 0 /\ o = n BY <1>3, <2>4 DEF o
    <3>2. ~Gone(r, i) BY <1>3, <1>7, <1>10, <2>4 DEF o
    <3> QED BY <1>5, <1>6, <2>4, <3>1, <3>2 DEF o
  <2>5. CASE i \notin Indices(r)
    <3>1. r = 0 /\ i = n BY <1>3, <2>5
    <3>2. o \in Indices(r) BY <1>3, <2>2, <3>1 DEF o
    <3>3. ~Gone(r, o) BY <1>3, <1>7, <1>10, <2>2, <2>5, <3>2
    <3> QED BY <1>5, <1>6, <3>1, <3>2, <3>3 DEF o
  <2> QED BY <2>3, <2>4, <2>5
<1>11. ASSUME Race PROVE LoneEntries'
  <2> SUFFICES ASSUME NEW r \in Rounds, NEW i \in Indices(r)', ~InRound(r, getOpponentIdx(i))',
                      Gone(r, i)'
               PROVE  FALSE
    BY DEF LoneEntries
  <2>1. i \in Indices(r) BY <1>3, <1>6
  <2>2. ~InRound(r, getOpponentIdx(i)) BY <1>3
  <2> QED BY <1>5, <1>7, <1>11, <2>1, <2>2
<1>12. Cardinality(Submitted') = Cardinality(Submitted) + 1
  BY FiniteSets_, FS_AddElement
<1>14. Numbered' BY <1>2, <1>12 DEF Numbered, Struct
<1>15. ASSUME Race PROVE Counted'
  <2>2. \A q \in Rounds : GoneIn(q)' = GoneIn(q) BY <1>3, <1>5, <1>6 DEF GoneIn
  <2>4. /\ nInvalidatedHashes = Cardinality(Out)
        /\ \A r \in Rounds : nHashesCompletedChallengeRound[r] = Cardinality(GoneIn(r))
    BY <1>15 DEF Counted, Race
  <2> QED BY <1>1, <2>2, <2>4 DEF Counted
<1>13. ASSUME Race PROVE RoundsBehind'
  <2>1. firstIncompleteRound = 0
    <3>1. firstIncompleteRound \in Nat /\ nUniqueSubmittedHashes \in Nat
      BY RoundFacts DEF TypeOK
    <3>2. ~(firstIncompleteRound > 0) BY <1>13, <3>1 DEF RoundsBehind, Race
    <3> QED BY <3>1, <3>2
  <2>2. nUniqueSubmittedHashes + 1 > 0 BY DEF TypeOK
  <2> QED BY <2>1, <2>2, RoundFacts DEF RoundsBehind
<1> QED BY <1>8, <1>9, <1>10, <1>11, <1>13, <1>14, <1>15 DEF Struct, Race

\* Two new elements make a set larger by two.
LEMMA AddTwo ==
  ASSUME NEW S, IsFiniteSet(S), NEW x, NEW y, x \notin S, y \notin S, x # y
  PROVE  /\ IsFiniteSet(S \cup {x, y})
         /\ Cardinality(S \cup {x, y}) = Cardinality(S) + 2
<1>1. IsFiniteSet(S \cup {x}) /\ Cardinality(S \cup {x}) = Cardinality(S) + 1
  BY FS_AddElement
<1>2. y \notin S \cup {x} OBVIOUS
<1>3. /\ IsFiniteSet((S \cup {x}) \cup {y})
      /\ Cardinality((S \cup {x}) \cup {y}) = Cardinality(S \cup {x}) + 1
  BY <1>1, <1>2, FS_AddElement
<1>4. (S \cup {x}) \cup {y} = S \cup {x, y} OBVIOUS
<1>5. Cardinality(S) \in Nat BY FS_CardinalityType
<1>6. /\ IsFiniteSet(S \cup {x, y})
      /\ Cardinality(S \cup {x, y}) = Cardinality(S \cup {x}) + 1
  BY <1>3, <1>4
<1> QED BY <1>1, <1>5, <1>6

-----------------------------------------------------------------------------
(* Both of a pair that is level are invalidated.                           *)

\* Race survives the invalidation of both hashes of a pair.
LEMMA LevelRace ==
  ASSUME TypeOK, Struct, Race, SamePlaces,
         NEW r \in Rounds, NEW i \in Indices(r), NEW o, o = getOpponentIdx(i), o \in Indices(r),
         Held(r, i), Held(r, o), ~Gone(r, i),
         \A s \in Submissions : s \in Out' <=> s \in Out \/ s \in {submissionAt(r, i), submissionAt(r, o)},
         nUniqueSubmittedHashes' = nUniqueSubmittedHashes,
         nInvalidatedHashes' = nInvalidatedHashes + 2,
         nHashesCompletedChallengeRound' =
           [nHashesCompletedChallengeRound EXCEPT ![r] = nHashesCompletedChallengeRound[r] + 2],
         firstIncompleteRound' = firstIncompleteRound,
         submissionWindowClosed' = submissionWindowClosed
  PROVE  Race'
<1> DEFINE s == submissionAt(r, i)
           t == submissionAt(r, o)
<1>1. i \in Nat /\ o # i /\ getOpponentIdx(o) = i /\ InRound(r, o) /\ InRound(r, i)
  BY IndexFacts, OpponentFacts
<1>2. ~Gone(r, o) BY <1>1 DEF Race, PairsTogether
<1>3. s \in Submissions /\ t \in Submissions /\ s \notin Out /\ t \notin Out /\ s # t
  <2>1. s # t BY <1>1 DEF Struct, OnePlace
  <2> QED BY <1>2, <2>1, HeldFacts DEF Struct, Gone
<1>4. Out' = Out \cup {s, t}
  <2>1. Out \subseteq Submissions /\ Out' \subseteq Submissions BY DEF Out
  <2> QED BY <1>3, <2>1
<1>5. \A q \in Rounds : /\ Indices(q)' = Indices(q)
                        /\ \A j : InRound(q, j)' <=> InRound(q, j)
                        /\ Len(disputeRounds'[q]) = Len(disputeRounds[q])
  BY SameIndices DEF SamePlaces
<1>6. ASSUME NEW q \in Rounds, NEW j \in Indices(q)
      PROVE  /\ submissionAt(q, j)' = submissionAt(q, j)
             /\ Held(q, j)' <=> Held(q, j)
             /\ Gone(q, j)' <=> Gone(q, j) \/ (q = r /\ j \in {i, o})
  <2>1. submissionAt(q, j)' = submissionAt(q, j) BY DEF SamePlaces
  <2>2. Held(q, j)' <=> Held(q, j) BY <2>1 DEF Held
  <2>3. submissionAt(q, j) \in {s, t} <=> (q = r /\ j \in {i, o})
    BY DEF Struct, OnePlace, Held
  <2>4. Gone(q, j)' <=> submissionAt(q, j) \in (Out \cup {s, t}) \cup {NoSubmission}
    BY <1>4, <2>1 DEF Gone
  <2> HIDE DEF s, t
  <2> QED BY <2>1, <2>2, <2>3, <2>4 DEF Gone
<1>7. \A q \in Rounds : AllGone(q) => AllGone(q)' BY <1>5, <1>6 DEF AllGone
<1>10. PairsTogether'
  <2> SUFFICES ASSUME NEW q \in Rounds, NEW j \in Indices(q), InRound(q, getOpponentIdx(j))
               PROVE  Gone(q, j)' <=> Gone(q, getOpponentIdx(j))'
    BY <1>5 DEF PairsTogether
  <2> DEFINE p == getOpponentIdx(j)
  <2>1. p \in Indices(q) BY IndexFacts
  <2>2. Gone(q, j) <=> Gone(q, p) BY DEF PairsTogether, Race
  <2>3. j \in Nat /\ getOpponentIdx(p) = j BY IndexFacts, OpponentFacts
  <2>4. j \in {i, o} <=> p \in {i, o} BY <1>1, <2>3
  <2> HIDE DEF p
  <2> QED BY <1>6, <2>1, <2>2, <2>4 DEF p
<1>11. LoneEntries'
  <2> SUFFICES ASSUME NEW q \in Rounds, NEW j \in Indices(q), ~InRound(q, getOpponentIdx(j)),
                      Gone(q, j)'
               PROVE  /\ ~Held(q, j)' /\ Len(disputeRounds'[q]) > 1 /\ submissionWindowClosed'
                      /\ \A p \in Rounds : p < q => AllGone(p)'
    BY <1>5 DEF LoneEntries
  <2>1. ~(q = r /\ j \in {i, o}) BY <1>1
  <2>2. Gone(q, j) BY <1>6, <2>1
  <2> QED BY <1>5, <1>6, <1>7, <2>2 DEF LoneEntries, Race
<1>12. Counted'
  <2>1. Cardinality(Out') = Cardinality(Out) + 2 BY <1>3, <1>4, FiniteSets_, AddTwo
  <2>2. i \notin GoneIn(r) /\ o \notin GoneIn(r) BY <1>2 DEF GoneIn
  <2>3. GoneIn(r)' = GoneIn(r) \cup {i, o} BY <1>5, <1>6 DEF GoneIn
  <2>4. Cardinality(GoneIn(r)') = Cardinality(GoneIn(r)) + 2
    BY <1>1, <2>2, <2>3, IndexFacts, AddTwo
  <2>5. \A q \in Rounds : q # r => GoneIn(q)' = GoneIn(q) BY <1>5, <1>6 DEF GoneIn
  <2>6. nHashesCompletedChallengeRound \in [Rounds -> Nat] BY DEF TypeOK
  <2>7. \A q \in Rounds : nHashesCompletedChallengeRound'[q] = Cardinality(GoneIn(q)')
    <3> TAKE q \in Rounds
    <3>1. nHashesCompletedChallengeRound[q] = Cardinality(GoneIn(q)) BY DEF Counted, Race
    <3>2. CASE q = r BY <2>4, <2>6, <3>1, <3>2
    <3>3. CASE q # r BY <2>5, <2>6, <3>1, <3>3
    <3> QED BY <3>2, <3>3
  <2>8. nInvalidatedHashes = Cardinality(Out)
    BY DEF Counted, Race
  <2> QED BY <2>1, <2>7, <2>8 DEF Counted
<1>13. RoundsBehind' BY <1>5, <1>7 DEF RoundsBehind, Race
<1> QED BY <1>10, <1>11, <1>12, <1>13 DEF Race

-----------------------------------------------------------------------------
(* The hash at place o of round r moves on, and the places of gone leave   *)
(* the race with it: o and, if it has one, its opponent.                   *)

Leaving(r, o, gone) ==
  /\ \A j \in gone : ~Gone(r, j)
  /\ \A j \in gone : InRound(r, getOpponentIdx(j)) => getOpponentIdx(j) \in gone
  /\ \A j \in gone : j # o => InRound(r, getOpponentIdx(j))
  /\ \A s \in Submissions :
       s \in Out' <=> s \in Out \/ \E j \in gone : j # o /\ submissionAt(r, j) = s
  /\ nHashesCompletedChallengeRound' =
       [nHashesCompletedChallengeRound EXCEPT ![r] =
          nHashesCompletedChallengeRound[r] + Cardinality(gone)]

\* A hash that moves on is at one place again, whether it is in the race or not.
LEMMA MovePlaces ==
  ASSUME TypeOK, Struct, NEW r \in PlayableRounds, NEW o \in Indices(r),
         NEW n, n = Len(disputeRounds[r + 1]),
         \A q \in Rounds : Len(disputeRounds'[q]) = IF q = r + 1 THEN n + 1 ELSE Len(disputeRounds[q]),
         \A q \in Rounds : \A j \in Indices(q) :
            submissionAt(q, j)' = IF q = r /\ j = o THEN NoSubmission ELSE submissionAt(q, j),
         submissionAt(r + 1, n)' = submissionAt(r, o),
         Submitted' = Submitted, nUniqueSubmittedHashes' = nUniqueSubmittedHashes
  PROVE  OnePlace' /\ EachPlaced' /\ Numbered'
<1> DEFINE s == submissionAt(r, o)
<1>1. r \in Rounds /\ r + 1 \in Rounds /\ r # r + 1 /\ r \in Nat BY RoundFacts
<1>2. n \in Nat /\ n \notin Indices(r + 1) BY <1>1, IndexFacts
<1>3. ASSUME NEW q \in Rounds, NEW j
      PROVE  j \in Indices(q)' <=> j \in Indices(q) \/ (q = r + 1 /\ j = n)
  <2>1. Len(disputeRounds[q]) \in Nat BY IndexFacts
  <2>2. q = r + 1 => Len(disputeRounds[q]) = n OBVIOUS
  <2>3. Indices(q)' = IF q = r + 1 THEN 0 .. (n + 1) - 1 ELSE 0 .. Len(disputeRounds[q]) - 1
    BY DEF Indices
  <2>4. CASE q = r + 1
    <3>1. Indices(q)' = 0 .. n /\ Indices(q) = 0 .. n - 1 BY <1>2, <2>2, <2>3, <2>4 DEF Indices
    <3> QED BY <1>2, <2>4, <3>1
  <2>5. CASE q # r + 1 BY <2>3, <2>5 DEF Indices
  <2> QED BY <2>4, <2>5
<1>4. ASSUME NEW q \in Rounds, NEW j \in Indices(q)
      PROVE  /\ Held(q, j)' <=> Held(q, j) /\ ~(q = r /\ j = o)
             /\ Held(q, j)' => submissionAt(q, j)' = submissionAt(q, j)
             /\ Held(r, o) /\ submissionAt(q, j) = s => q = r /\ j = o
  <2>1. Held(r, o) /\ submissionAt(q, j) = s => q = r /\ j = o
    BY <1>1 DEF Struct, OnePlace, Held
  <2> QED BY <2>1 DEF Held
<1>5. OnePlace'
  <2> SUFFICES ASSUME NEW p \in Rounds, NEW q \in Rounds,
                      NEW i \in Indices(p)', NEW j \in Indices(q)',
                      submissionAt(p, i)' = submissionAt(q, j)', Held(p, i)'
               PROVE  p = q /\ i = j
    BY DEF OnePlace
  <2>0. Held(q, j)' BY DEF Held
  <2>1. CASE i \in Indices(p) /\ j \in Indices(q)
    <3>1. Held(p, i) /\ Held(q, j) /\ submissionAt(p, i) = submissionAt(q, j)
      BY <1>4, <2>0, <2>1
    <3> QED BY <2>1, <3>1 DEF OnePlace, Struct
  <2>2. CASE i \notin Indices(p) /\ j \notin Indices(q) BY <1>3, <2>2
  <2>3. CASE i \in Indices(p) /\ j \notin Indices(q)
    <3>1. q = r + 1 /\ j = n BY <1>3, <2>3
    <3>2. submissionAt(p, i) = s /\ Held(p, i) BY <1>4, <2>3, <3>1
    <3>3. Held(r, o) BY <3>2 DEF Held
    <3> QED BY <1>4, <2>3, <3>2, <3>3
  <2>4. CASE i \notin Indices(p) /\ j \in Indices(q)
    <3>1. p = r + 1 /\ i = n BY <1>3, <2>4
    <3>2. submissionAt(q, j) = s /\ Held(q, j) BY <1>4, <2>0, <2>4, <3>1
    <3>3. Held(r, o) BY <3>2 DEF Held
    <3> QED BY <1>4, <2>0, <2>4, <3>2, <3>3
  <2> QED BY <2>1, <2>2, <2>3, <2>4
<1>6. EachPlaced'
  <2> SUFFICES ASSUME NEW t \in Submitted
               PROVE  \E q \in Rounds : \E i \in Indices(q)' : submissionAt(q, i)' = t
    BY DEF EachPlaced
  <2>1. PICK q \in Rounds : \E i \in Indices(q) : submissionAt(q, i) = t
    BY DEF EachPlaced, Struct
  <2>2. PICK i \in Indices(q) : submissionAt(q, i) = t BY <2>1
  <2>3. CASE q = r /\ i = o BY <1>1, <1>3, <2>2, <2>3
  <2>4. CASE ~(q = r /\ i = o) BY <1>3, <2>2, <2>4
  <2> QED BY <2>3, <2>4
<1>7. Numbered'
  <2>1. Len(disputeRounds'[0]) = Len(disputeRounds[0]) BY <1>1, RoundFacts
  <2> QED BY <2>1 DEF Numbered, Struct
<1> QED BY <1>5, <1>6, <1>7

\* Race survives a hash moving on while the others of its pair go out.
LEMMA MoveRace ==
  ASSUME TypeOK, Struct, Race,
         NEW r \in PlayableRounds, NEW o \in Indices(r), ~Gone(r, o),
         NEW gone \in SUBSET Indices(r), o \in gone,
         Leaving(r, o, gone),
         ~InRound(r, getOpponentIdx(o)) =>
            /\ Len(disputeRounds[r]) > 1 /\ submissionWindowClosed
            /\ \A q \in Rounds : q < r => AllGone(q),
         NEW n, n = Len(disputeRounds[r + 1]),
         \A q \in Rounds : Len(disputeRounds'[q]) = IF q = r + 1 THEN n + 1 ELSE Len(disputeRounds[q]),
         \A q \in Rounds : \A j \in Indices(q) :
            submissionAt(q, j)' = IF q = r /\ j = o THEN NoSubmission ELSE submissionAt(q, j),
         submissionAt(r + 1, n)' = submissionAt(r, o),
         nUniqueSubmittedHashes' = nUniqueSubmittedHashes,
         nInvalidatedHashes' = Cardinality(Out'),
         \/ firstIncompleteRound' = firstIncompleteRound
         \/ /\ firstIncompleteRound' = r /\ submissionWindowClosed
            /\ \A q \in Rounds : q < r => AllGone(q),
         submissionWindowClosed' = submissionWindowClosed
  PROVE  Race'
<1> DEFINE s == submissionAt(r, o)
<1>17. \A j \in gone : ~Gone(r, j) BY DEF Leaving
<1>18. \A j \in gone : InRound(r, getOpponentIdx(j)) => getOpponentIdx(j) \in gone
  BY DEF Leaving
<1>19. \A j \in gone : j # o => InRound(r, getOpponentIdx(j)) BY DEF Leaving
<1>20. \A t \in Submissions :
         t \in Out' <=> t \in Out \/ \E j \in gone : j # o /\ submissionAt(r, j) = t
  BY DEF Leaving
<1>21. nHashesCompletedChallengeRound' =
         [nHashesCompletedChallengeRound EXCEPT ![r] =
            nHashesCompletedChallengeRound[r] + Cardinality(gone)]
  BY DEF Leaving
<1>1. r \in Rounds /\ r + 1 \in Rounds /\ r # r + 1 /\ r \in Nat /\ Rounds \subseteq Nat
  BY RoundFacts
<1>2. n \in Nat /\ n \notin Indices(r + 1) BY <1>1, IndexFacts
<1>3. ASSUME NEW q \in Rounds, NEW j
      PROVE  /\ InRound(q, j)' <=> j \in Indices(q)'
             /\ j \in Indices(q)' <=> j \in Indices(q) \/ (q = r + 1 /\ j = n)
             /\ InRound(q, j) <=> j \in Indices(q)
  <2>1. Len(disputeRounds[q]) \in Nat BY IndexFacts
  <2>2. q = r + 1 => Len(disputeRounds[q]) = n OBVIOUS
  <2>3. Indices(q)' = IF q = r + 1 THEN 0 .. (n + 1) - 1 ELSE 0 .. Len(disputeRounds[q]) - 1
    BY DEF Indices
  <2> QED BY <1>2, <2>1, <2>2, <2>3 DEF Indices, InRound
<1>4. s \in Submissions /\ s \notin Out /\ s # NoSubmission /\ Held(r, o)
  <2>1. Held(r, o) BY DEF Gone, Held
  <2> QED BY <1>1, <2>1, HeldFacts DEF Struct, Gone
<1>5. Out \subseteq Out' /\ Out' \subseteq Submissions BY <1>20 DEF Out
<1>6. ASSUME NEW q \in Rounds, NEW j \in Indices(q)
      PROVE  /\ Held(q, j)' <=> Held(q, j) /\ ~(q = r /\ j = o)
             /\ Gone(q, j)' <=> Gone(q, j) \/ (q = r /\ j \in gone)
             /\ submissionAt(q, j) = s <=> q = r /\ j = o
  <2>1. submissionAt(q, j) = s <=> q = r /\ j = o
    BY <1>1, <1>4 DEF Struct, OnePlace, Held
  <2>2. Held(q, j)' <=> Held(q, j) /\ ~(q = r /\ j = o) BY DEF Held
  <2>3. Gone(q, j)' <=> submissionAt(q, j)' \in Out' \/ submissionAt(q, j)' = NoSubmission
    BY DEF Gone
  <2>4. CASE q = r /\ j = o BY <2>1, <2>2, <2>3, <2>4
  <2>5. CASE ~(q = r /\ j = o) /\ ~Held(q, j)
    <3>1. Gone(q, j) /\ Gone(q, j)' BY <2>3, <2>5 DEF Held, Gone
    <3> QED BY <2>1, <2>2, <3>1
  <2>6. CASE ~(q = r /\ j = o) /\ Held(q, j)
    <3>1. submissionAt(q, j)' = submissionAt(q, j) /\ submissionAt(q, j) \in Submissions
          /\ submissionAt(q, j) # NoSubmission
      BY <2>6, HeldFacts DEF Struct
    <3>2. submissionAt(q, j) \in Out'
            <=> submissionAt(q, j) \in Out \/ \E k \in gone : k # o /\ submissionAt(r, k) = submissionAt(q, j)
      BY <1>20, <3>1
    <3>3. (\E k \in gone : k # o /\ submissionAt(r, k) = submissionAt(q, j)) <=> (q = r /\ j \in gone)
      BY <1>1, <2>6 DEF Struct, OnePlace
    <3> QED BY <2>1, <2>2, <2>3, <3>1, <3>2, <3>3 DEF Gone
  <2> QED BY <2>4, <2>5, <2>6
<1>7. Held(r + 1, n)' /\ ~Gone(r + 1, n)'
  <2>1. s \notin Out'
    <3>1. \A j \in gone : j # o => submissionAt(r, j) # s BY <1>1, <1>6
    <3> QED BY <1>4, <1>20, <3>1
  <2> QED BY <1>4, <2>1 DEF Held, Gone
<1>8. ~AllGone(r) BY DEF AllGone
<1>9. \A q \in Rounds : q # r + 1 /\ AllGone(q) => AllGone(q)' BY <1>3, <1>6 DEF AllGone
<1>10. \A q \in Rounds, j \in Nat :
         r < q /\ j \in Indices(q) /\ ~InRound(q, getOpponentIdx(j)) => ~Gone(q, j)
  BY <1>1, LoneBehind
<1>13. PairsTogether'
  <2> SUFFICES ASSUME NEW q \in Rounds, NEW i \in Indices(q)', InRound(q, getOpponentIdx(i))'
               PROVE  Gone(q, i)' <=> Gone(q, getOpponentIdx(i))'
    BY DEF PairsTogether
  <2> DEFINE p == getOpponentIdx(i)
  <2>1. i \in Nat BY <1>2, <1>3, IndexFacts
  <2>2. p \in Nat /\ p # i /\ getOpponentIdx(p) = i BY <2>1, OpponentFacts
  <2> HIDE DEF p
  <2>3. CASE i \in Indices(q) /\ p \in Indices(q)
    <3>1. Gone(q, i) <=> Gone(q, p) BY <1>3, <2>3 DEF PairsTogether, Race, p
    <3>2. q = r => (i \in gone <=> p \in gone)
      BY <1>3, <1>18, <2>2, <2>3 DEF p
    <3> QED BY <1>6, <2>3, <3>1, <3>2 DEF p
  <2>4. CASE i \in Indices(q) /\ p \notin Indices(q)
    <3>1. q = r + 1 /\ p = n BY <1>3, <2>4 DEF p
    <3>2. ~Gone(q, i) BY <1>1, <1>3, <1>10, <2>1, <2>4, <3>1 DEF p
    <3> QED BY <1>1, <1>6, <1>7, <2>4, <3>1, <3>2 DEF p
  <2>5. CASE i \notin Indices(q)
    <3>1. q = r + 1 /\ i = n BY <1>3, <2>5
    <3>2. p \in Indices(q) BY <1>3, <2>2, <3>1 DEF p
    <3>4. ~InRound(q, getOpponentIdx(p)) BY <1>3, <2>2, <2>5
    <3>5. r < q BY <1>1, <3>1
    <3>3. ~Gone(q, p) BY <1>10, <2>2, <3>2, <3>4, <3>5
    <3> QED BY <1>1, <1>6, <1>7, <3>1, <3>2, <3>3 DEF p
  <2> QED BY <2>3, <2>4, <2>5
<1>14. LoneEntries'
  <2> SUFFICES ASSUME NEW q \in Rounds, NEW j \in Indices(q)', ~InRound(q, getOpponentIdx(j))',
                      Gone(q, j)'
               PROVE  /\ ~Held(q, j)' /\ Len(disputeRounds'[q]) > 1 /\ submissionWindowClosed'
                      /\ \A p \in Rounds : p < q => AllGone(p)'
    BY DEF LoneEntries
  <2>1. j \in Indices(q) BY <1>3, <1>7
  <2>2. ~InRound(q, getOpponentIdx(j)) BY <1>3
  <2>3. Len(disputeRounds'[q]) >= Len(disputeRounds[q]) /\ Len(disputeRounds[q]) \in Nat
    <3>1. Len(disputeRounds[q]) \in Nat BY IndexFacts
    <3>2. Len(disputeRounds'[q]) = IF q = r + 1 THEN n + 1 ELSE Len(disputeRounds[q]) OBVIOUS
    <3> QED BY <1>2, <3>1, <3>2
  <2>4. CASE Gone(q, j)
    <3>1. /\ ~Held(q, j) /\ Len(disputeRounds[q]) > 1 /\ submissionWindowClosed
          /\ \A p \in Rounds : p < q => AllGone(p)
      BY <2>1, <2>2, <2>4 DEF LoneEntries, Race
    <3>2. \A p \in Rounds : p < q => p # r + 1 BY <1>1, <1>8, <3>1
    <3>3. Len(disputeRounds'[q]) > 1 BY <1>1, <1>2, <2>3, <3>1
    <3> QED BY <1>6, <1>9, <2>1, <3>1, <3>2, <3>3
  <2>5. CASE ~Gone(q, j)
    <3>1. q = r /\ j \in gone BY <1>6, <2>1, <2>5
    <3>2. j = o BY <1>19, <2>2, <3>1
    <3>3. /\ Len(disputeRounds[r]) > 1 /\ submissionWindowClosed
          /\ \A p \in Rounds : p < r => AllGone(p)
      BY <2>2, <3>1, <3>2
    <3>4. \A p \in Rounds : p < r => p # r + 1 BY <1>1
    <3>5. ~Held(q, j)' BY <1>6, <2>1, <3>1, <3>2
    <3>6. Len(disputeRounds'[q]) > 1 BY <1>1, <2>3, <3>1, <3>3
    <3> QED BY <1>9, <3>1, <3>3, <3>4, <3>5, <3>6
  <2> QED BY <2>4, <2>5
<1>15. Counted'
  <2>1. \A q \in Rounds : q # r => GoneIn(q)' = GoneIn(q) BY <1>3, <1>6, <1>7 DEF GoneIn
  <2>2. GoneIn(r)' = GoneIn(r) \cup gone BY <1>1, <1>3, <1>6 DEF GoneIn
  <2>3. GoneIn(r) \cap gone = {} BY <1>17 DEF GoneIn
  <2>4. IsFiniteSet(GoneIn(r)) /\ IsFiniteSet(gone) BY <1>1, IndexFacts, FS_Subset
  <2>5. Cardinality(GoneIn(r) \cup gone) = Cardinality(GoneIn(r)) + Cardinality(gone)
    <3>1. Cardinality(GoneIn(r) \cup gone)
            = Cardinality(GoneIn(r)) + Cardinality(gone) - Cardinality(GoneIn(r) \cap gone)
      BY <2>4, FS_Union
    <3>2. Cardinality(GoneIn(r) \cap gone) = 0 BY <2>3, FS_EmptySet
    <3>3. Cardinality(GoneIn(r)) \in Nat /\ Cardinality(gone) \in Nat BY <2>4, FS_CardinalityType
    <3> QED BY <3>1, <3>2, <3>3
  <2>6. nHashesCompletedChallengeRound \in [Rounds -> Nat] BY DEF TypeOK
  <2>7. \A q \in Rounds : nHashesCompletedChallengeRound'[q] = Cardinality(GoneIn(q)')
    <3> TAKE q \in Rounds
    <3>1. nHashesCompletedChallengeRound[q] = Cardinality(GoneIn(q)) BY DEF Counted, Race
    <3>2. CASE q = r
      <4>1. nHashesCompletedChallengeRound'[r] = Cardinality(GoneIn(r)) + Cardinality(gone)
        BY <1>1, <1>21, <2>6, <3>1, <3>2
      <4> QED BY <2>2, <2>5, <3>2, <4>1
    <3>3. CASE q # r BY <1>21, <2>1, <2>6, <3>1, <3>3
    <3> QED BY <3>2, <3>3
  <2> QED BY <2>7 DEF Counted
<1>16. RoundsBehind'
  <2>1. nUniqueSubmittedHashes > 0
    <3>1. Len(disputeRounds[r]) > 0 BY <1>1, IndexFacts
    <3> QED BY <1>1, <3>1 DEF RoundsBehind, Race
  <2>2. firstIncompleteRound \in Nat BY <1>1 DEF TypeOK
  <2>3. \A q \in Rounds : q < firstIncompleteRound' => AllGone(q) /\ q # r + 1
    <3>1. CASE firstIncompleteRound' = firstIncompleteRound
      <4>1. \A q \in Rounds : q < firstIncompleteRound => AllGone(q)
        BY DEF RoundsBehind, Race
      <4>2. ~(r < firstIncompleteRound) BY <1>1, <1>8, <4>1
      <4> QED BY <1>1, <2>2, <3>1, <4>1, <4>2
    <3>2. CASE /\ firstIncompleteRound' = r
               /\ \A q \in Rounds : q < r => AllGone(q)
      BY <1>1, <3>2
    <3> QED BY <3>1, <3>2
  <2>4. firstIncompleteRound' > 0 => submissionWindowClosed
    BY DEF RoundsBehind, Race
  <2> QED BY <1>9, <2>1, <2>3, <2>4 DEF RoundsBehind
<1> QED BY <1>13, <1>14, <1>15, <1>16 DEF Race

(***************************************************************************)
(* The disputes: how far an entry is, and what the two of a pair have in   *)
(* common.                                                                 *)
(***************************************************************************)

\* The update of leaf k gives that leaf of the tree of s.
Right(s, k) == k >= 1 /\ Tree[s][k] \in NextStates(Tree[s][k - 1], k)

\* An entry of s, where C has the submissions with a confirmed justification root
\* hash: its search has a step to make or has made it; at the end its result is to
\* be confirmed, is, or the challenge has been answered, which only a right update
\* allows.
Shape(e, s, C) ==
  IF s \in C
  THEN /\ OnPath(e.lowerBound, e.upperBound)
       /\ e.lowerBound # e.upperBound =>
            \/ e.challengeStepCompleted = due(e.lowerBound, e.upperBound)
            \/ e.challengeStepCompleted = due(e.lowerBound, e.upperBound) + 1
       /\ e.lowerBound = e.upperBound =>
            \/ e.challengeStepCompleted \in 2 .. Depth + 1
            \/ ResultStep(e.challengeStepCompleted)
            \/ ResultStep(e.challengeStepCompleted - 1) /\ Right(s, e.lowerBound)
  ELSE e.challengeStepCompleted = 0 /\ e.lowerBound = 0

Agree(s, t, k) == \A l \in 0 .. k - 1 : Tree[s][l] = Tree[t][l]

DifferIn(s, t, lb, ub) == \E l \in lb .. ub : Tree[s][l] # Tree[t][l]

\* Both search the same leaves, before which the trees agree and among which
\* they differ, and not both are through with the step.
Searching(e, f, s, t) ==
  /\ e.lowerBound = f.lowerBound /\ e.upperBound = f.upperBound
  /\ Agree(s, t, e.lowerBound) /\ DifferIn(s, t, e.lowerBound, e.upperBound)
  /\ e.lowerBound # e.upperBound =>
       ~(/\ e.challengeStepCompleted = due(e.lowerBound, e.upperBound) + 1
         /\ f.challengeStepCompleted = due(e.lowerBound, e.upperBound) + 1)

AtStart(e) == e.lowerBound = 0 /\ e.upperBound = NLeaves - 1

PairShape(e, f, s, t, C) ==
  /\ s \in C /\ t \in C => Searching(e, f, s, t)
  /\ s \in C /\ t \notin C => AtStart(e)
  /\ t \in C /\ s \notin C => AtStart(f)

\* The clock apart.
Alike(e, f) == /\ e.challengeStepCompleted = f.challengeStepCompleted
               /\ e.lowerBound = f.lowerBound /\ e.upperBound = f.upperBound

\* Shape looks at an entry's step and bounds only,
LEMMA AlikeShape ==
  ASSUME NEW e, NEW f, NEW s, NEW C, NEW D, Alike(f, e), Shape(e, s, C), s \in D <=> s \in C
  PROVE  Shape(f, s, D)
BY DEF Alike, Shape

\* and so does PairShape,
LEMMA AlikePair ==
  ASSUME NEW e, NEW f, NEW g, NEW h, NEW s, NEW t, NEW C, NEW D,
         Alike(g, e), Alike(h, f), PairShape(e, f, s, t, C),
         s \in D <=> s \in C, t \in D <=> t \in C
  PROVE  PairShape(g, h, s, t, D)
BY DEF Alike, PairShape, Searching, AtStart

\* which does not tell the two sides apart.
LEMMA PairSymmetric ==
  ASSUME NEW e, NEW f, NEW s, NEW t, NEW C, PairShape(e, f, s, t, C)
  PROVE  PairShape(f, e, t, s, C)
<1>1. ASSUME Searching(e, f, s, t) PROVE Searching(f, e, t, s)
  BY <1>1 DEF Searching, Agree, DifferIn
<1> QED BY <1>1 DEF PairShape

\* An entry at the start of a dispute.
Fresh(e, s, C) ==
  /\ e.lowerBound = 0
  /\ s \in C => e.upperBound = NLeaves - 1
  /\ e.challengeStepCompleted = IF s \in C THEN 1 ELSE 0

\* An entry that starts a pair is well shaped,
LEMMA FreshShape ==
  ASSUME NEW e, NEW s, NEW C, Fresh(e, s, C)
  PROVE  Shape(e, s, C)
<1>1. 0 # NLeaves - 1 BY Leaves
<1> QED BY <1>1, WholePath DEF Fresh, Shape

\* two submissions agree in the first state and differ somewhere,
LEMMA TreesDiffer ==
  ASSUME NEW s \in Confirmable, NEW t \in Confirmable, s # t
  PROVE  Agree(s, t, 0) /\ DifferIn(s, t, 0, NLeaves - 1)
<1>1. Tree[s] # Tree[t] BY TreeAssumption
<1>2. /\ Tree[s] = [k \in 0 .. NLeaves - 1 |-> Tree[s][k]]
      /\ Tree[t] = [k \in 0 .. NLeaves - 1 |-> Tree[t][k]]
  BY TreeAssumption
<1>3. \E k \in 0 .. NLeaves - 1 : Tree[s][k] # Tree[t][k]
  <2> SUFFICES ASSUME \A k \in 0 .. NLeaves - 1 : Tree[s][k] = Tree[t][k] PROVE FALSE
    OBVIOUS
  <2>1. [k \in 0 .. NLeaves - 1 |-> Tree[s][k]] = [k \in 0 .. NLeaves - 1 |-> Tree[t][k]]
    OBVIOUS
  <2> QED BY <1>1, <1>2, <2>1
<1> QED BY <1>3 DEF Agree, DifferIn

\* and two entries that start as a pair are well paired.
LEMMA FreshPair ==
  ASSUME NEW e, NEW f, NEW s, NEW t, s # t, NEW C,
         C \subseteq Confirmable, Fresh(e, s, C), Fresh(f, t, C)
  PROVE  PairShape(e, f, s, t, C)
<1>1. s \in C => AtStart(e) BY DEF Fresh, AtStart
<1>2. t \in C => AtStart(f) BY DEF Fresh, AtStart
<1>3. ASSUME s \in C, t \in C PROVE Searching(e, f, s, t)
  <2>1. Agree(s, t, 0) /\ DifferIn(s, t, 0, NLeaves - 1) BY <1>3, TreesDiffer
  <2>2. e.challengeStepCompleted = 1 /\ due(0, NLeaves - 1) = 1 BY <1>3, WholePath DEF Fresh
  <2> QED BY <1>1, <1>2, <1>3, <2>1, <2>2 DEF Searching, AtStart
<1> QED BY <1>1, <1>2, <1>3 DEF PairShape

-----------------------------------------------------------------------------
(* The answers.                                                            *)

\* Confirming a justification root hash leaves an entry at the start of the search,
LEMMA ConfirmJRHShape ==
  ASSUME NEW e, NEW g, NEW s, NEW C, s \notin C, Shape(e, s, C),
         g.challengeStepCompleted = e.challengeStepCompleted + 1,
         g.lowerBound = e.lowerBound, g.upperBound = NLeaves - 1, NEW D, s \in D
  PROVE  Fresh(g, s, D)
BY DEF Shape, Fresh

\* and its pair still well paired.
LEMMA ConfirmJRHPair ==
  ASSUME NEW e, NEW f, NEW g, NEW s, s \in Confirmable, NEW t, s # t, NEW C,
         C \subseteq Confirmable, s \notin C, PairShape(e, f, s, t, C),
         NEW D, s \in D, t \in D <=> t \in C, Fresh(g, s, D)
  PROVE  PairShape(g, f, s, t, D)
<1>1. AtStart(g) BY DEF Fresh, AtStart
<1>2. ASSUME t \in C PROVE Searching(g, f, s, t)
  <2>1. AtStart(f) BY <1>2 DEF PairShape
  <2>2. Agree(s, t, 0) /\ DifferIn(s, t, 0, NLeaves - 1) BY <1>2, TreesDiffer
  <2>3. g.challengeStepCompleted = 1 /\ due(0, NLeaves - 1) = 1 BY WholePath DEF Fresh
  <2> QED BY <1>1, <2>1, <2>2, <2>3 DEF Searching, AtStart
<1> QED BY <1>1, <1>2 DEF PairShape

\* Who may answer a step of the search has just that step to make.
LEMMA RespondDue ==
  ASSUME NEW e, NEW s, NEW C, s \in C, Shape(e, s, C), e.challengeStepCompleted \in Nat,
         canRespondToBinarySearch(e, NLeaves)
  PROVE  /\ e.lowerBound # e.upperBound
         /\ e.challengeStepCompleted = due(e.lowerBound, e.upperBound)
<1> DEFINE lb == e.lowerBound
           ub == e.upperBound
<1>1. lb # ub /\ OnPath(lb, ub) BY DEF canRespondToBinarySearch, Shape
<1>2. expectedProofLength(NLeaves, lb) = leafDepth(lb, ub, lb) + (e.challengeStepCompleted - 1)
  BY DEF canRespondToBinarySearch, proofFits
<1>3. /\ expectedProofLength(NLeaves, lb) = leafDepth(lb, ub, lb) + (due(lb, ub) - 1)
      /\ due(lb, ub) \in Nat /\ lb \in Nat /\ ub \in Nat /\ lb <= ub
  BY <1>1, PathFacts
<1>4. lb \in lb .. ub BY <1>3
<1>5. leafDepth(lb, ub, lb) \in Nat BY <1>3, <1>4, LeafDepthNat
<1> HIDE DEF lb, ub
<1>6. e.challengeStepCompleted = due(lb, ub) BY <1>2, <1>3, <1>5
<1> QED BY <1>1, <1>6 DEF lb, ub

\* Answering the search before the opponent leaves an entry well shaped,
LEMMA RespondShape ==
  ASSUME NEW e, NEW g, NEW s, NEW C, s \in C, Shape(e, s, C),
         e.lowerBound # e.upperBound,
         e.challengeStepCompleted = due(e.lowerBound, e.upperBound),
         g.challengeStepCompleted = e.challengeStepCompleted + 1,
         g.lowerBound = e.lowerBound, g.upperBound = e.upperBound
  PROVE  Shape(g, s, C)
BY DEF Shape

\* and its pair well paired.
LEMMA RespondPair ==
  ASSUME NEW e, NEW f, NEW g, NEW s, NEW t, NEW C, s \in C,
         PairShape(e, f, s, t, C),
         g.challengeStepCompleted # f.challengeStepCompleted,
         g.lowerBound = e.lowerBound, g.upperBound = e.upperBound
  PROVE  PairShape(g, f, s, t, C)
BY DEF PairShape, Searching, AtStart

\* The second answer to a step: both bounds move to the half where the trees part.
LEMMA MovedShape ==
  ASSUME NEW e, OnPath(e.lowerBound, e.upperBound), e.lowerBound # e.upperBound,
         e.challengeStepCompleted = due(e.lowerBound, e.upperBound) + 1,
         NEW same \in BOOLEAN, NEW s, e \in EntryType, NEW C, s \in C
  PROVE  LET g == searchFinished(searchBounds(e, same), NLeaves)
             half == leftWidth(e.upperBound - e.lowerBound + 1)
         IN  /\ Shape(g, s, C) /\ g \in EntryType
             /\ g.firstSubmitter = e.firstSubmitter
             /\ g.lowerBound = IF same THEN e.lowerBound + half ELSE e.lowerBound
             /\ g.upperBound = IF same THEN e.upperBound ELSE e.lowerBound + half - 1
             /\ g.lowerBound # g.upperBound =>
                  g.challengeStepCompleted = due(g.lowerBound, g.upperBound)
<1> DEFINE lb == e.lowerBound
           ub == e.upperBound
           half == leftWidth(ub - lb + 1)
           k == due(lb, ub) + 1
           l == IF same THEN lb + half ELSE lb
           u == IF same THEN ub ELSE lb + half - 1
           b == searchBounds(e, same)
           g == searchFinished(b, NLeaves)
<1>1. /\ half \in Nat /\ half >= 1 /\ lb + half <= ub
      /\ ub - ((ub - lb + 1) - half) = lb + half - 1
      /\ OnPath(lb, lb + half - 1) /\ due(lb, lb + half - 1) = k
      /\ OnPath(lb + half, ub) /\ due(lb + half, ub) = k
  BY PathDown
<1>2. lb \in Nat /\ ub \in Nat /\ due(lb, ub) \in Nat /\ k \in Nat BY PathFacts
<1>3. OnPath(l, u) /\ due(l, u) = k BY <1>1
<1>4. l \in 0 .. NLeaves - 1 /\ u \in 0 .. NLeaves
  BY <1>3, PathFacts, Leaves
<1>5. b = [e EXCEPT !.lowerBound = l, !.upperBound = u]
  <2>1. CASE same
    <3>1. b = [e EXCEPT !.lowerBound = lb + half] BY <2>1 DEF searchBounds
    <3> HIDE DEF half
    <3> QED BY <2>1, <3>1 DEF EntryType
  <2>2. CASE ~same
    <3>1. b = [e EXCEPT !.upperBound = ub - ((ub - lb + 1) - half)] BY <2>2 DEF searchBounds
    <3>2. b = [e EXCEPT !.upperBound = lb + half - 1] BY <1>1, <3>1
    <3> HIDE DEF half
    <3> QED BY <2>2, <3>2 DEF EntryType
  <2> QED BY <2>1, <2>2
<1> HIDE DEF half, l, u, b
<1>6. /\ b = [firstSubmitter |-> e.firstSubmitter, age |-> e.age,
              challengeStepCompleted |-> k, lowerBound |-> l, upperBound |-> u]
      /\ e.firstSubmitter \in Miners \cup {NoMiner} /\ e.age \in 0 .. MaxAge
  BY <1>5 DEF EntryType
<1> DEFINE z == IF l = u /\ pow2[k - 1] < NLeaves THEN k + 1 ELSE k
<1>7. g = [b EXCEPT !.challengeStepCompleted = z]
  BY <1>6 DEF searchFinished
<1>8. z \in Nat BY <1>2
<1>9. l = u => z \in 2 .. Depth + 1
  <2> SUFFICES ASSUME l = u PROVE z \in 2 .. Depth + 1 OBVIOUS
  <2>1. k >= 2 /\ k <= Depth + 1 BY <1>3, PathEnds
  <2>2. pow2[k - 1] < NLeaves => k <= Depth
    <3> SUFFICES ASSUME pow2[k - 1] < NLeaves PROVE k <= Depth OBVIOUS
    <3>1. k - 1 \in Nat /\ pow2[k - 1] \in Nat BY <1>2, <2>1, Pow2Def
    <3>2. pow2[k - 1] < pow2[Depth] BY <3>1, DepthFacts, Leaves
    <3>3. k - 1 < Depth BY <3>1, <3>2, DepthFacts, Pow2Order
    <3> QED BY <1>2, <3>3, DepthFacts
  <2> QED BY <1>2, <2>1, <2>2, DepthFacts
<1>10. l # u => z = k OBVIOUS
<1> HIDE DEF z, g, k
<1>11. /\ g.firstSubmitter = e.firstSubmitter /\ g.challengeStepCompleted = z
       /\ g.lowerBound = l /\ g.upperBound = u
  BY <1>6, <1>7
<1>12. g \in EntryType BY <1>4, <1>6, <1>7, <1>8 DEF EntryType
<1>13. Shape(g, s, C) BY <1>3, <1>9, <1>10, <1>11 DEF Shape
<1> QED BY <1>3, <1>10, <1>11, <1>12, <1>13 DEF g, b, l, u, half

\* The half of the leaves the search goes on with holds the first difference.
LEMMA MovedSearch ==
  ASSUME NEW s, NEW t, NEW lb \in Nat, NEW ub \in Nat, NEW half \in Nat, half >= 1, lb + half <= ub,
         Agree(s, t, lb), DifferIn(s, t, lb, ub)
  PROVE  /\ (\A k \in lb .. lb + half - 1 : Tree[s][k] = Tree[t][k])
              => Agree(s, t, lb + half) /\ DifferIn(s, t, lb + half, ub)
         /\ ~(\A k \in lb .. lb + half - 1 : Tree[s][k] = Tree[t][k])
              => DifferIn(s, t, lb, lb + half - 1)
<1>1. ASSUME \A k \in lb .. lb + half - 1 : Tree[s][k] = Tree[t][k]
      PROVE  Agree(s, t, lb + half) /\ DifferIn(s, t, lb + half, ub)
  <2>1. \A k \in 0 .. (lb + half) - 1 : k \in 0 .. lb - 1 \/ k \in lb .. lb + half - 1 OBVIOUS
  <2>2. Agree(s, t, lb + half) BY <1>1, <2>1 DEF Agree
  <2>3. PICK k \in lb .. ub : Tree[s][k] # Tree[t][k] BY DEF DifferIn
  <2>4. k \in lb + half .. ub BY <1>1, <2>3
  <2> QED BY <2>2, <2>3, <2>4 DEF DifferIn
<1>2. ASSUME ~(\A k \in lb .. lb + half - 1 : Tree[s][k] = Tree[t][k])
      PROVE  DifferIn(s, t, lb, lb + half - 1)
  BY <1>2 DEF DifferIn
<1> QED BY <1>1, <1>2

\* Confirming the result of the search leaves an entry well shaped,
LEMMA ResultShape ==
  ASSUME NEW e, NEW g, NEW s, NEW C, s \in C, Shape(e, s, C), e.lowerBound = e.upperBound,
         ResultStep(g.challengeStepCompleted),
         g.lowerBound = e.lowerBound, g.upperBound = e.upperBound
  PROVE  Shape(g, s, C)
BY DEF Shape

\* and so does answering the challenge, with the right submission only.
LEMMA ChallengeShape ==
  ASSUME NEW e, NEW g, NEW s, NEW C, s \in C, Shape(e, s, C), e.challengeStepCompleted \in Nat,
         challengeOpen(e, NLeaves), Right(s, e.lowerBound),
         g.challengeStepCompleted = e.challengeStepCompleted + 1,
         g.lowerBound = e.lowerBound, g.upperBound = e.upperBound
  PROVE  Shape(g, s, C) /\ ResultStep(e.challengeStepCompleted) /\ e.lowerBound = e.upperBound
<1>1. ResultStep(e.challengeStepCompleted) BY DEF challengeOpen, ResultStep
<1>2. (e.challengeStepCompleted + 1) - 1 = e.challengeStepCompleted OBVIOUS
<1> QED BY <1>1, <1>2 DEF challengeOpen, Shape

\* After the search only the steps change.
LEMMA EndedPair ==
  ASSUME NEW e, NEW f, NEW g, NEW s, NEW t, NEW C, s \in C,
         PairShape(e, f, s, t, C), e.lowerBound = e.upperBound,
         g.lowerBound = e.lowerBound, g.upperBound = e.upperBound
  PROVE  PairShape(g, f, s, t, C)
BY DEF PairShape, Searching, AtStart

-----------------------------------------------------------------------------
(* The disputes of all rounds.                                             *)

confirmedAt(r, i) == submissionAt(r, i) \in jrhConfirmed

PlaceOK(r, i) == Shape(entryAt(r, i), submissionAt(r, i), jrhConfirmed)

PairOK(r, i, o) ==
  Held(r, i) /\ Held(r, o) =>
    PairShape(entryAt(r, i), entryAt(r, o), submissionAt(r, i), submissionAt(r, o),
              jrhConfirmed)

Shaped == \A r \in Rounds : \A i \in Indices(r) : PlaceOK(r, i)

Paired == \A r \in Rounds : \A i \in Indices(r) :
             InRound(r, getOpponentIdx(i)) => PairOK(r, i, getOpponentIdx(i))

\* The honest miner keeps up.  Its entry has an answer to give, unless it waits for
\* the other side of the search or has answered the challenge.
Waiting(e, C) ==
  /\ Honest \in C
  /\ IF e.lowerBound # e.upperBound
     THEN e.challengeStepCompleted = due(e.lowerBound, e.upperBound) + 1
     ELSE ResultStep(e.challengeStepCompleted - 1)

\* How late the honest miner may answer: by then every submitter is allowed to.
Delay == ResponseWindow - AllEntriesAllowed

\* The age of the honest entry e of a pair and of its opponent f: an answer is
\* due within Delay; at the same step f has been for at most Delay longer than e; and
\* where f is a step further, e has been at its own for at least as long.
Timed(e, f, C) ==
  /\ ~Waiting(e, C) => e.age <= Delay
  /\ e.challengeStepCompleted = f.challengeStepCompleted => f.age <= e.age + Delay
  /\ (/\ Honest \notin C \/ (e.lowerBound = e.upperBound /\ e.challengeStepCompleted <= Depth + 1)
      /\ f.challengeStepCompleted > e.challengeStepCompleted)
       => f.age <= e.age

\* Has answered the challenge.
Through(e) == ResultStep(e.challengeStepCompleted - 1)

BothThrough(e, f) == Through(e) /\ Through(f)

TimedAt(r, i, o) ==
  submissionAt(r, i) = Honest /\ Held(r, o) /\ ~BothThrough(entryAt(r, i), entryAt(r, o))
    => Timed(entryAt(r, i), entryAt(r, o), jrhConfirmed)

InTime == \A r \in Rounds : \A i \in Indices(r) :
             InRound(r, getOpponentIdx(i)) => TimedAt(r, i, getOpponentIdx(i))

\* The client's delay fits into the response window.
LEMMA DelayFacts == Delay \in Nat /\ Delay >= 1 /\ Delay <= ResponseWindow
BY WindowAssumption DEF Delay

\* A place that a step leaves alone.
KeptAt(q, j) ==
  /\ entryAt(q, j)' = entryAt(q, j)
  /\ submissionAt(q, j)' = submissionAt(q, j)
  /\ confirmedAt(q, j)' <=> confirmedAt(q, j)

\* What is kept of two entries keeps their place, pair and timing right.
LEMMA KeptPlaces ==
  ASSUME NEW q, NEW j, KeptAt(q, j)
  PROVE  /\ PlaceOK(q, j) => PlaceOK(q, j)'
         /\ \A p : KeptAt(q, p) /\ PairOK(q, j, p) => PairOK(q, j, p)'
         /\ \A p : KeptAt(q, p) /\ TimedAt(q, j, p) => TimedAt(q, j, p)'
<1>1. PlaceOK(q, j) => PlaceOK(q, j)'
  <2>1. Alike(entryAt(q, j), entryAt(q, j)) BY DEF Alike
  <2> QED BY <2>1, AlikeShape DEF KeptAt, PlaceOK, confirmedAt
<1>2. ASSUME NEW p, KeptAt(q, p) PROVE /\ PairOK(q, j, p) => PairOK(q, j, p)'
                                       /\ TimedAt(q, j, p) => TimedAt(q, j, p)'
  <2>1. (Held(q, j)' <=> Held(q, j)) /\ (Held(q, p)' <=> Held(q, p))
    BY <1>2 DEF KeptAt, Held
  <2>2. Alike(entryAt(q, j), entryAt(q, j)) /\ Alike(entryAt(q, p), entryAt(q, p)) BY DEF Alike
  <2>3. PairOK(q, j, p) => PairOK(q, j, p)'
    BY <1>2, <2>1, <2>2, AlikePair DEF KeptAt, PairOK, confirmedAt
  <2>4. TimedAt(q, j, p) => TimedAt(q, j, p)'
    <3> SUFFICES ASSUME submissionAt(q, j) = Honest PROVE TimedAt(q, j, p) => TimedAt(q, j, p)'
      BY DEF KeptAt, TimedAt
    <3>2. BothThrough(entryAt(q, j), entryAt(q, p))' <=> BothThrough(entryAt(q, j), entryAt(q, p))
      BY <1>2 DEF KeptAt, BothThrough, Through
    <3>1. Honest \in jrhConfirmed' <=> Honest \in jrhConfirmed BY DEF KeptAt, confirmedAt
    <3> QED BY <1>2, <2>1, <3>1, <3>2 DEF KeptAt, TimedAt, Timed, Waiting
  <2> QED BY <2>3, <2>4
<1> QED BY <1>1, <1>2

\* Steps that leave every place alone.
LEMMA QuietDisputes ==
  ASSUME TypeOK, SamePlaces, \A q \in Rounds : \A j \in Indices(q) : KeptAt(q, j)
  PROVE  /\ Shaped => Shaped'
         /\ Paired => Paired'
         /\ InTime => InTime'
<1>1. \A q \in Rounds : /\ Indices(q)' = Indices(q)
                        /\ \A j : InRound(q, j)' <=> InRound(q, j)
  BY SameIndices
<1>2. Shaped => Shaped' BY <1>1, KeptPlaces DEF Shaped
<1>3. ASSUME NEW q \in Rounds, NEW j \in Indices(q), InRound(q, getOpponentIdx(j))
      PROVE  KeptAt(q, j) /\ KeptAt(q, getOpponentIdx(j))
  BY <1>3 DEF InRound
<1>4. Paired => Paired' BY <1>1, <1>3, KeptPlaces DEF Paired
<1>5. InTime => InTime' BY <1>1, <1>3, KeptPlaces DEF InTime
<1> QED BY <1>2, <1>4, <1>5

\* Steps that change place i of round r and that of its opponent.
LEMMA LocalDisputes ==
  ASSUME TypeOK, SamePlaces, NEW r \in Rounds, NEW i \in Indices(r),
         NEW o, o = getOpponentIdx(i),
         \A q \in Rounds : \A j \in Indices(q) : ~(q = r /\ j \in {i, o}) => KeptAt(q, j)
  PROVE  /\ Shaped /\ PlaceOK(r, i)' /\ (InRound(r, o) => PlaceOK(r, o)') => Shaped'
         /\ Paired /\ (InRound(r, o) => PairOK(r, i, o)') => Paired'
         /\ InTime /\ (InRound(r, o) => TimedAt(r, i, o)' /\ TimedAt(r, o, i)') => InTime'
<1>1. \A q \in Rounds : /\ Indices(q)' = Indices(q)
                        /\ \A j : InRound(q, j)' <=> InRound(q, j)
                        /\ \A j : InRound(q, j) <=> j \in Indices(q)
  BY SameIndices DEF InRound
<1>2. i \in Nat /\ o \in Nat /\ getOpponentIdx(o) = i BY EntryFacts, OpponentFacts
<1>3. ASSUME NEW q \in Rounds, NEW j \in Indices(q), InRound(q, getOpponentIdx(j)),
             ~(q = r /\ j \in {i, o})
      PROVE  KeptAt(q, j) /\ KeptAt(q, getOpponentIdx(j))
  <2>1. j \in Nat /\ getOpponentIdx(getOpponentIdx(j)) = j BY EntryFacts, OpponentFacts
  <2>2. getOpponentIdx(j) \in {i, o} => j \in {i, o} BY <1>2, <2>1
  <2>3. getOpponentIdx(j) \in Indices(q) BY <1>1, <1>3
  <2> QED BY <1>3, <2>2, <2>3
<1>4. ASSUME Shaped, PlaceOK(r, i)', InRound(r, o) => PlaceOK(r, o)' PROVE Shaped'
  <2> SUFFICES ASSUME NEW q \in Rounds, NEW j \in Indices(q) PROVE PlaceOK(q, j)'
    BY <1>1 DEF Shaped
  <2>1. CASE q = r /\ j = i BY <1>4, <2>1
  <2>2. CASE q = r /\ j = o BY <1>1, <1>4, <2>2
  <2>3. CASE ~(q = r /\ j \in {i, o})
    <3>1. KeptAt(q, j) BY <2>3
    <3> QED BY <1>4, <3>1, KeptPlaces DEF Shaped
  <2> QED BY <2>1, <2>2, <2>3
<1>5. ASSUME Paired, InRound(r, o) => PairOK(r, i, o)' PROVE Paired'
  <2> SUFFICES ASSUME NEW q \in Rounds, NEW j \in Indices(q), InRound(q, getOpponentIdx(j))
               PROVE  PairOK(q, j, getOpponentIdx(j))'
    BY <1>1 DEF Paired
  <2>1. CASE q = r /\ j = i BY <1>5, <2>1
  <2>2. CASE q = r /\ j = o
    <3>1. PairOK(r, i, o)' BY <1>1, <1>5, <2>2
    <3>2. PairOK(r, o, i)' BY <3>1, PairSymmetric DEF PairOK
    <3> QED BY <1>2, <2>2, <3>2
  <2>3. CASE ~(q = r /\ j \in {i, o})
    BY <1>3, <1>5, <2>3, KeptPlaces DEF Paired
  <2> QED BY <2>1, <2>2, <2>3
<1>6. ASSUME InTime, InRound(r, o) => TimedAt(r, i, o)' /\ TimedAt(r, o, i)' PROVE InTime'
  <2> SUFFICES ASSUME NEW q \in Rounds, NEW j \in Indices(q), InRound(q, getOpponentIdx(j))
               PROVE  TimedAt(q, j, getOpponentIdx(j))'
    BY <1>1 DEF InTime
  <2>1. CASE q = r /\ j = i BY <1>6, <2>1
  <2>2. CASE q = r /\ j = o BY <1>1, <1>2, <1>6, <2>2
  <2>3. CASE ~(q = r /\ j \in {i, o})
    BY <1>3, <1>6, <2>3, KeptPlaces DEF InTime
  <2> QED BY <2>1, <2>2, <2>3
<1> QED BY <1>4, <1>5, <1>6

\* Products of naturals.
LEMMA Products ==
  ASSUME NEW a \in Nat, NEW b \in Nat
  PROVE  a * b \in Nat /\ (a >= 1 /\ b >= 1 => a * b >= 1)
OBVIOUS

\* A dispute reward is a natural number.
LEMMA RewardNat ==
  ASSUME TypeOK
  PROVE  disputeRewardSize \in Nat
<1> DEFINE n == nUniqueSubmittedHashes
           x == log2Ceiling(n)
           y == 2 * (3 + Depth) + 1
<1>1. n \in Nat BY DEF TypeOK
<1>2. CASE n <= 1 BY <1>2 DEF disputeRewardSize
<1>3. CASE ~(n <= 1)
  <2>1. n >= 2 /\ n - 1 \in Nat /\ n - 1 >= 1 BY <1>1, <1>3
  <2>2. x \in Nat BY <1>1, <2>1, Log2
  <2>3. y \in Nat /\ y >= 1 BY DepthFacts
  <2>4. rewardDenominator = x + (n - 1) * y BY DEF rewardDenominator, Depth
  <2>5. MinStake * (n - 1) \in Nat BY <2>1, SubmissionAssumption, Products
  <2> HIDE DEF n, x, y
  <2>6. (n - 1) * y \in Nat /\ (n - 1) * y >= 1 BY <2>1, <2>3, Products
  <2> DEFINE z == (n - 1) * y
             u == MinStake * (n - 1)
  <2>7. disputeRewardSize = u \div (x + z) BY <1>3, <2>4 DEF disputeRewardSize, n
  <2>8. z \in Nat /\ z >= 1 /\ u \in Nat BY <2>5, <2>6
  <2> HIDE DEF z, u
  <2>9. x + z \in Nat /\ x + z > 0 BY <2>2, <2>8
  <2> QED BY <2>7, <2>8, <2>9
<1> QED BY <1>2, <1>3

-----------------------------------------------------------------------------
(* The answers of one side.                                                *)

\* An answer rewrites one entry and moves nobody,
LEMMA AnswerView ==
  ASSUME TypeOK, Known, NEW r \in Rounds, NEW i \in Indices(r), NEW g \in EntryType,
         g.firstSubmitter = entryAt(r, i).firstSubmitter,
         Replaced(r, i, g), submission' = submission
  PROVE  /\ RoundsType' /\ SamePlaces
         /\ \A q \in Rounds : \A j \in Indices(q)' :
              entryAt(q, j)'.firstSubmitter # NoMiner
                => submission'[entryAt(q, j)'.firstSubmitter] # NoSubmission
         /\ entryAt(r, i)' = g
         /\ submissionAt(r, i)' = submissionAt(r, i)
         /\ \A q \in Rounds : \A j \in Indices(q) :
              ~(q = r /\ j = i) => entryAt(q, j)' = entryAt(q, j)
<1>1. /\ RoundsType'
      /\ \A q \in Rounds : Len(disputeRounds'[q]) = Len(disputeRounds[q])
      /\ \A q \in Rounds : \A j \in Indices(q) :
           entryAt(q, j)' = IF q = r /\ j = i THEN g ELSE entryAt(q, j)
  BY OneChange
<1>2. \A q \in Rounds : \A j \in Indices(q) :
        entryAt(q, j)'.firstSubmitter = entryAt(q, j).firstSubmitter
  BY <1>1
<1>3. /\ SamePlaces
      /\ \A q \in Rounds : \A j \in Indices(q)' :
              entryAt(q, j)'.firstSubmitter # NoMiner
                => submission'[entryAt(q, j)'.firstSubmitter] # NoSubmission
  BY <1>1, <1>2, SameHolders
<1> QED BY <1>1, <1>3 DEF SamePlaces

\* What the answers leave alone.
AnswerFrame ==
  /\ rewardResponder
  /\ UNCHANGED <<windowAge, confirmed, submitVars, outcomeVars>>

\* keeps the types and Struct,
LEMMA AnswerTypes ==
  ASSUME TypeOK, Struct, RoundsType', SamePlaces, AnswerFrame,
         jrhConfirmed' \subseteq Confirmable, jrhConfirmed' \subseteq Submitted,
         jrhConfirmed' # {} => submissionWindowClosed,
         \A q \in Rounds : \A j \in Indices(q)' :
              entryAt(q, j)'.firstSubmitter # NoMiner
                => submission'[entryAt(q, j)'.firstSubmitter] # NoSubmission
  PROVE  TypeOK' /\ Struct'
<1> USE DEF AnswerFrame, submitVars, outcomeVars
<1>1. rewardsPaidOut' \in Nat
  <2>1. disputeRewardSize \in Nat BY RewardNat
  <2>2. rewardsPaidOut \in Nat BY DEF TypeOK
  <2>3. rewardsPaidOut' = rewardsPaidOut + disputeRewardSize BY DEF rewardResponder
  <2> QED BY <2>1, <2>2, <2>3
<1>2. TypeOK' BY <1>1 DEF TypeOK, RoundsType
<1>3. Submitted' = Submitted /\ Out' = Out /\ (submissionWindowClosed' <=> submissionWindowClosed)
  BY DEF Submitted, Out, submissionWindowClosed
<1>4. Known' BY <1>3 DEF Known, Struct
<1>5. Struct' BY <1>3, <1>4, QuietStruct
<1> QED BY <1>2, <1>5

\* and sets the step and the clock of an entry.
LEMMA AnswerFields ==
  ASSUME NEW e \in EntryType, NEW s \in Nat
  PROVE  LET g == [[e EXCEPT !.challengeStepCompleted = s] EXCEPT !.age = 0]
         IN  /\ g \in EntryType /\ g.firstSubmitter = e.firstSubmitter /\ g.age = 0
             /\ g.challengeStepCompleted = s
             /\ g.lowerBound = e.lowerBound /\ g.upperBound = e.upperBound
BY TypedEntries DEF EntryType

\* The numbers an entry holds.
LEMMA StepNat ==
  ASSUME NEW e \in EntryType
  PROVE  /\ e.challengeStepCompleted \in Nat /\ e.challengeStepCompleted + 1 \in Nat
         /\ e.age \in Nat /\ e.age <= MaxAge
         /\ e.lowerBound \in Nat /\ e.upperBound \in Nat
BY TypedEntries, Leaves DEF EntryType

\* Answers that confirm no justification root hash: others are left alone.
LEMMA AnswerKept ==
  ASSUME SamePlaces, jrhConfirmed' = jrhConfirmed,
         NEW r \in Rounds, NEW i \in Indices(r),
         \A q \in Rounds : \A j \in Indices(q) :
              ~(q = r /\ j = i) => entryAt(q, j)' = entryAt(q, j)
  PROVE  /\ \A q \in Rounds : \A j \in Indices(q) : ~(q = r /\ j = i) => KeptAt(q, j)
         /\ \A q \in Rounds : \A j \in Indices(q) : confirmedAt(q, j)' <=> confirmedAt(q, j)
BY DEF SamePlaces, KeptAt, confirmedAt

Dispute == TypeOK /\ Struct /\ Shaped /\ Paired

\* What every answer does to the entry it is for.
Answered(r, i) ==
  /\ RoundsType' /\ SamePlaces /\ submissionAt(r, i)' = submissionAt(r, i)
  /\ entryAt(r, i)'.age = 0
  /\ \A q \in Rounds : \A j \in Indices(q)' :
              entryAt(q, j)'.firstSubmitter # NoMiner
                => submission'[entryAt(q, j)'.firstSubmitter] # NoSubmission

OthersKept(r, i) ==
  \A q \in Rounds : \A j \in Indices(q) : ~(q = r /\ j = i) => KeptAt(q, j)

\* The opponent of an entry that answers is kept as it was.
LEMMA OpponentKept ==
  ASSUME TypeOK, NEW r \in Rounds, NEW i \in Indices(r), OthersKept(r, i),
         InRound(r, getOpponentIdx(i))
  PROVE  KeptAt(r, getOpponentIdx(i)) /\ getOpponentIdx(i) \in Indices(r)
<1>1. getOpponentIdx(i) # i /\ getOpponentIdx(i) \in Indices(r)
  BY EntryFacts, OpponentFacts DEF InRound
<1> QED BY <1>1 DEF OthersKept

\* confirmJustificationRootHash, entry by entry:
LEMMA ConfirmJRHView ==
  ASSUME Dispute, NEW r \in Rounds, NEW i \in Indices(r), confirmJustificationRootHash(r, i)
  PROVE  /\ Answered(r, i) /\ OthersKept(r, i)
         /\ submissionAt(r, i) \in Confirmable /\ ~confirmedAt(r, i) /\ confirmedAt(r, i)'
         /\ entryAt(r, i).challengeStepCompleted = 0
         /\ Fresh(entryAt(r, i)', submissionAt(r, i), jrhConfirmed')
         /\ jrhConfirmed' = jrhConfirmed \cup {submissionAt(r, i)}
         /\ submissionWindowClosed /\ Held(r, i)
<1> DEFINE e == entryAt(r, i)
           s == submissionAt(r, i)
           g == [afterConfirmJRH(e, NLeaves) EXCEPT !.age = 0]
<1>1. /\ s \in Confirmable /\ s \notin jrhConfirmed /\ submissionWindowClosed
      /\ answered(r, i, afterConfirmJRH(e, NLeaves))
      /\ jrhConfirmed' = jrhConfirmed \cup {s}
      /\ submission' = submission
  BY DEF confirmJustificationRootHash, canConfirmJustificationRootHash, submitVars
<1>2. e \in EntryType BY EntryFacts DEF Dispute
<1>3. Shape(e, s, jrhConfirmed) /\ ~confirmedAt(r, i)
  BY <1>1 DEF Dispute, Shaped, PlaceOK, confirmedAt
<1>4. e.challengeStepCompleted = 0 /\ e.lowerBound = 0 BY <1>1, <1>3 DEF Shape
<1>5. /\ g \in EntryType /\ g.firstSubmitter = e.firstSubmitter /\ g.age = 0
      /\ g.challengeStepCompleted = e.challengeStepCompleted + 1
      /\ g.lowerBound = e.lowerBound /\ g.upperBound = NLeaves - 1
  <2> DEFINE x == e.challengeStepCompleted + 1
             u == NLeaves - 1
  <2>1. x \in Nat /\ 0 \in 0 .. MaxAge /\ u \in 0 .. NLeaves
        /\ e.firstSubmitter \in Miners \cup {NoMiner} /\ e.lowerBound \in 0 .. NLeaves - 1
    BY <1>2, StepNat, TypedEntries, Leaves DEF EntryType
  <2>2. g = [[e EXCEPT !.challengeStepCompleted = x, !.upperBound = u] EXCEPT !.age = 0]
    BY DEF afterConfirmJRH
  <2>3. x = e.challengeStepCompleted + 1 /\ u = NLeaves - 1 OBVIOUS
  <2> HIDE DEF x, u, g, e
  <2>4. g = [firstSubmitter |-> e.firstSubmitter, age |-> 0, challengeStepCompleted |-> x,
             lowerBound |-> e.lowerBound, upperBound |-> u]
    BY <1>2, <2>2 DEF EntryType
  <2> QED BY <2>1, <2>3, <2>4 DEF EntryType
<1>6. Replaced(r, i, g) BY <1>1 DEF answered, Replaced
<1> HIDE DEF g
<1>8. /\ RoundsType' /\ SamePlaces
      /\ \A q \in Rounds : \A j \in Indices(q)' :
              entryAt(q, j)'.firstSubmitter # NoMiner
                => submission'[entryAt(q, j)'.firstSubmitter] # NoSubmission
      /\ entryAt(r, i)' = g
      /\ submissionAt(r, i)' = submissionAt(r, i)
      /\ \A q \in Rounds : \A j \in Indices(q) :
              ~(q = r /\ j = i) => entryAt(q, j)' = entryAt(q, j)
  BY <1>1, <1>5, <1>6, AnswerView DEF Dispute, Struct
<1>9. Held(r, i) BY <1>1, NoHash DEF Held
<1>10. OthersKept(r, i)
  <2> SUFFICES ASSUME NEW q \in Rounds, NEW j \in Indices(q), ~(q = r /\ j = i)
               PROVE  KeptAt(q, j)
    BY DEF OthersKept
  <2>1. submissionAt(q, j) # s BY <1>9 DEF Dispute, Struct, OnePlace
  <2>2. submissionAt(q, j)' = submissionAt(q, j) BY <1>8 DEF SamePlaces
  <2> QED BY <1>1, <1>8, <2>1, <2>2 DEF KeptAt, confirmedAt
<1>11. confirmedAt(r, i)' /\ ~confirmedAt(r, i)
  <2>1. submissionAt(r, i)' \in jrhConfirmed' BY <1>1, <1>8
  <2> QED BY <1>1, <2>1 DEF confirmedAt
<1>12. Answered(r, i) BY <1>5, <1>8 DEF Answered
<1>13. Fresh(entryAt(r, i)', submissionAt(r, i), jrhConfirmed')
  <2>1. s \in jrhConfirmed' BY <1>1
  <2>2. Fresh(g, s, jrhConfirmed') BY <1>1, <1>3, <1>5, <2>1, ConfirmJRHShape
  <2> QED BY <1>8, <2>2
<1> QED BY <1>1, <1>4, <1>8, <1>9, <1>10, <1>11, <1>12, <1>13

\* it keeps the invariant.
LEMMA ConfirmJRHDispute ==
  ASSUME Dispute, NEW r \in Rounds, NEW i \in Indices(r), confirmJustificationRootHash(r, i)
  PROVE  Dispute'
<1> DEFINE o == getOpponentIdx(i)
           s == submissionAt(r, i)
           t == submissionAt(r, o)
<1>1. /\ Answered(r, i) /\ OthersKept(r, i)
      /\ s \in Confirmable /\ ~confirmedAt(r, i) /\ confirmedAt(r, i)'
      /\ Fresh(entryAt(r, i)', submissionAt(r, i), jrhConfirmed')
      /\ jrhConfirmed' = jrhConfirmed \cup {submissionAt(r, i)}
      /\ submissionWindowClosed /\ Held(r, i)
  BY ConfirmJRHView
<1>2. TypeOK' /\ Struct'
  <2>1. s \in Submitted BY <1>1, HeldFacts DEF Dispute, Struct
  <2>2. jrhConfirmed \subseteq Confirmable /\ jrhConfirmed \subseteq Submitted
    BY DEF Dispute, TypeOK, Struct, Known
  <2>3. AnswerFrame BY DEF confirmJustificationRootHash, AnswerFrame
  <2> QED BY <1>1, <2>1, <2>2, <2>3, AnswerTypes DEF Dispute, Answered
<1>3. PlaceOK(r, i)' BY <1>1, FreshShape DEF PlaceOK, Answered
<1>4. ASSUME InRound(r, o) PROVE PlaceOK(r, o)' /\ PairOK(r, i, o)'
  <2>1. KeptAt(r, o) /\ o \in Indices(r) /\ o # i
    BY <1>1, <1>4, OpponentKept, EntryFacts, OpponentFacts DEF Dispute
  <2>2. PlaceOK(r, o)' BY <2>1, KeptPlaces DEF Dispute, Shaped
  <2>3. ASSUME Held(r, o)' PROVE PairOK(r, i, o)'
    <3>1. Held(r, o) /\ s # t BY <1>1, <2>1, <2>3 DEF KeptAt, Held, Dispute, Struct, OnePlace
    <3>2. /\ t \in jrhConfirmed' <=> t \in jrhConfirmed
          /\ jrhConfirmed \subseteq Confirmable
          /\ s \notin jrhConfirmed /\ s \in jrhConfirmed'
      BY <1>1, <2>1 DEF confirmedAt, KeptAt, Dispute, TypeOK
    <3>3. PairShape(entryAt(r, i), entryAt(r, o), s, t, jrhConfirmed)
      BY <1>1, <1>4, <3>1 DEF Dispute, Paired, PairOK
    <3>4. PairShape(entryAt(r, i)', entryAt(r, o), s, t, jrhConfirmed')
      BY <1>1, <3>1, <3>2, <3>3, ConfirmJRHPair
    <3> QED BY <1>1, <2>1, <3>4 DEF PairOK, KeptAt, Answered
  <2>4. PairOK(r, i, o)' BY <2>3 DEF PairOK
  <2> QED BY <2>2, <2>4
<1>5. \A q \in Rounds : \A j \in Indices(q) : ~(q = r /\ j \in {i, o}) => KeptAt(q, j)
  BY <1>1 DEF OthersKept
<1>6. Shaped' /\ Paired'
  <2>1. SamePlaces /\ TypeOK /\ Shaped /\ Paired BY <1>1 DEF Dispute, Answered
  <2> QED BY <1>3, <1>4, <1>5, <2>1, LocalDisputes
<1> QED BY <1>2, <1>6 DEF Dispute

-----------------------------------------------------------------------------
(* Answers that only complete steps.                                       *)

Stepped(r, i, z) ==
  /\ answered(r, i, [entryAt(r, i) EXCEPT !.challengeStepCompleted = z])
  /\ jrhConfirmed' = jrhConfirmed /\ AnswerFrame

\* An answer that only sets the step, entry by entry:
LEMMA StepView ==
  ASSUME Dispute, NEW r \in Rounds, NEW i \in Indices(r), NEW z \in Nat, Stepped(r, i, z)
  PROVE  /\ Answered(r, i) /\ OthersKept(r, i) /\ TypeOK' /\ Struct'
         /\ entryAt(r, i)'.challengeStepCompleted = z
         /\ entryAt(r, i)'.lowerBound = entryAt(r, i).lowerBound
         /\ entryAt(r, i)'.upperBound = entryAt(r, i).upperBound
         /\ jrhConfirmed' = jrhConfirmed
<1> DEFINE e == entryAt(r, i)
           g == [[e EXCEPT !.challengeStepCompleted = z] EXCEPT !.age = 0]
<1>1. e \in EntryType BY EntryFacts DEF Dispute
<1>2. /\ g \in EntryType /\ g.firstSubmitter = e.firstSubmitter /\ g.age = 0
      /\ g.challengeStepCompleted = z
      /\ g.lowerBound = e.lowerBound /\ g.upperBound = e.upperBound
  <2> HIDE DEF e
  <2> QED BY <1>1, AnswerFields
<1>3. Replaced(r, i, g) BY DEF Stepped, answered, Replaced
<1>4. submission' = submission /\ AnswerFrame /\ jrhConfirmed' = jrhConfirmed
  BY DEF Stepped, AnswerFrame, submitVars
<1> HIDE DEF g
<1>5. /\ RoundsType' /\ SamePlaces
      /\ \A q \in Rounds : \A j \in Indices(q)' :
              entryAt(q, j)'.firstSubmitter # NoMiner
                => submission'[entryAt(q, j)'.firstSubmitter] # NoSubmission
      /\ entryAt(r, i)' = g
      /\ submissionAt(r, i)' = submissionAt(r, i)
      /\ \A q \in Rounds : \A j \in Indices(q) :
              ~(q = r /\ j = i) => entryAt(q, j)' = entryAt(q, j)
  BY <1>2, <1>3, <1>4, AnswerView DEF Dispute, Struct
<1>6. Answered(r, i) BY <1>2, <1>5 DEF Answered
<1>7. OthersKept(r, i) BY <1>4, <1>5, AnswerKept DEF OthersKept
<1>8. TypeOK' /\ Struct'
  <2>1. /\ jrhConfirmed \subseteq Confirmable /\ jrhConfirmed \subseteq Submitted
        /\ jrhConfirmed # {} => submissionWindowClosed
    BY DEF Dispute, TypeOK, Struct, Known
  <2> QED BY <1>4, <1>5, <2>1, AnswerTypes DEF Dispute
<1> QED BY <1>2, <1>4, <1>5, <1>6, <1>7, <1>8

\* it keeps the invariant when the entry stays well shaped and well paired.
LEMMA StepDispute ==
  ASSUME Dispute, NEW r \in Rounds, NEW i \in Indices(r), NEW z \in Nat, Stepped(r, i, z),
         NEW o, o = getOpponentIdx(i),
         Shape(entryAt(r, i)', submissionAt(r, i), jrhConfirmed),
         InRound(r, o) /\ Held(r, o) =>
           PairShape(entryAt(r, i)', entryAt(r, o), submissionAt(r, i), submissionAt(r, o),
                     jrhConfirmed)
  PROVE  Dispute'
<1>1. Answered(r, i) /\ OthersKept(r, i) /\ TypeOK' /\ Struct' /\ jrhConfirmed' = jrhConfirmed
  BY StepView
<1>2. PlaceOK(r, i)' BY <1>1 DEF PlaceOK, Answered
<1>3. ASSUME InRound(r, o) PROVE PlaceOK(r, o)' /\ PairOK(r, i, o)'
  <2>1. KeptAt(r, o) /\ o \in Indices(r) BY <1>1, <1>3, OpponentKept DEF Dispute
  <2>2. PlaceOK(r, o)' BY <2>1, KeptPlaces DEF Dispute, Shaped
  <2>3. PairOK(r, i, o)' BY <1>1, <1>3, <2>1 DEF PairOK, KeptAt, Held, Answered
  <2> QED BY <2>2, <2>3
<1>4. \A q \in Rounds : \A j \in Indices(q) : ~(q = r /\ j \in {i, o}) => KeptAt(q, j)
  BY <1>1 DEF OthersKept
<1>5. Shaped' /\ Paired'
  <2>1. SamePlaces /\ TypeOK /\ Shaped /\ Paired BY <1>1 DEF Dispute, Answered
  <2> QED BY <1>2, <1>3, <1>4, <2>1, LocalDisputes
<1> QED BY <1>1, <1>5 DEF Dispute

\* confirmBinarySearchResult is such an answer,
LEMMA ResultView ==
  ASSUME Dispute, NEW r \in Rounds, NEW i \in Indices(r), confirmBinarySearchResult(r, i)
  PROVE  /\ entryAt(r, i).lowerBound = entryAt(r, i).upperBound
         /\ entryAt(r, i).challengeStepCompleted \in 2 .. Depth + 1
         /\ \E z \in Nat : ResultStep(z) /\ Stepped(r, i, z)
         /\ submissionAt(r, i) \in jrhConfirmed
<1> DEFINE e == entryAt(r, i)
           s == submissionAt(r, i)
           k == e.challengeStepCompleted
<1>1. /\ s \in jrhConfirmed /\ e.lowerBound = e.upperBound /\ resultUnconfirmed(k, NLeaves)
      /\ answered(r, i, afterConfirmBinarySearchResult(e, NLeaves))
      /\ jrhConfirmed' = jrhConfirmed /\ AnswerFrame
  BY DEF confirmBinarySearchResult, canConfirmResult, canConfirmBinarySearchResult,
         jrhNLeaves, AnswerFrame
<1>2. e \in EntryType /\ k \in Nat BY EntryFacts, StepNat DEF Dispute
<1>3. Shape(e, s, jrhConfirmed) BY DEF Dispute, Shaped, PlaceOK
<1>4. k \in 2 .. Depth + 1
  <2>1. \/ k \in 2 .. Depth + 1 \/ ResultStep(k) \/ ResultStep(k - 1)
    BY <1>1, <1>3 DEF Shape
  <2>2. k = (k - 1) + 1 BY <1>2
  <2>3. ~ResultStep(k) /\ ~ResultStep(k - 1)
    <3> HIDE DEF k
    <3> QED BY <1>1, <1>2, <2>2, UnconfirmedSearched
  <2> QED BY <2>1, <2>3
<1>5. PICK z : /\ ResultStep(z) /\ k < z
               /\ afterConfirmBinarySearchResult(e, NLeaves)
                    = [e EXCEPT !.challengeStepCompleted = z]
  <2> DEFINE F == {"firstSubmitter", "age", "challengeStepCompleted", "lowerBound", "upperBound"}
  <2>1. "challengeStepCompleted" \in F /\ e = [f \in F |-> e[f]]
    <3> HIDE DEF e
    <3> QED BY <1>2 DEF EntryType
  <2> HIDE DEF F, e
  <2> QED BY <1>1, <1>2, <2>1, ConfirmedStep
<1>6. z \in Nat BY <1>5 DEF ResultStep
<1>7. Stepped(r, i, z)
  <2>1. answered(r, i, [e EXCEPT !.challengeStepCompleted = z]) BY <1>1, <1>5
  <2> QED BY <1>1, <2>1 DEF Stepped
<1> QED BY <1>1, <1>4, <1>5, <1>6, <1>7

\* and keeps the invariant.
LEMMA ResultDispute ==
  ASSUME Dispute, NEW r \in Rounds, NEW i \in Indices(r), confirmBinarySearchResult(r, i)
  PROVE  Dispute'
<1> DEFINE e == entryAt(r, i)
           s == submissionAt(r, i)
           o == getOpponentIdx(i)
           t == submissionAt(r, o)
<1>1. /\ e.lowerBound = e.upperBound /\ s \in jrhConfirmed
      /\ \E z \in Nat : ResultStep(z) /\ Stepped(r, i, z)
  BY ResultView
<1>2. PICK z \in Nat : ResultStep(z) /\ Stepped(r, i, z) BY <1>1
<1>3. /\ entryAt(r, i)'.challengeStepCompleted = z
      /\ entryAt(r, i)'.lowerBound = e.lowerBound /\ entryAt(r, i)'.upperBound = e.upperBound
  BY <1>2, StepView
<1>4. Shape(e, s, jrhConfirmed) BY DEF Dispute, Shaped, PlaceOK
<1>5. Shape(entryAt(r, i)', s, jrhConfirmed)
  <2> HIDE DEF e, s
  <2> QED BY <1>1, <1>2, <1>3, <1>4, ResultShape
<1>6. ASSUME InRound(r, o), Held(r, o)
      PROVE  PairShape(entryAt(r, i)', entryAt(r, o), s, t, jrhConfirmed)
  <2>1. Held(r, i) BY <1>1, NoHash DEF Held, Dispute, TypeOK
  <2>2. PairShape(e, entryAt(r, o), s, t, jrhConfirmed)
    BY <1>6, <2>1 DEF Dispute, Paired, PairOK
  <2> HIDE DEF e, s, t
  <2> QED BY <1>1, <1>3, <2>2, EndedPair
<1> QED BY <1>2, <1>5, <1>6, StepDispute

\* respondToChallenge is such an answer,
LEMMA ChallengeView ==
  ASSUME Dispute, NEW r \in Rounds, NEW i \in Indices(r), respondToChallenge(r, i)
  PROVE  /\ challengeOpen(entryAt(r, i), NLeaves)
         /\ Right(submissionAt(r, i), entryAt(r, i).lowerBound)
         /\ entryAt(r, i).challengeStepCompleted + 1 \in Nat
         /\ entryAt(r, i).challengeStepCompleted \in Nat
         /\ Stepped(r, i, entryAt(r, i).challengeStepCompleted + 1)
         /\ submissionAt(r, i) \in jrhConfirmed
<1> DEFINE e == entryAt(r, i)
           s == submissionAt(r, i)
           k == e.challengeStepCompleted
<1>1. /\ challengeOpen(e, jrhNLeaves(s)) /\ transitionHolds(e)
      /\ answered(r, i, afterRespondToChallenge(e))
      /\ jrhConfirmed' = jrhConfirmed /\ AnswerFrame
  BY DEF respondToChallenge, canRespondToChallenge, AnswerFrame
<1>2. e \in EntryType /\ k \in Nat /\ k + 1 \in Nat BY EntryFacts, StepNat DEF Dispute
<1>3. s \in jrhConfirmed
  <2> SUFFICES ASSUME s \notin jrhConfirmed PROVE FALSE OBVIOUS
  <2>1. k = 0 BY DEF Dispute, Shaped, PlaceOK, Shape
  <2> QED BY <1>1, <2>1 DEF challengeOpen
<1>4. challengeOpen(e, NLeaves) BY <1>1, <1>3 DEF jrhNLeaves
<1>5. Right(s, e.lowerBound) BY <1>1 DEF transitionHolds, Right, submissionAt
<1>6. Stepped(r, i, k + 1)
  <2>1. answered(r, i, [e EXCEPT !.challengeStepCompleted = k + 1])
    BY <1>1 DEF afterRespondToChallenge
  <2> QED BY <1>1, <2>1 DEF Stepped
<1> QED BY <1>2, <1>3, <1>4, <1>5, <1>6

\* and keeps the invariant.
LEMMA ChallengeDispute ==
  ASSUME Dispute, NEW r \in Rounds, NEW i \in Indices(r), respondToChallenge(r, i)
  PROVE  Dispute'
<1> DEFINE e == entryAt(r, i)
           s == submissionAt(r, i)
           o == getOpponentIdx(i)
           t == submissionAt(r, o)
           z == e.challengeStepCompleted + 1
<1>1. /\ challengeOpen(e, NLeaves) /\ Right(s, e.lowerBound)
      /\ z \in Nat /\ e.challengeStepCompleted \in Nat
      /\ Stepped(r, i, z) /\ s \in jrhConfirmed
  BY ChallengeView
<1>2. /\ entryAt(r, i)'.challengeStepCompleted = z
      /\ entryAt(r, i)'.lowerBound = e.lowerBound /\ entryAt(r, i)'.upperBound = e.upperBound
  BY <1>1, StepView
<1>3. Shape(e, s, jrhConfirmed) BY DEF Dispute, Shaped, PlaceOK
<1>4. Shape(entryAt(r, i)', s, jrhConfirmed) /\ e.lowerBound = e.upperBound
  <2> HIDE DEF e, s
  <2> QED BY <1>1, <1>2, <1>3, ChallengeShape
<1>5. ASSUME InRound(r, o), Held(r, o)
      PROVE  PairShape(entryAt(r, i)', entryAt(r, o), s, t, jrhConfirmed)
  <2>1. Held(r, i) BY <1>1, NoHash DEF Held, Dispute, TypeOK
  <2>2. PairShape(e, entryAt(r, o), s, t, jrhConfirmed)
    BY <1>5, <2>1 DEF Dispute, Paired, PairOK
  <2> HIDE DEF e, s, t
  <2> QED BY <1>1, <1>2, <1>4, <2>2, EndedPair
<1> QED BY <1>1, <1>4, <1>5, StepDispute

-----------------------------------------------------------------------------
(* A step of the search.                                                   *)

Halved(e, same) == [searchFinished(searchBounds(e, same), NLeaves) EXCEPT !.age = 0]

\* Halving the bounds takes a well shaped entry one step down its path.
LEMMA HalvedShape ==
  ASSUME NEW e, OnPath(e.lowerBound, e.upperBound), e.lowerBound # e.upperBound,
         e.challengeStepCompleted = due(e.lowerBound, e.upperBound) + 1,
         NEW same \in BOOLEAN, NEW s, e \in EntryType, NEW C, s \in C,
         NEW half, half = leftWidth(e.upperBound - e.lowerBound + 1),
         NEW g, g = Halved(e, same)
  PROVE  /\ Shape(g, s, C) /\ g \in EntryType /\ g.age = 0
         /\ g.firstSubmitter = e.firstSubmitter
         /\ g.lowerBound = IF same THEN e.lowerBound + half ELSE e.lowerBound
         /\ g.upperBound = IF same THEN e.upperBound ELSE e.lowerBound + half - 1
         /\ g.lowerBound # g.upperBound =>
              g.challengeStepCompleted = due(g.lowerBound, g.upperBound)
<1> DEFINE h == searchFinished(searchBounds(e, same), NLeaves)
<1>1. /\ Shape(h, s, C) /\ h \in EntryType
      /\ h.firstSubmitter = e.firstSubmitter
      /\ h.lowerBound = IF same THEN e.lowerBound + half ELSE e.lowerBound
      /\ h.upperBound = IF same THEN e.upperBound ELSE e.lowerBound + half - 1
      /\ h.lowerBound # h.upperBound =>
           h.challengeStepCompleted = due(h.lowerBound, h.upperBound)
  BY MovedShape
<1>2. g = [h EXCEPT !.age = 0] BY DEF Halved
<1> HIDE DEF h
<1>3. /\ g \in EntryType /\ g.age = 0 /\ g.firstSubmitter = h.firstSubmitter
      /\ g.lowerBound = h.lowerBound /\ g.upperBound = h.upperBound
      /\ g.challengeStepCompleted = h.challengeStepCompleted
  BY <1>1, <1>2, TypedEntries DEF EntryType
<1>4. Alike(g, h) BY <1>3 DEF Alike
<1>5. Shape(g, s, C) BY <1>1, <1>4, AlikeShape
<1> QED BY <1>1, <1>3, <1>5

\* Who answers a binary search is on its path, at the step that is due.
LEMMA RespondFacts ==
  ASSUME Dispute, NEW r \in Rounds, NEW i \in Indices(r),
         respondToBinarySearchForChallenge(r, i)
  PROVE  /\ submissionAt(r, i) \in jrhConfirmed /\ Held(r, i)
         /\ entryAt(r, i).lowerBound # entryAt(r, i).upperBound
         /\ OnPath(entryAt(r, i).lowerBound, entryAt(r, i).upperBound)
         /\ entryAt(r, i).challengeStepCompleted
              = due(entryAt(r, i).lowerBound, entryAt(r, i).upperBound)
         /\ InRound(r, getOpponentIdx(i))
         /\ jrhConfirmed' = jrhConfirmed /\ AnswerFrame /\ submission' = submission
<1> DEFINE e == entryAt(r, i)
           s == submissionAt(r, i)
<1>1. /\ canRespondToBinarySearch(e, jrhNLeaves(s)) /\ InRound(r, getOpponentIdx(i))
      /\ jrhConfirmed' = jrhConfirmed /\ AnswerFrame /\ submission' = submission
  BY DEF respondToBinarySearchForChallenge, canRespondToBinarySearchForChallenge, AnswerFrame,
         submitVars
<1>2. s \in jrhConfirmed
  BY <1>1 DEF canRespondToBinarySearch, proofFits, jrhNLeaves
<1>3. canRespondToBinarySearch(e, NLeaves) BY <1>1, <1>2 DEF jrhNLeaves
<1>4. Shape(e, s, jrhConfirmed) BY DEF Dispute, Shaped, PlaceOK
<1>5. e.challengeStepCompleted \in Nat BY EntryFacts, StepNat DEF Dispute
<1>6. e.lowerBound # e.upperBound /\ e.challengeStepCompleted = due(e.lowerBound, e.upperBound)
  <2> HIDE DEF e, s
  <2> QED BY <1>2, <1>3, <1>4, <1>5, RespondDue
<1>7. OnPath(e.lowerBound, e.upperBound) BY <1>2, <1>4 DEF Shape
<1>8. Held(r, i) BY <1>2, NoHash DEF Held, Dispute, TypeOK
<1> QED BY <1>1, <1>2, <1>6, <1>7, <1>8

\* The first answer to a step, and the second.
FirstToStep(r, i) ==
  entryAt(r, getOpponentIdx(i)).challengeStepCompleted # entryAt(r, i).challengeStepCompleted + 1

\* The first of a pair to answer the search only sets its step,
LEMMA FirstStepped ==
  ASSUME Dispute, NEW r \in Rounds, NEW i \in Indices(r),
         respondToBinarySearchForChallenge(r, i), FirstToStep(r, i)
  PROVE  Stepped(r, i, entryAt(r, i).challengeStepCompleted + 1)
<1> DEFINE e == entryAt(r, i)
<1>1. e \in EntryType BY EntryFacts DEF Dispute
<1>2. afterBinarySearchResponse(e) = [e EXCEPT !.challengeStepCompleted = e.challengeStepCompleted + 1]
  BY DEF afterBinarySearchResponse
<1>3. afterBinarySearchResponse(e).challengeStepCompleted = e.challengeStepCompleted + 1
  <2> HIDE DEF e
  <2> QED BY <1>1, <1>2 DEF EntryType
<1>4. answered(r, i, afterBinarySearchResponse(e))
  BY <1>3 DEF respondToBinarySearchForChallenge, FirstToStep
<1>5. answered(r, i, [e EXCEPT !.challengeStepCompleted = e.challengeStepCompleted + 1])
  BY <1>2, <1>4
<1> QED BY <1>5, RespondFacts DEF Stepped

\* and keeps the invariant.
LEMMA FirstDispute ==
  ASSUME Dispute, NEW r \in Rounds, NEW i \in Indices(r),
         respondToBinarySearchForChallenge(r, i), FirstToStep(r, i)
  PROVE  Dispute'
<1> DEFINE e == entryAt(r, i)
           s == submissionAt(r, i)
           o == getOpponentIdx(i)
           t == submissionAt(r, o)
           z == e.challengeStepCompleted + 1
<1>1. /\ s \in jrhConfirmed /\ Held(r, i) /\ e.lowerBound # e.upperBound
      /\ e.challengeStepCompleted = due(e.lowerBound, e.upperBound)
      /\ InRound(r, o)
  BY RespondFacts
<1>2. z \in Nat /\ Stepped(r, i, z) BY FirstStepped, EntryFacts, StepNat DEF Dispute
<1>3. /\ entryAt(r, i)'.challengeStepCompleted = z
      /\ entryAt(r, i)'.lowerBound = e.lowerBound /\ entryAt(r, i)'.upperBound = e.upperBound
  BY <1>2, StepView
<1>4. Shape(e, s, jrhConfirmed) BY DEF Dispute, Shaped, PlaceOK
<1>5. Shape(entryAt(r, i)', s, jrhConfirmed)
  <2> HIDE DEF e, s
  <2> QED BY <1>1, <1>3, <1>4, RespondShape
<1>6. ASSUME InRound(r, o), Held(r, o)
      PROVE  PairShape(entryAt(r, i)', entryAt(r, o), s, t, jrhConfirmed)
  <2>1. PairShape(e, entryAt(r, o), s, t, jrhConfirmed)
    BY <1>1, <1>6 DEF Dispute, Paired, PairOK
  <2>2. entryAt(r, i)'.challengeStepCompleted # entryAt(r, o).challengeStepCompleted
    BY <1>3 DEF FirstToStep
  <2> HIDE DEF e, s, t
  <2> QED BY <1>1, <1>3, <2>1, <2>2, RespondPair
<1> QED BY <1>2, <1>5, <1>6, StepDispute

\* The second halves the bounds of both,
LEMMA SecondReplaced ==
  ASSUME Dispute, NEW r \in Rounds, NEW i \in Indices(r),
         respondToBinarySearchForChallenge(r, i), ~FirstToStep(r, i),
         NEW o, o = getOpponentIdx(i)
  PROVE  LET mine == [entryAt(r, i) EXCEPT
                        !.challengeStepCompleted = entryAt(r, i).challengeStepCompleted + 1]
             same == sameLeftChild(mine, entryAt(r, o))
         IN  BothReplaced(r, i, Halved(mine, same), o, Halved(entryAt(r, o), same))
<1> DEFINE e == entryAt(r, i)
           f == entryAt(r, o)
           mine == afterBinarySearchResponse(e)
           same == sameLeftChild(mine, f)
           n == jrhNLeaves(submissionOf(mine))
           Moved(x) == [searchFinished(searchBounds(x, same), n) EXCEPT !.age = 0]
<1>1. e \in EntryType BY EntryFacts DEF Dispute
<1>2. mine = [e EXCEPT !.challengeStepCompleted = e.challengeStepCompleted + 1]
  BY DEF afterBinarySearchResponse
<1>3. /\ mine.challengeStepCompleted = e.challengeStepCompleted + 1
      /\ mine.firstSubmitter = e.firstSubmitter
  <2> HIDE DEF e, mine
  <2> QED BY <1>1, <1>2 DEF EntryType
<1>4. n = NLeaves
  <2>1. submissionOf(mine) = submissionAt(r, i)
    <3> HIDE DEF mine
    <3> QED BY <1>3 DEF submissionAt, submissionOf
  <2> QED BY <2>1, RespondFacts DEF jrhNLeaves
<1>5. f.challengeStepCompleted = mine.challengeStepCompleted
  <2> HIDE DEF mine
  <2> QED BY <1>3 DEF FirstToStep
<1>6. disputeRounds' = [disputeRounds EXCEPT ![r][i + 1] = Moved(mine), ![r][o + 1] = Moved(f)]
  BY <1>5 DEF respondToBinarySearchForChallenge
<1>7. Moved(mine) = Halved(mine, same) /\ Moved(f) = Halved(f, same)
  <2> HIDE DEF mine, same, n, f
  <2> QED BY <1>4 DEF Halved
<1>8. BothReplaced(r, i, Halved(mine, same), o, Halved(f, same))
  <2> HIDE DEF mine, same, n, f, Moved
  <2> QED BY <1>6, <1>7 DEF BothReplaced
<1> QED BY <1>2, <1>8

\* entry by entry,
LEMMA SecondView ==
  ASSUME Dispute, NEW r \in Rounds, NEW i \in Indices(r),
         respondToBinarySearchForChallenge(r, i), ~FirstToStep(r, i),
         NEW o, o = getOpponentIdx(i)
  PROVE  /\ Answered(r, i) /\ entryAt(r, o)'.age = 0 /\ TypeOK' /\ Struct'
         /\ o \in Indices(r) /\ Held(r, o) /\ o # i
         /\ \A q \in Rounds : \A j \in Indices(q) : ~(q = r /\ j \in {i, o}) => KeptAt(q, j)
         /\ submissionAt(r, o)' = submissionAt(r, o)
         /\ jrhConfirmed' = jrhConfirmed
         /\ Shape(entryAt(r, i)', submissionAt(r, i), jrhConfirmed)
         /\ Shape(entryAt(r, o)', submissionAt(r, o), jrhConfirmed)
         /\ PairShape(entryAt(r, i)', entryAt(r, o)', submissionAt(r, i), submissionAt(r, o),
                      jrhConfirmed)
<1> DEFINE e == entryAt(r, i)
           f == entryAt(r, o)
           s == submissionAt(r, i)
           t == submissionAt(r, o)
           k == e.challengeStepCompleted + 1
           mine == [e EXCEPT !.challengeStepCompleted = k]
           same == sameLeftChild(mine, f)
           g == Halved(mine, same)
           h == Halved(f, same)
           lb == e.lowerBound
           ub == e.upperBound
           half == leftWidth(ub - lb + 1)
<1>1. /\ s \in jrhConfirmed /\ Held(r, i) /\ lb # ub /\ OnPath(lb, ub) /\ k = due(lb, ub) + 1
      /\ InRound(r, o) /\ jrhConfirmed' = jrhConfirmed /\ AnswerFrame /\ submission' = submission
  BY RespondFacts
<1>2. /\ o \in Indices(r) /\ o # i
      /\ e \in EntryType /\ f \in EntryType
  BY <1>1, EntryFacts, OpponentFacts DEF InRound, Dispute
<1>3. /\ lb \in Nat /\ ub \in Nat /\ lb <= ub /\ due(lb, ub) \in Nat /\ k \in Nat /\ k >= 2
      /\ lb \in 0 .. NLeaves - 1 /\ ub \in 0 .. NLeaves - 1
  BY <1>1, PathFacts
<1>4. f.challengeStepCompleted = k BY DEF FirstToStep
<1>5. t \in jrhConfirmed
  <2> SUFFICES ASSUME t \notin jrhConfirmed PROVE FALSE OBVIOUS
  <2>1. f.challengeStepCompleted = 0 BY <1>2 DEF Dispute, Shaped, PlaceOK, Shape
  <2> HIDE DEF k, f
  <2> QED BY <1>3, <1>4, <2>1
<1>6. Held(r, o) BY <1>5, NoHash DEF Held, Dispute, TypeOK
<1>7. Searching(e, f, s, t)
  <2>1. PairShape(e, f, s, t, jrhConfirmed) BY <1>1, <1>6 DEF Dispute, Paired, PairOK
  <2> HIDE DEF e, f, s, t
  <2> QED BY <1>1, <1>5, <2>1 DEF PairShape
<1>8. /\ f.lowerBound = lb /\ f.upperBound = ub
      /\ Agree(s, t, lb) /\ DifferIn(s, t, lb, ub)
  BY <1>7 DEF Searching
<1>9. /\ mine \in EntryType /\ mine.challengeStepCompleted = k
      /\ mine.firstSubmitter = e.firstSubmitter
      /\ mine.lowerBound = lb /\ mine.upperBound = ub
  <2> HIDE DEF k
  <2> QED BY <1>2, <1>3 DEF EntryType
<1>10. half \in Nat /\ half >= 1 /\ lb + half <= ub
       /\ OnPath(lb, lb + half - 1) /\ OnPath(lb + half, ub)
  BY <1>1, PathDown
<1>11. same \in BOOLEAN BY DEF sameLeftChild
<1>24. same <=> \A l \in lb .. lb + half - 1 : Tree[s][l] = Tree[t][l]
  <2>1. submissionOf(mine) = s
    <3> HIDE DEF mine
    <3> QED BY <1>9 DEF submissionAt, submissionOf
  <2>2. submissionOf(f) = t BY DEF submissionAt
  <2>3. mine.lowerBound = lb /\ mine.upperBound = ub BY <1>9
  <2> HIDE DEF mine, s, t, f, e, lb, ub
  <2>4. leftWidth(mine.upperBound - mine.lowerBound + 1) = half BY <2>3
  <2> HIDE DEF half
  <2>5. same <=> \A l \in lb .. (lb + half) - 1 : Tree[s][l] = Tree[t][l]
    BY <2>1, <2>2, <2>3, <2>4, Zenon DEF sameLeftChild
  <2>6. (lb + half) - 1 = lb + half - 1 BY <1>3, <1>10 DEF half, lb, ub, e
  <2> HIDE DEF same
  <2> QED BY <2>5, <2>6
<1>12. BothReplaced(r, i, g, o, h) BY SecondReplaced
<1> HIDE DEF e, f, s, t, k, mine, same, lb, ub
<1>13. /\ Shape(g, s, jrhConfirmed) /\ g \in EntryType /\ g.age = 0
       /\ g.firstSubmitter = e.firstSubmitter
       /\ g.lowerBound = IF same THEN lb + half ELSE lb
       /\ g.upperBound = IF same THEN ub ELSE lb + half - 1
       /\ g.lowerBound # g.upperBound => g.challengeStepCompleted = due(g.lowerBound, g.upperBound)
  BY <1>1, <1>9, <1>11, HalvedShape
<1>14. /\ Shape(h, t, jrhConfirmed) /\ h \in EntryType /\ h.age = 0
       /\ h.firstSubmitter = f.firstSubmitter
       /\ h.lowerBound = IF same THEN lb + half ELSE lb
       /\ h.upperBound = IF same THEN ub ELSE lb + half - 1
       /\ h.lowerBound # h.upperBound => h.challengeStepCompleted = due(h.lowerBound, h.upperBound)
  BY <1>1, <1>2, <1>4, <1>5, <1>8, <1>11, HalvedShape
<1> HIDE DEF g, h
<1>15. PairShape(g, h, s, t, jrhConfirmed)
  <2>1. Agree(s, t, g.lowerBound) /\ DifferIn(s, t, g.lowerBound, g.upperBound)
    <3>1. /\ same => Agree(s, t, lb + half) /\ DifferIn(s, t, lb + half, ub)
          /\ ~same => DifferIn(s, t, lb, lb + half - 1)
      <4> HIDE DEF half
      <4> QED BY <1>3, <1>8, <1>10, <1>11, <1>24, MovedSearch
    <3> QED BY <1>8, <1>13, <3>1
  <2>2. g.lowerBound = h.lowerBound /\ g.upperBound = h.upperBound BY <1>13, <1>14
  <2>3. g.lowerBound # g.upperBound =>
          g.challengeStepCompleted # due(g.lowerBound, g.upperBound) + 1
    <3> SUFFICES ASSUME g.lowerBound # g.upperBound
                 PROVE  g.challengeStepCompleted # due(g.lowerBound, g.upperBound) + 1
      OBVIOUS
    <3>1. OnPath(g.lowerBound, g.upperBound) BY <1>1, <1>13 DEF Shape
    <3>2. due(g.lowerBound, g.upperBound) \in Nat BY <3>1, PathFacts
    <3>3. g.challengeStepCompleted = due(g.lowerBound, g.upperBound) BY <1>13
    <3> QED BY <3>2, <3>3
  <2>4. Searching(g, h, s, t) BY <2>1, <2>2, <2>3 DEF Searching
  <2> QED BY <1>1, <1>5, <2>4 DEF PairShape
<1>16. /\ RoundsType'
       /\ \A q \in Rounds : Len(disputeRounds'[q]) = Len(disputeRounds[q])
       /\ \A q \in Rounds : \A j \in Indices(q) :
            entryAt(q, j)' = IF q = r /\ j = i THEN g
                             ELSE IF q = r /\ j = o THEN h ELSE entryAt(q, j)
  BY <1>2, <1>12, <1>13, <1>14, TwoChanges DEF Dispute
<1>17. \A q \in Rounds : \A j \in Indices(q) :
         entryAt(q, j)'.firstSubmitter = entryAt(q, j).firstSubmitter
  BY <1>13, <1>14, <1>16 DEF e, f
<1>18. /\ SamePlaces
       /\ \A q \in Rounds : \A j \in Indices(q)' :
              entryAt(q, j)'.firstSubmitter # NoMiner
                => submission'[entryAt(q, j)'.firstSubmitter] # NoSubmission
  BY <1>1, <1>16, <1>17, SameHolders DEF Dispute, Struct
<1>19. TypeOK' /\ Struct'
  <2>1. /\ jrhConfirmed \subseteq Confirmable /\ jrhConfirmed \subseteq Submitted
        /\ jrhConfirmed # {} => submissionWindowClosed
    BY DEF Dispute, TypeOK, Struct, Known
  <2> QED BY <1>1, <1>16, <1>18, <2>1, AnswerTypes DEF Dispute
<1>20. entryAt(r, i)' = g /\ entryAt(r, o)' = h BY <1>2, <1>16
<1>21. \A q \in Rounds : \A j \in Indices(q) : ~(q = r /\ j \in {i, o}) => KeptAt(q, j)
  BY <1>1, <1>16, <1>18 DEF KeptAt, SamePlaces, confirmedAt
<1>22. submissionAt(r, i)' = submissionAt(r, i) /\ submissionAt(r, o)' = submissionAt(r, o)
  BY <1>2, <1>18 DEF SamePlaces
<1>23. Answered(r, i) BY <1>13, <1>16, <1>18, <1>20, <1>22 DEF Answered
<1> QED BY <1>1, <1>2, <1>6, <1>13, <1>14, <1>15, <1>19, <1>20, <1>21, <1>22, <1>23 DEF s, t

\* and keeps the invariant.
LEMMA SecondDispute ==
  ASSUME Dispute, NEW r \in Rounds, NEW i \in Indices(r),
         respondToBinarySearchForChallenge(r, i), ~FirstToStep(r, i)
  PROVE  Dispute'
<1>0. PICK o : o = getOpponentIdx(i) OBVIOUS
<1>1. /\ Answered(r, i) /\ TypeOK' /\ Struct'
      /\ \A q \in Rounds : \A j \in Indices(q) : ~(q = r /\ j \in {i, o}) => KeptAt(q, j)
      /\ submissionAt(r, o)' = submissionAt(r, o) /\ jrhConfirmed' = jrhConfirmed
      /\ Shape(entryAt(r, i)', submissionAt(r, i), jrhConfirmed)
      /\ Shape(entryAt(r, o)', submissionAt(r, o), jrhConfirmed)
      /\ PairShape(entryAt(r, i)', entryAt(r, o)', submissionAt(r, i), submissionAt(r, o),
                   jrhConfirmed)
  BY <1>0, SecondView
<1>2. PlaceOK(r, i)' /\ PlaceOK(r, o)' /\ PairOK(r, i, o)'
  BY <1>1 DEF PlaceOK, PairOK, Answered
<1>3. Shaped' /\ Paired'
  <2>1. SamePlaces /\ TypeOK /\ Shaped /\ Paired BY <1>1 DEF Dispute, Answered
  <2> QED BY <1>0, <1>1, <1>2, <2>1, LocalDisputes
<1> QED BY <1>1, <1>3 DEF Dispute

-----------------------------------------------------------------------------
(* Steps that answer nothing.                                              *)

\* A step that leaves all steps and bounds keeps every entry and pair in shape.
LEMMA AlikeDisputes ==
  ASSUME TypeOK, SamePlaces, jrhConfirmed' = jrhConfirmed,
         \A q \in Rounds : \A j \in Indices(q) : Alike(entryAt(q, j)', entryAt(q, j))
  PROVE  (Shaped => Shaped') /\ (Paired => Paired')
<1>1. \A q \in Rounds : /\ Indices(q)' = Indices(q)
                        /\ \A j : InRound(q, j)' <=> InRound(q, j)
  BY SameIndices
<1>2. ASSUME Shaped, NEW q \in Rounds, NEW j \in Indices(q) PROVE PlaceOK(q, j)'
  <2>1. /\ Alike(entryAt(q, j)', entryAt(q, j)) /\ PlaceOK(q, j)
        /\ submissionAt(q, j)' = submissionAt(q, j)
    BY <1>2 DEF Shaped, SamePlaces
  <2> QED BY <2>1, AlikeShape DEF PlaceOK
<1>3. ASSUME Paired, NEW q \in Rounds, NEW j \in Indices(q), InRound(q, getOpponentIdx(j)),
             NEW o, o = getOpponentIdx(j)
      PROVE  PairOK(q, j, o)'
  <2>1. o \in Indices(q) BY <1>3 DEF InRound
  <2>2. /\ Alike(entryAt(q, j)', entryAt(q, j)) /\ Alike(entryAt(q, o)', entryAt(q, o))
        /\ PairOK(q, j, o)
        /\ submissionAt(q, j)' = submissionAt(q, j) /\ submissionAt(q, o)' = submissionAt(q, o)
    BY <1>3, <2>1 DEF Paired, SamePlaces
  <2> QED BY <2>2, AlikePair DEF PairOK, Held
<1>4. Shaped => Shaped' BY <1>1, <1>2 DEF Shaped
<1>5. Paired => Paired' BY <1>1, <1>3 DEF Paired
<1> QED BY <1>4, <1>5

\* An entry is like itself.
LEMMA AlikeAll ==
  \A e, f : e = f => Alike(e, f)
BY DEF Alike

\* A tick changes an entry's age only.
LEMMA OlderFacts ==
  ASSUME NEW e \in EntryType
  PROVE  /\ Alike(older(e), e) /\ older(e).firstSubmitter = e.firstSubmitter
         /\ older(e).age = IF e.age < MaxAge THEN e.age + 1 ELSE e.age
BY DEF EntryType, older, Alike

\* The rest of the state at a tick.
LEMMA TickDispute ==
  ASSUME Dispute, Tick
  PROVE  Dispute' /\ SamePlaces
<1>1. TypeOK /\ Known BY DEF Dispute, Struct
<1>2. /\ RoundsType'
      /\ \A q \in Rounds : Len(disputeRounds'[q]) = Len(disputeRounds[q])
      /\ \A q \in Rounds : \A j \in Indices(q) :
           entryAt(q, j)' = IF submissionWindowClosed THEN older(entryAt(q, j)) ELSE entryAt(q, j)
  BY <1>1, TickView
<1>3. \A q \in Rounds : \A j \in Indices(q) :
        Alike(entryAt(q, j)', entryAt(q, j)) /\ entryAt(q, j)'.firstSubmitter = entryAt(q, j).firstSubmitter
  <2> TAKE q \in Rounds
  <2> TAKE j \in Indices(q)
  <2>1. entryAt(q, j) \in EntryType BY <1>1, EntryFacts
  <2> QED BY <1>2, <2>1, OlderFacts, AlikeAll
<1>4. /\ jrhConfirmed' = jrhConfirmed /\ rewardsPaidOut' = rewardsPaidOut /\ confirmed' = confirmed
      /\ submittedHashes' = submittedHashes /\ submission' = submission
      /\ submittedEntries' = submittedEntries /\ nUniqueSubmittedHashes' = nUniqueSubmittedHashes
      /\ nHashesCompletedChallengeRound' = nHashesCompletedChallengeRound
      /\ nInvalidatedHashes' = nInvalidatedHashes /\ firstIncompleteRound' = firstIncompleteRound
      /\ stakeLost' = stakeLost /\ timesInvalidated' = timesInvalidated
      /\ settledAgain' = settledAgain
      /\ windowAge' = IF windowAge <= MiningWindow THEN windowAge + 1 ELSE windowAge
  BY DEF Tick, submitVars, outcomeVars
<1>5. /\ SamePlaces
      /\ \A q \in Rounds : \A j \in Indices(q)' :
              entryAt(q, j)'.firstSubmitter # NoMiner
                => submission'[entryAt(q, j)'.firstSubmitter] # NoSubmission
  BY <1>1, <1>2, <1>3, <1>4, SameHolders
<1>6. windowAge' \in 0 .. MiningWindow + 1 /\ windowAge <= windowAge'
  BY <1>1, <1>4, WindowAssumption DEF TypeOK
<1>7. TypeOK' BY <1>1, <1>2, <1>4, <1>6 DEF TypeOK, RoundsType
<1>8. submissionWindowClosed => submissionWindowClosed'
  BY <1>1, <1>6, WindowAssumption DEF TypeOK, submissionWindowClosed
<1>9. Submitted' = Submitted /\ Out' = Out BY <1>4 DEF Submitted, Out
<1>10. Known' BY <1>1, <1>4, <1>5, <1>8, <1>9 DEF Known
<1>11. Struct' BY <1>4, <1>5, <1>8, <1>9, <1>10, QuietStruct DEF Dispute
<1>12. Shaped' /\ Paired' BY <1>3, <1>4, <1>5, AlikeDisputes DEF Dispute
<1> QED BY <1>5, <1>7, <1>11, <1>12 DEF Dispute

\* Nothing changes, or only the outcome does.
Same ==
  /\ jrhConfirmed' = jrhConfirmed /\ rewardsPaidOut' = rewardsPaidOut
  /\ windowAge' = windowAge /\ disputeRounds' = disputeRounds
  /\ submittedHashes' = submittedHashes /\ submission' = submission
  /\ submittedEntries' = submittedEntries /\ nUniqueSubmittedHashes' = nUniqueSubmittedHashes
  /\ nHashesCompletedChallengeRound' = nHashesCompletedChallengeRound
  /\ nInvalidatedHashes' = nInvalidatedHashes /\ firstIncompleteRound' = firstIncompleteRound
  /\ stakeLost' = stakeLost /\ timesInvalidated' = timesInvalidated
  /\ settledAgain' = settledAgain

\* A step that changes only the outcome keeps the invariant,
LEMMA SameDispute ==
  ASSUME Dispute, Same, confirmed' \in Submissions \cup {NoSubmission}
  PROVE  Dispute' /\ SamePlaces /\ \A q \in Rounds : \A j \in Indices(q) : KeptAt(q, j)
<1>1. TypeOK /\ Known BY DEF Dispute, Struct
<1>2. TypeOK' BY <1>1 DEF TypeOK, Same
<1>3. \A q \in Rounds : \A j : entryAt(q, j)' = entryAt(q, j) /\ submissionAt(q, j)' = submissionAt(q, j)
  BY DEF entryAt, submissionAt, submissionOf, Same
<1>4. SamePlaces BY <1>3 DEF SamePlaces, Same
<1>5. Submitted' = Submitted /\ Out' = Out /\ (submissionWindowClosed' <=> submissionWindowClosed)
  BY DEF Submitted, Out, submissionWindowClosed, Same
<1>6. \A q \in Rounds : Indices(q)' = Indices(q) BY <1>4, SameIndices
<1>7. Known' BY <1>1, <1>3, <1>5, <1>6 DEF Known, Same
<1>8. Struct' BY <1>4, <1>5, <1>7, QuietStruct DEF Dispute, Same
<1>9. Shaped' /\ Paired' BY <1>1, <1>3, <1>4, AlikeDisputes, AlikeAll DEF Dispute, Same
<1>10. \A q \in Rounds : \A j \in Indices(q) : KeptAt(q, j)
  BY <1>3 DEF KeptAt, confirmedAt, Same
<1> QED BY <1>2, <1>4, <1>8, <1>9, <1>10 DEF Dispute

\* confirmNewHash is one, and confirms the only hash left.
LEMMA ConfirmDispute ==
  ASSUME Dispute, NEW r \in Rounds, confirmNewHash(r)
  PROVE  Dispute' /\ Same /\ confirmed' = submissionAt(r, 0) /\ Len(disputeRounds[r]) = 1
         /\ nUniqueSubmittedHashes - nInvalidatedHashes = 1 /\ submissionWindowClosed
<1>1. TypeOK BY DEF Dispute
<1>2. /\ Same /\ confirmed' = submissionAt(r, 0) /\ Len(disputeRounds[r]) = 1
      /\ nUniqueSubmittedHashes - nInvalidatedHashes = 1 /\ submissionWindowClosed
  BY DEF confirmNewHash, finalDisputeRoundCompleted, submitVars, outcomeVars, Same
<1>3. confirmed' \in Submissions \cup {NoSubmission}
  BY <1>1, <1>2, IndexFacts, HolderFacts
<1> QED BY <1>2, <1>3, SameDispute

-----------------------------------------------------------------------------
(* Submitting.                                                             *)

\* What a submission leaves behind, the rounds apart.
LEMMA SubmitFacts ==
  ASSUME Dispute, NEW m \in Miners, NEW s \in Proposes[m], NEW x \in 1 .. Entries[m],
         submitRootHash(m, s, x)
  PROVE  /\ s \in Submissions /\ s # NoSubmission
         /\ submission' \in [Miners -> Submissions \cup {NoSubmission}] /\ submission'[m] = s
         /\ submittedHashes' \in [Submissions -> Seq(Miners)]
         /\ submittedEntries' \in [Miners -> SUBSET Nat]
         /\ Submitted' = Submitted \cup {s}
         /\ newHash(s) <=> s \notin Submitted
         /\ \A l \in Miners : submission[l] # NoSubmission => submission'[l] = submission[l]
         /\ \A l \in Miners : submission'[l] # NoSubmission => submission'[l] \in Submitted'
<1>1. TypeOK /\ Known BY DEF Dispute, Struct
<1>2. s \in Submissions /\ s # NoSubmission /\ x \in Nat
  BY NoHash, SubmissionAssumption
<1>3. /\ submission' = [submission EXCEPT ![m] = s]
      /\ submittedHashes' = [submittedHashes EXCEPT ![s] = Append(@, m)]
      /\ submittedEntries' = [submittedEntries EXCEPT ![m] = @ \cup {x}]
      /\ submission[m] # NoSubmission => s = submission[m]
  BY DEF submitRootHash, checkEntryQualifies
<1>4. /\ submission \in [Miners -> Submissions \cup {NoSubmission}]
      /\ submittedHashes \in [Submissions -> Seq(Miners)]
      /\ submittedEntries \in [Miners -> SUBSET Nat]
  BY <1>1 DEF TypeOK
<1>5. submittedHashes[s] \in Seq(Miners) BY <1>2, <1>4
<1>6. Append(submittedHashes[s], m) \in Seq(Miners) /\ Append(submittedHashes[s], m) # <<>>
  BY <1>5
<1>7. Submitted' = Submitted \cup {s}
  <2>1. \A q \in Submissions : submittedHashes'[q] =
          IF q = s THEN Append(submittedHashes[s], m) ELSE submittedHashes[q]
    BY <1>2, <1>3, <1>4
  <2> QED BY <1>2, <1>6, <2>1 DEF Submitted
<1>8. submittedHashes' \in [Submissions -> Seq(Miners)]
  <2> DEFINE y == Append(submittedHashes[s], m)
  <2>1. submittedHashes' = [submittedHashes EXCEPT ![s] = y] BY <1>3
  <2>2. y \in Seq(Miners) BY <1>6
  <2> HIDE DEF y
  <2> QED BY <1>4, <2>1, <2>2
<1>9. newHash(s) <=> s \notin Submitted BY <1>2 DEF newHash, Submitted
<1>10. submission' \in [Miners -> Submissions \cup {NoSubmission}] /\ submission'[m] = s
  BY <1>2, <1>3, <1>4
<1>11. submittedEntries' \in [Miners -> SUBSET Nat] BY <1>2, <1>3, <1>4
<1>12. ASSUME NEW l \in Miners
       PROVE  /\ submission[l] # NoSubmission => submission'[l] = submission[l]
              /\ submission'[l] # NoSubmission => submission'[l] \in Submitted'
  <2>1. submission'[l] = IF l = m THEN s ELSE submission[l] BY <1>3, <1>4
  <2>2. submission[l] # NoSubmission => submission[l] \in Submitted BY <1>1 DEF Known
  <2> QED BY <1>3, <1>7, <2>1, <2>2
<1> QED BY <1>2, <1>7, <1>8, <1>9, <1>10, <1>11, <1>12

SubmitFrame ==
  /\ windowAge' = windowAge /\ jrhConfirmed' = jrhConfirmed
  /\ rewardsPaidOut' = rewardsPaidOut /\ confirmed' = confirmed
  /\ nHashesCompletedChallengeRound' = nHashesCompletedChallengeRound
  /\ nInvalidatedHashes' = nInvalidatedHashes /\ firstIncompleteRound' = firstIncompleteRound
  /\ stakeLost' = stakeLost /\ timesInvalidated' = timesInvalidated
  /\ settledAgain' = settledAgain

\* Submitting a hash that is there already keeps the invariant,
LEMMA SubmitOld ==
  ASSUME Dispute, NEW m \in Miners, NEW s \in Proposes[m], NEW x \in 1 .. Entries[m],
         submitRootHash(m, s, x), ~newHash(s)
  PROVE  Dispute' /\ SamePlaces /\ disputeRounds' = disputeRounds /\ SubmitFrame
         /\ Submitted' = Submitted
<1>1. TypeOK /\ Known BY DEF Dispute, Struct
<1>2. /\ s \in Submissions /\ s # NoSubmission
      /\ submission' \in [Miners -> Submissions \cup {NoSubmission}]
      /\ submittedHashes' \in [Submissions -> Seq(Miners)]
      /\ submittedEntries' \in [Miners -> SUBSET Nat]
      /\ Submitted' = Submitted
      /\ \A l \in Miners : submission[l] # NoSubmission => submission'[l] = submission[l]
      /\ \A l \in Miners : submission'[l] # NoSubmission => submission'[l] \in Submitted'
  BY SubmitFacts
<1>3. SubmitFrame /\ disputeRounds' = disputeRounds
      /\ nUniqueSubmittedHashes' = nUniqueSubmittedHashes
  BY DEF submitRootHash, SubmitFrame, outcomeVars
<1>4. TypeOK' BY <1>1, <1>2, <1>3 DEF TypeOK, SubmitFrame
<1>5. \A q \in Rounds : \A j : entryAt(q, j)' = entryAt(q, j) BY <1>3 DEF entryAt
<1>6. /\ SamePlaces
      /\ \A q \in Rounds : \A j \in Indices(q)' :
              entryAt(q, j)'.firstSubmitter # NoMiner
                => submission'[entryAt(q, j)'.firstSubmitter] # NoSubmission
  BY <1>1, <1>2, <1>3, <1>5, SameHolders
<1>7. Out' = Out /\ (submissionWindowClosed' <=> submissionWindowClosed)
  BY <1>3 DEF Out, submissionWindowClosed, SubmitFrame
<1>8. Known' BY <1>1, <1>2, <1>3, <1>6, <1>7 DEF Known, SubmitFrame
<1>9. Struct' BY <1>2, <1>3, <1>6, <1>7, <1>8, QuietStruct DEF Dispute, SubmitFrame
<1>10. Shaped' /\ Paired' BY <1>3, <1>5, <1>6, AlikeDisputes, AlikeAll DEF Dispute, SubmitFrame
<1> QED BY <1>2, <1>3, <1>4, <1>6, <1>9, <1>10 DEF Dispute

\* Where a new hash goes.
LEMMA SubmitNewView ==
  ASSUME Dispute, NEW m \in Miners, NEW s \in Proposes[m], NEW x \in 1 .. Entries[m],
         submitRootHash(m, s, x), newHash(s), NEW n, n = Len(disputeRounds[0])
  PROVE  /\ RoundsType' /\ newEntry(m) \in EntryType
         /\ \A q \in Rounds :
              Len(disputeRounds'[q]) = IF q = 0 THEN n + 1 ELSE Len(disputeRounds[q])
         /\ \A q \in Rounds : \A j \in Indices(q) : entryAt(q, j)' = entryAt(q, j)
         /\ \A q \in Rounds : \A j \in Indices(q) : submissionAt(q, j)' = submissionAt(q, j)
         /\ entryAt(0, n)' = newEntry(m) /\ submissionAt(0, n)' = s
         /\ \A q \in Rounds : \A j :
              /\ j \in Indices(q)' <=> j \in Indices(q) \/ (q = 0 /\ j = n)
              /\ InRound(q, j)' <=> j \in Indices(q)'
              /\ InRound(q, j) <=> j \in Indices(q)
         /\ n \in Nat /\ n \notin Indices(0)
         /\ SubmitFrame /\ nUniqueSubmittedHashes' = nUniqueSubmittedHashes + 1
         /\ ~submissionWindowClosed \/ nUniqueSubmittedHashes = 0
<1>1. TypeOK /\ Known BY DEF Dispute, Struct
<1>2. /\ submission'[m] = s
      /\ \A l \in Miners : submission[l] # NoSubmission => submission'[l] = submission[l]
  BY SubmitFacts
<1>3. /\ disputeRounds' = [disputeRounds EXCEPT ![0] = Append(@, newEntry(m))]
      /\ nUniqueSubmittedHashes' = nUniqueSubmittedHashes + 1
      /\ SubmitFrame /\ submissionPossible
  BY DEF submitRootHash, newEntry, SubmitFrame, outcomeVars
<1>4. /\ RoundsType' /\ newEntry(m) \in EntryType
      /\ \A q \in Rounds :
           Len(disputeRounds'[q]) = IF q = 0 THEN n + 1 ELSE Len(disputeRounds[q])
      /\ \A q \in Rounds : \A j \in Indices(q) : entryAt(q, j)' = entryAt(q, j)
      /\ entryAt(0, n)' = newEntry(m)
  BY <1>1, <1>3, SubmitView
<1>5. newEntry(m).firstSubmitter = m
  <2>1. "firstSubmitter" \in DOMAIN DeletedEntry /\ "age" \in DOMAIN DeletedEntry
    BY DEF DeletedEntry
  <2> QED BY DEF newEntry, DeletedEntry
<1>6. submissionAt(0, n)' = s
  <2>1. m # NoMiner BY NoHash
  <2> QED BY <1>2, <1>4, <1>5, <2>1 DEF submissionAt, submissionOf
<1>7. ASSUME NEW q \in Rounds, NEW j \in Indices(q)
      PROVE  submissionAt(q, j)' = submissionAt(q, j)
  <2>1. entryAt(q, j) \in EntryType BY <1>1, EntryFacts
  <2>2. entryAt(q, j).firstSubmitter \in Miners \cup {NoMiner} BY <2>1 DEF EntryType
  <2>3. entryAt(q, j).firstSubmitter # NoMiner
          => submission[entryAt(q, j).firstSubmitter] # NoSubmission BY <1>1 DEF Known
  <2> QED BY <1>2, <1>4, <2>2, <2>3 DEF submissionAt, submissionOf
<1>8. n \in Nat /\ n \notin Indices(0) BY <1>1, RoundFacts, IndexFacts
<1>9. ASSUME NEW q \in Rounds, NEW j
      PROVE  /\ j \in Indices(q)' <=> j \in Indices(q) \/ (q = 0 /\ j = n)
             /\ InRound(q, j)' <=> j \in Indices(q)'
             /\ InRound(q, j) <=> j \in Indices(q)
  <2>1. Len(disputeRounds[q]) \in Nat BY <1>1, IndexFacts
  <2>2. q = 0 => Len(disputeRounds[q]) = n OBVIOUS
  <2>3. Indices(q)' = IF q = 0 THEN 0 .. (n + 1) - 1 ELSE 0 .. Len(disputeRounds[q]) - 1
    BY <1>4 DEF Indices
  <2>4. CASE q = 0
    <3>1. Indices(q)' = 0 .. n /\ Indices(q) = 0 .. n - 1 BY <1>8, <2>2, <2>3, <2>4 DEF Indices
    <3> QED BY <1>8, <2>4, <3>1 DEF InRound
  <2>5. CASE q # 0 BY <2>3, <2>5 DEF Indices, InRound
  <2> QED BY <2>4, <2>5
<1> QED BY <1>3, <1>4, <1>6, <1>7, <1>8, <1>9 DEF submissionPossible

\* and so does submitting a new one.
LEMMA SubmitNew ==
  ASSUME Dispute, NEW m \in Miners, NEW s \in Proposes[m], NEW x \in 1 .. Entries[m],
         submitRootHash(m, s, x), newHash(s)
  PROVE  Dispute'
<1>0. PICK n : n = Len(disputeRounds[0]) OBVIOUS
<1>1. TypeOK /\ Known BY DEF Dispute, Struct
<1>2. /\ s \in Submissions /\ s # NoSubmission /\ s \notin Submitted
      /\ submission' \in [Miners -> Submissions \cup {NoSubmission}]
      /\ submittedHashes' \in [Submissions -> Seq(Miners)]
      /\ submittedEntries' \in [Miners -> SUBSET Nat]
      /\ Submitted' = Submitted \cup {s}
      /\ \A l \in Miners : submission[l] # NoSubmission => submission'[l] = submission[l]
      /\ \A l \in Miners : submission'[l] # NoSubmission => submission'[l] \in Submitted'
  BY SubmitFacts
<1>3. /\ RoundsType' /\ newEntry(m) \in EntryType
      /\ \A q \in Rounds :
           Len(disputeRounds'[q]) = IF q = 0 THEN n + 1 ELSE Len(disputeRounds[q])
      /\ \A q \in Rounds : \A j \in Indices(q) : entryAt(q, j)' = entryAt(q, j)
      /\ \A q \in Rounds : \A j \in Indices(q) : submissionAt(q, j)' = submissionAt(q, j)
      /\ entryAt(0, n)' = newEntry(m) /\ submissionAt(0, n)' = s
      /\ \A q \in Rounds : \A j :
           /\ j \in Indices(q)' <=> j \in Indices(q) \/ (q = 0 /\ j = n)
           /\ InRound(q, j)' <=> j \in Indices(q)'
           /\ InRound(q, j) <=> j \in Indices(q)
      /\ n \in Nat /\ n \notin Indices(0)
      /\ SubmitFrame /\ nUniqueSubmittedHashes' = nUniqueSubmittedHashes + 1
      /\ ~submissionWindowClosed \/ nUniqueSubmittedHashes = 0
  BY <1>0, SubmitNewView
<1>4. TypeOK' BY <1>1, <1>2, <1>3 DEF TypeOK, SubmitFrame, RoundsType
<1>5. Out' = Out /\ (submissionWindowClosed' <=> submissionWindowClosed)
  BY <1>3 DEF Out, submissionWindowClosed, SubmitFrame
<1>6. Known'
  <2>1. ASSUME NEW q \in Rounds, NEW j \in Indices(q)', entryAt(q, j)'.firstSubmitter # NoMiner
        PROVE  submission'[entryAt(q, j)'.firstSubmitter] # NoSubmission
    <3>1. CASE j \in Indices(q)
      <4>1. entryAt(q, j) \in EntryType BY <1>1, <3>1, EntryFacts
      <4>2. entryAt(q, j).firstSubmitter \in Miners \cup {NoMiner} BY <4>1 DEF EntryType
      <4>3. entryAt(q, j).firstSubmitter # NoMiner
              => submission[entryAt(q, j).firstSubmitter] # NoSubmission BY <1>1, <3>1 DEF Known
      <4> QED BY <1>2, <1>3, <2>1, <3>1, <4>2, <4>3
    <3>2. CASE j \notin Indices(q)
      <4>1. submissionAt(q, j)' # NoSubmission BY <1>2, <1>3, <3>2
      <4> QED BY <2>1, <4>1 DEF submissionAt, submissionOf
    <3> QED BY <3>1, <3>2
  <2>2. /\ Out \subseteq Submitted /\ jrhConfirmed \subseteq Submitted
        /\ jrhConfirmed # {} => submissionWindowClosed
    BY <1>1 DEF Known
  <2> QED BY <1>2, <1>3, <1>5, <2>1, <2>2 DEF Known, SubmitFrame
<1>7. Struct'
  <2>1. submissionWindowClosed' = submissionWindowClosed
    BY <1>3 DEF submissionWindowClosed, SubmitFrame
  <2> QED BY <1>0, <1>2, <1>3, <1>6, <2>1, SubmitStruct DEF Dispute, SubmitFrame
<1>8. s \notin jrhConfirmed /\ jrhConfirmed' = jrhConfirmed
  BY <1>1, <1>2, <1>3 DEF Known, SubmitFrame
<1>9. newEntry(m).challengeStepCompleted = 0 /\ newEntry(m).lowerBound = 0
  BY DEF newEntry, DeletedEntry
<1>10. ASSUME NEW q \in Rounds, NEW j \in Indices(q) PROVE KeptAt(q, j)
  BY <1>3, <1>8 DEF KeptAt, confirmedAt
<1>11. Shaped'
  <2> SUFFICES ASSUME NEW q \in Rounds, NEW j \in Indices(q)' PROVE PlaceOK(q, j)'
    BY DEF Shaped
  <2>1. CASE j \in Indices(q) BY <1>10, <2>1, KeptPlaces DEF Dispute, Shaped
  <2>2. CASE j \notin Indices(q)
    <3>1. q = 0 /\ j = n BY <1>3, <2>2
    <3>2. Shape(newEntry(m), s, jrhConfirmed) BY <1>8, <1>9 DEF Shape
    <3> QED BY <1>3, <1>8, <3>1, <3>2 DEF PlaceOK
  <2> QED BY <2>1, <2>2
<1>12. Paired'
  <2> SUFFICES ASSUME NEW q \in Rounds, NEW j \in Indices(q)', NEW o, o = getOpponentIdx(j),
                      InRound(q, o)'
               PROVE  PairOK(q, j, o)'
    BY DEF Paired
  <2>1. o \in Indices(q)' BY <1>3
  <2>2. CASE j \in Indices(q) /\ o \in Indices(q)
    BY <1>3, <1>10, <2>2, KeptPlaces DEF Dispute, Paired
  <2>3. CASE ~(j \in Indices(q) /\ o \in Indices(q))
    <3>1. j \in Nat BY <1>1, <1>3, IndexFacts
    <3>2. o # j BY <3>1, OpponentFacts
    <3>3. q = 0 /\ (j \in Indices(0) \/ o \in Indices(0)) BY <1>3, <2>1, <2>3, <3>2
    <3>4. n > 0 BY <1>0, <1>1, <3>3, RoundFacts, IndexFacts
    <3>5. nUniqueSubmittedHashes # 0 BY <1>0, <3>4 DEF Dispute, Struct, Numbered
    <3>6. jrhConfirmed = {} BY <1>1, <1>3, <3>5 DEF Known
    <3> QED BY <1>8, <3>6 DEF PairOK, PairShape
  <2> QED BY <2>2, <2>3
<1> QED BY <1>4, <1>7, <1>11, <1>12 DEF Dispute

-----------------------------------------------------------------------------
(* Moving on.                                                              *)

\* startMemberOfPair leaves an entry at the start of a dispute.
LEMMA StartFacts ==
  ASSUME NEW e \in EntryType, NEW g, g = startMemberOfPair(e)
  PROVE  /\ g.firstSubmitter = e.firstSubmitter /\ g.age = 0
         /\ Fresh(g, submissionOf(e), jrhConfirmed)
<1> DEFINE u == IF submissionOf(e) \in jrhConfirmed THEN NLeaves - 1 ELSE NoUpperBound
           c == IF submissionOf(e) \in jrhConfirmed THEN 1 ELSE 0
<1>1. g = [e EXCEPT !.age = 0, !.lowerBound = 0, !.upperBound = u, !.challengeStepCompleted = c]
  BY DEF startMemberOfPair
<1> HIDE DEF u, c
<1>2. /\ g.firstSubmitter = e.firstSubmitter /\ g.age = 0
      /\ g.lowerBound = 0 /\ g.upperBound = u /\ g.challengeStepCompleted = c
  BY <1>1 DEF EntryType
<1> QED BY <1>2 DEF Fresh, u, c

\* And what that comes to for the hashes.
HashMoved(r, o, n) ==
  /\ \A q \in Rounds : \A j \in Indices(q) :
       submissionAt(q, j)' = IF q = r /\ j = o THEN NoSubmission ELSE submissionAt(q, j)
  /\ submissionAt(r + 1, n)' = submissionAt(r, o)
  /\ n \in Nat /\ n \notin Indices(r + 1)
  /\ \A q \in Rounds : \A j :
       /\ j \in Indices(q)' <=> j \in Indices(q) \/ (q = r + 1 /\ j = n)
       /\ InRound(q, j)' <=> j \in Indices(q)'
       /\ InRound(q, j) <=> j \in Indices(q)
  /\ \A q \in Rounds : \A j \in Indices(q) : Apart(r, o, n, q, j) => KeptAt(q, j)
  /\ \A q \in Rounds : \A j \in Indices(q)' :
       entryAt(q, j)'.firstSubmitter # NoMiner
         => submission'[entryAt(q, j)'.firstSubmitter] # NoSubmission

\* A hash that moves on, entry by entry.
LEMMA MoveView ==
  ASSUME Dispute, NEW r \in PlayableRounds, NEW o \in Indices(r), progress(r, o),
         submission' = submission, jrhConfirmed' = jrhConfirmed,
         NEW n, n = Len(disputeRounds[r + 1])
  PROVE  Progressed(r, o, n) /\ HashMoved(r, o, n)
<1> DEFINE e == entryAt(r, o)
<1>0. TypeOK /\ Known BY DEF Dispute, Struct
<1>1. r \in Rounds /\ r + 1 \in Rounds /\ r # r + 1 BY RoundFacts
<1>2. Progressed(r, o, n) BY <1>0, ProgressView
<1>3. n \in Nat /\ n \notin Indices(r + 1) BY <1>0, <1>1, IndexFacts
<1>4. ASSUME NEW q \in Rounds, NEW j
      PROVE  /\ j \in Indices(q)' <=> j \in Indices(q) \/ (q = r + 1 /\ j = n)
             /\ InRound(q, j)' <=> j \in Indices(q)'
             /\ InRound(q, j) <=> j \in Indices(q)
  <2>1. Len(disputeRounds[q]) \in Nat BY <1>0, IndexFacts
  <2>2. q = r + 1 => Len(disputeRounds[q]) = n OBVIOUS
  <2>3. Indices(q)' = IF q = r + 1 THEN 0 .. (n + 1) - 1 ELSE 0 .. Len(disputeRounds[q]) - 1
    BY <1>2 DEF Indices, Progressed
  <2>4. CASE q = r + 1
    <3>1. Indices(q)' = 0 .. n /\ Indices(q) = 0 .. n - 1 BY <1>3, <2>2, <2>3, <2>4 DEF Indices
    <3> QED BY <1>3, <2>4, <3>1 DEF InRound
  <2>5. CASE q # r + 1 BY <2>3, <2>5 DEF Indices, InRound
  <2> QED BY <2>4, <2>5
<1>5. DeletedEntry.firstSubmitter = NoMiner BY DEF DeletedEntry
<1>6. e \in EntryType BY <1>0, <1>1, EntryFacts
<1>7. entryAt(r + 1, n)'.firstSubmitter = e.firstSubmitter
  <2>1. Reset(e).firstSubmitter = e.firstSubmitter BY <1>6, ResetFacts
  <2>2. startMemberOfPair(e).firstSubmitter = e.firstSubmitter BY <1>6, StartFacts
  <2>3. n % 2 = 0 \/ n % 2 = 1 BY <1>3, Parity
  <2> QED BY <1>2, <2>1, <2>2, <2>3 DEF Progressed
<1>8. ASSUME NEW q \in Rounds, NEW j \in Indices(q), ~(q = r /\ j = o)
      PROVE  entryAt(q, j)'.firstSubmitter = entryAt(q, j).firstSubmitter
  <2>1. entryAt(q, j) \in EntryType BY <1>0, EntryFacts
  <2>2. CASE q = r + 1 /\ n % 2 = 1 /\ j = n - 1
    BY <1>2, <2>1, <2>2, StartFacts DEF Progressed
  <2>3. CASE ~(q = r + 1 /\ n % 2 = 1 /\ j = n - 1)
    <3>1. Apart(r, o, n, q, j) BY <1>8, <2>3 DEF Apart
    <3> QED BY <1>2, <3>1 DEF Progressed
  <2> QED BY <2>2, <2>3
<1>9. ASSUME NEW q \in Rounds, NEW j \in Indices(q)
      PROVE  submissionAt(q, j)' = IF q = r /\ j = o THEN NoSubmission ELSE submissionAt(q, j)
  BY <1>1, <1>2, <1>5, <1>8 DEF submissionAt, submissionOf, Progressed
<1>10. submissionAt(r + 1, n)' = submissionAt(r, o) BY <1>7 DEF submissionAt, submissionOf
<1>12. ASSUME NEW q \in Rounds, NEW j \in Indices(q)', entryAt(q, j)'.firstSubmitter # NoMiner
       PROVE  submission'[entryAt(q, j)'.firstSubmitter] # NoSubmission
  <2>1. CASE j \in Indices(q) /\ q = r /\ j = o BY <1>2, <1>5, <1>12, <2>1 DEF Progressed
  <2>2. CASE j \in Indices(q) /\ ~(q = r /\ j = o) BY <1>0, <1>8, <1>12, <2>2 DEF Known
  <2>3. CASE j \notin Indices(q)
    <3>1. q = r + 1 /\ j = n BY <1>4, <2>3
    <3> QED BY <1>0, <1>1, <1>7, <1>12, <3>1 DEF Known
  <2> QED BY <2>1, <2>2, <2>3
<1>13. ASSUME NEW q \in Rounds, NEW j \in Indices(q), Apart(r, o, n, q, j)
       PROVE  KeptAt(q, j)
  BY <1>2, <1>9, <1>13 DEF KeptAt, confirmedAt, Apart, Progressed
<1> QED BY <1>2, <1>3, <1>4, <1>9, <1>10, <1>12, <1>13 DEF HashMoved

\* When a hash moves on every entry stays well shaped,
LEMMA MoveShaped ==
  ASSUME Dispute, NEW r \in PlayableRounds, NEW o \in Indices(r), progress(r, o),
         submission' = submission, jrhConfirmed' = jrhConfirmed
  PROVE  Shaped'
<1>0. PICK n : n = Len(disputeRounds[r + 1]) OBVIOUS
<1>1. r \in Rounds /\ r + 1 \in Rounds /\ r # r + 1 /\ TypeOK BY RoundFacts DEF Dispute
<1>2. Progressed(r, o, n) /\ HashMoved(r, o, n) BY <1>0, MoveView
<1> SUFFICES ASSUME NEW q \in Rounds, NEW j \in Indices(q)' PROVE PlaceOK(q, j)'
  BY DEF Shaped
<1>3. CASE q = r /\ j = o
  <2>1. NoSubmission \notin jrhConfirmed BY <1>1, NoHash DEF TypeOK
  <2>2. Shape(DeletedEntry, NoSubmission, jrhConfirmed) BY <2>1 DEF Shape, DeletedEntry
  <2> QED BY <1>1, <1>2, <1>3, <2>2 DEF PlaceOK, Progressed, HashMoved
<1>4. CASE q = r + 1 /\ n % 2 = 1 /\ j = n - 1
  <2> DEFINE e == entryAt(r + 1, n - 1)
             g == startMemberOfPair(e)
  <2>1. /\ e \in EntryType /\ j \in Indices(q) /\ ~(q = r /\ j = o)
        /\ submissionOf(e) = submissionAt(r + 1, n - 1)
    BY <1>1, <1>2, <1>4, EntryFacts DEF submissionAt, HashMoved
  <2>2. Fresh(g, submissionOf(e), jrhConfirmed) BY <2>1, StartFacts
  <2>3. Shape(g, submissionOf(e), jrhConfirmed) BY <2>2, FreshShape
  <2> QED BY <1>2, <1>4, <2>1, <2>3 DEF PlaceOK, Progressed, HashMoved
<1>5. CASE j \notin Indices(q)
  <2> DEFINE e == entryAt(r, o)
  <2>1. q = r + 1 /\ j = n BY <1>2, <1>5 DEF HashMoved
  <2>2. e \in EntryType /\ submissionOf(e) = submissionAt(r, o)
    BY <1>1, EntryFacts DEF submissionAt, HashMoved
  <2>3. CASE n % 2 = 1
    <3>1. Fresh(startMemberOfPair(e), submissionOf(e), jrhConfirmed) BY <2>2, StartFacts
    <3>2. Shape(startMemberOfPair(e), submissionOf(e), jrhConfirmed) BY <3>1, FreshShape
    <3> QED BY <1>2, <2>1, <2>2, <2>3, <3>2 DEF PlaceOK, Progressed, HashMoved
  <2>4. CASE n % 2 = 0
    <3>1. Shape(e, submissionOf(e), jrhConfirmed) BY <1>1, <2>2 DEF Dispute, Shaped, PlaceOK
    <3>2. Alike(Reset(e), e) BY <2>2, ResetFacts DEF Alike
    <3>3. Shape(Reset(e), submissionOf(e), jrhConfirmed) BY <3>1, <3>2, AlikeShape
    <3> QED BY <1>2, <2>1, <2>2, <2>4, <3>3 DEF PlaceOK, Progressed, HashMoved
  <2>5. n % 2 = 0 \/ n % 2 = 1 BY <1>2, Parity DEF HashMoved
  <2> QED BY <2>3, <2>4, <2>5
<1>6. CASE /\ j \in Indices(q) /\ ~(q = r /\ j = o)
           /\ ~(q = r + 1 /\ n % 2 = 1 /\ j = n - 1)
  <2>1. KeptAt(q, j) BY <1>2, <1>6 DEF Apart, HashMoved
  <2> QED BY <1>6, <2>1, KeptPlaces DEF Dispute, Shaped
<1> QED BY <1>3, <1>4, <1>5, <1>6

\* it meets the one that is last in the next round, or nobody yet,
LEMMA NewOpponent ==
  ASSUME NEW n \in Nat, NEW j \in Nat, NEW p, p = getOpponentIdx(j)
  PROVE  /\ j = n /\ n % 2 = 0 => p = n + 1
         /\ j = n /\ n % 2 = 1 => p = n - 1
         /\ n % 2 = 1 /\ j = n - 1 => p = n
<1>1. p = IF j % 2 = 0 THEN j + 1 ELSE j - 1 BY DEF getOpponentIdx
<1>2. n % 2 = 1 /\ j = n - 1 => j % 2 = 0 OBVIOUS
<1> QED BY <1>1, <1>2

\* and every pair stays well paired.
LEMMA MovePaired ==
  ASSUME Dispute, NEW r \in PlayableRounds, NEW o \in Indices(r), progress(r, o),
         submission' = submission, jrhConfirmed' = jrhConfirmed
  PROVE  Paired'
<1>0. PICK n : n = Len(disputeRounds[r + 1]) OBVIOUS
<1>1. r \in Rounds /\ r + 1 \in Rounds /\ r # r + 1 /\ TypeOK /\ Struct
  BY RoundFacts DEF Dispute
<1>2. Progressed(r, o, n) /\ HashMoved(r, o, n) BY <1>0, MoveView
<1>3. n \in Nat /\ jrhConfirmed \subseteq Confirmable BY <1>1, <1>2 DEF TypeOK, HashMoved
<1> DEFINE e == entryAt(r + 1, n - 1)
           f == entryAt(r, o)
           s == submissionAt(r + 1, n - 1)
           t == submissionAt(r, o)
<1>4. ASSUME n % 2 = 1, Held(r + 1, n - 1)
      PROVE  /\ entryAt(r + 1, n - 1)' = startMemberOfPair(e)
             /\ entryAt(r + 1, n)' = startMemberOfPair(f)
             /\ submissionAt(r + 1, n - 1)' = s /\ submissionAt(r + 1, n)' = t
             /\ PairShape(startMemberOfPair(e), startMemberOfPair(f), s, t, jrhConfirmed)
             /\ PairShape(startMemberOfPair(f), startMemberOfPair(e), t, s, jrhConfirmed)
  <2>1. n - 1 \in Indices(r + 1) BY <1>2, <1>4 DEF Progressed
  <2>2. e \in EntryType /\ f \in EntryType BY <1>1, <2>1, EntryFacts
  <2>3. s = submissionOf(e) /\ t = submissionOf(f) BY DEF submissionAt
  <2>4. s # t BY <1>1, <1>4, <2>1 DEF Struct, OnePlace
  <2>5. Fresh(startMemberOfPair(e), s, jrhConfirmed) BY <2>2, <2>3, StartFacts
  <2>6. Fresh(startMemberOfPair(f), t, jrhConfirmed) BY <2>2, <2>3, StartFacts
  <2>7. PairShape(startMemberOfPair(e), startMemberOfPair(f), s, t, jrhConfirmed)
    BY <1>3, <2>4, <2>5, <2>6, FreshPair
  <2>8. PairShape(startMemberOfPair(f), startMemberOfPair(e), t, s, jrhConfirmed)
    BY <2>7, PairSymmetric
  <2> QED BY <1>1, <1>2, <1>4, <2>1, <2>7, <2>8 DEF Progressed, HashMoved
<1> SUFFICES ASSUME NEW q \in Rounds, NEW j \in Indices(q)', NEW p, p = getOpponentIdx(j),
                    InRound(q, p)', Held(q, j)', Held(q, p)'
             PROVE  PairShape(entryAt(q, j)', entryAt(q, p)', submissionAt(q, j)',
                              submissionAt(q, p)', jrhConfirmed)
  BY DEF Paired, PairOK
<1>5. p \in Indices(q)' /\ j \in Nat /\ p \in Nat /\ p # j
  <2>1. p \in Indices(q)' BY <1>2 DEF HashMoved
  <2>2. Indices(q) \subseteq Nat BY <1>1, IndexFacts
  <2>3. j \in Nat /\ p \in Nat BY <1>2, <1>3, <2>1, <2>2 DEF HashMoved
  <2> QED BY <2>1, <2>3, OpponentFacts
<1>6. ~(q = r /\ j = o) /\ ~(q = r /\ p = o)
  BY <1>1, <1>2 DEF Held, HashMoved
<1>7. \A k \in Nat : k \in Indices(q)' /\ q = r + 1 => k < n + 1
  <2>1. Len(disputeRounds[r + 1]) = n BY <1>0
  <2>2. \A k \in Nat : k \in Indices(r + 1) => k < n BY <1>1, <2>1, IndexFacts
  <2> QED BY <1>2, <1>3, <2>2 DEF HashMoved
<1>8. CASE q = r + 1 /\ j = n
  <2>1. n % 2 = 1
    <3>1. n % 2 = 0 => p = n + 1 BY <1>3, <1>5, <1>8, NewOpponent
    <3>2. ~(n + 1 < n + 1) BY <1>3
    <3> QED BY <1>3, <1>5, <1>7, <1>8, <3>1, <3>2, Parity
  <2>2. p = n - 1 BY <1>3, <1>5, <1>8, <2>1, NewOpponent
  <2>3. Held(r + 1, n - 1)
    <3>1. n - 1 \in Indices(r + 1) BY <1>2, <2>1 DEF Progressed
    <3> QED BY <1>1, <1>2, <1>8, <2>2, <3>1 DEF Held, HashMoved
  <2> QED BY <1>4, <1>8, <2>1, <2>2, <2>3
<1>9. CASE q = r + 1 /\ n % 2 = 1 /\ j = n - 1
  <2>1. p = n BY <1>3, <1>5, <1>9, NewOpponent
  <2>2. Held(r + 1, n - 1)
    <3>1. n - 1 \in Indices(r + 1) BY <1>2, <1>9 DEF Progressed
    <3> QED BY <1>1, <1>2, <1>9, <3>1 DEF Held, HashMoved
  <2> QED BY <1>4, <1>9, <2>1, <2>2
<1>10. CASE ~(q = r + 1 /\ (j = n \/ (n % 2 = 1 /\ j = n - 1)))
  <2>1. ~(q = r + 1 /\ p = n)
    <3> SUFFICES ASSUME q = r + 1, p = n PROVE FALSE OBVIOUS
    <3>1. getOpponentIdx(n) = j BY <1>5, OpponentFacts
    <3>2. n % 2 = 0 => j = n + 1 BY <1>3, <3>1, NewOpponent
    <3>3. n % 2 = 1 => j = n - 1 BY <1>3, <3>1, NewOpponent
    <3>4. ~(n + 1 < n + 1) BY <1>3
    <3> QED BY <1>3, <1>5, <1>7, <1>10, <3>2, <3>3, <3>4, Parity
  <2>2. ~(q = r + 1 /\ n % 2 = 1 /\ p = n - 1)
    <3> SUFFICES ASSUME q = r + 1, n % 2 = 1, p = n - 1 PROVE FALSE OBVIOUS
    <3>1. getOpponentIdx(p) = j BY <1>5, OpponentFacts
    <3>2. j = n BY <1>3, <1>5, <3>1, NewOpponent
    <3> QED BY <1>10, <3>2
  <2>3. j \in Indices(q) /\ p \in Indices(q) BY <1>2, <1>5, <1>10, <2>1 DEF HashMoved
  <2>4. Apart(r, o, n, q, j) /\ Apart(r, o, n, q, p) BY <1>6, <1>10, <2>2 DEF Apart
  <2>5. KeptAt(q, j) /\ KeptAt(q, p) BY <1>2, <2>3, <2>4 DEF HashMoved
  <2>6. InRound(q, p) BY <1>2, <2>3 DEF HashMoved
  <2>7. PairOK(q, j, p) BY <2>3, <2>6 DEF Dispute, Paired
  <2>8. PairOK(q, j, p)' BY <2>5, <2>7, KeptPlaces
  <2> QED BY <2>8 DEF PairOK
<1> QED BY <1>8, <1>9, <1>10

-----------------------------------------------------------------------------
(* Settling a pair.                                                        *)

Level(r, i, o) == entryAt(r, o).challengeStepCompleted = entryAt(r, i).challengeStepCompleted

SettleFrame ==
  /\ windowAge' = windowAge /\ jrhConfirmed' = jrhConfirmed /\ confirmed' = confirmed
  /\ submittedHashes' = submittedHashes /\ submission' = submission
  /\ submittedEntries' = submittedEntries /\ nUniqueSubmittedHashes' = nUniqueSubmittedHashes
  /\ Submitted' = Submitted /\ submissionWindowClosed' = submissionWindowClosed

Settled(r, i, o) ==
  /\ o \in Indices(r) /\ o # i
  /\ Held(r, i) /\ Held(r, o)
  /\ settledAgain' \in Nat
  /\ settledAgain' = 0 => settledAgain = 0 /\ ~Gone(r, i) /\ ~Gone(r, o)
  /\ entryAt(r, o).challengeStepCompleted >= entryAt(r, i).challengeStepCompleted
  /\ timedOut(entryAt(r, i))
  /\ stakeLost' \in Nat
  /\ timesInvalidated' \in [Submissions -> Nat]
  /\ firstIncompleteRound' = firstIncompleteRound
  /\ nHashesCompletedChallengeRound' =
       [nHashesCompletedChallengeRound EXCEPT ![r] = nHashesCompletedChallengeRound[r] + 2]
  /\ Level(r, i, o) =>
       /\ disputeRounds' = disputeRounds
       /\ nInvalidatedHashes' = nInvalidatedHashes + 2
       /\ \A s \in Submissions :
            s \in Out' <=> s \in Out \/ s \in {submissionAt(r, i), submissionAt(r, o)}
  /\ ~Level(r, i, o) =>
       /\ progress(r, o)
       /\ nInvalidatedHashes' = nInvalidatedHashes + 1
       /\ \A s \in Submissions : s \in Out' <=> s \in Out \/ s = submissionAt(r, i)

\* invalidateHash, entry by entry.
LEMMA SettleFacts ==
  ASSUME Dispute, NEW r \in PlayableRounds, NEW i \in Indices(r), invalidateHash(r, i),
         NEW o, o = getOpponentIdx(i)
  PROVE  Settled(r, i, o) /\ SettleFrame /\ rewardsPaidOut' \in Nat
<1> DEFINE mine == submissionAt(r, i)
           theirs == submissionAt(r, o)
           out == {mine} \cup IF Level(r, i, o) THEN {theirs} ELSE {}
<1>1. TypeOK /\ Struct /\ r \in Rounds BY RoundFacts DEF Dispute
<1>2. /\ InRound(r, o) /\ mine # NoSubmission /\ theirs # NoSubmission
      /\ settling(timesInvalidated[mine] > 0)
      /\ entryAt(r, o).challengeStepCompleted >= entryAt(r, i).challengeStepCompleted
      /\ timedOut(entryAt(r, i))
      /\ stakeLost' = stakeLost + stakeOf(mine) + IF Level(r, i, o) THEN stakeOf(theirs) ELSE 0
      /\ IF Level(r, i, o) THEN UNCHANGED disputeRounds ELSE progress(r, o)
      /\ nInvalidatedHashes' = nInvalidatedHashes + IF Level(r, i, o) THEN 2 ELSE 1
      /\ timesInvalidated' =
           [s \in Submissions |-> timesInvalidated[s] + IF s \in out THEN 1 ELSE 0]
      /\ completedInRound(r, 2)
      /\ rewardResponder
      /\ UNCHANGED <<windowAge, jrhConfirmed, confirmed, firstIncompleteRound, submitVars>>
  BY DEF invalidateHash, Level
<1>3. o \in Indices(r) /\ o # i BY <1>1, <1>2, IndexFacts, OpponentFacts
<1>4. Held(r, i) /\ Held(r, o) BY <1>2 DEF Held
<1>5. mine \in Submissions /\ theirs \in Submissions
  BY <1>1, <1>3, <1>4, HeldFacts DEF Struct
<1>6. timesInvalidated \in [Submissions -> Nat] BY <1>1 DEF TypeOK
<1>7. settledAgain \in Nat /\ settledAgain' \in Nat
      /\ (settledAgain' = 0 => settledAgain = 0 /\ ~(timesInvalidated[mine] > 0))
  <2>1. settledAgain \in Nat BY <1>1 DEF TypeOK
  <2>2. settledAgain' = settledAgain + IF timesInvalidated[mine] > 0 THEN 1 ELSE 0
    BY <1>2 DEF settling
  <2> HIDE DEF mine
  <2> QED BY <2>1, <2>2
<1>8. ASSUME settledAgain' = 0 PROVE settledAgain = 0 /\ ~Gone(r, i) /\ ~Gone(r, o)
  <2>1. settledAgain = 0 /\ mine \notin Out BY <1>7, <1>8 DEF Out
  <2>2. ~Gone(r, i) BY <1>2, <2>1 DEF Gone
  <2>3. PairsTogether BY <1>1, <2>1 DEF Struct, Race
  <2> QED BY <1>1, <1>2, <2>1, <2>2, <2>3 DEF PairsTogether
<1>10. stakeOf(mine) \in Nat /\ stakeOf(theirs) \in Nat
  <2>1. Len(submittedHashes[mine]) \in Nat /\ Len(submittedHashes[theirs]) \in Nat
    BY <1>1, <1>5 DEF TypeOK
  <2> QED BY <2>1, SubmissionAssumption, Products DEF stakeOf
<1>11. stakeLost' \in Nat
  <2> DEFINE a == stakeOf(mine)
             b == stakeOf(theirs)
  <2>1. stakeLost \in Nat BY <1>1 DEF TypeOK
  <2>2. stakeLost' = stakeLost + a + IF Level(r, i, o) THEN b ELSE 0 BY <1>2
  <2>3. a \in Nat /\ b \in Nat BY <1>10
  <2> HIDE DEF a, b
  <2> QED BY <2>1, <2>2, <2>3
<1>12. rewardsPaidOut' \in Nat
  <2>1. rewardsPaidOut \in Nat BY <1>1 DEF TypeOK
  <2>2. disputeRewardSize \in Nat BY <1>1, RewardNat
  <2>3. rewardsPaidOut' = rewardsPaidOut + disputeRewardSize BY <1>2 DEF rewardResponder
  <2> QED BY <2>1, <2>2, <2>3
<1> HIDE DEF mine, theirs
<1>13. ASSUME NEW s \in Submissions
       PROVE  timesInvalidated'[s] \in Nat /\ (s \in Out' <=> s \in Out \/ s \in out)
  <2>1. timesInvalidated[s] \in Nat BY <1>6
  <2>2. timesInvalidated'[s] = timesInvalidated[s] + IF s \in out THEN 1 ELSE 0 BY <1>2
  <2> HIDE DEF out
  <2>3. timesInvalidated'[s] \in Nat /\ (timesInvalidated'[s] > 0 <=> timesInvalidated[s] > 0 \/ s \in out)
    BY <2>1, <2>2
  <2> QED BY <2>3 DEF Out
<1>14. timesInvalidated' \in [Submissions -> Nat] BY <1>2, <1>13
<1>15. nHashesCompletedChallengeRound' =
         [nHashesCompletedChallengeRound EXCEPT ![r] = nHashesCompletedChallengeRound[r] + 2]
  BY <1>2 DEF completedInRound
<1>16. SettleFrame BY <1>2 DEF SettleFrame, submitVars, Submitted, submissionWindowClosed
<1>17. ASSUME Level(r, i, o)
       PROVE  /\ disputeRounds' = disputeRounds
              /\ nInvalidatedHashes' = nInvalidatedHashes + 2
              /\ \A s \in Submissions : s \in Out' <=> s \in Out \/ s \in {mine, theirs}
  BY <1>2, <1>13, <1>17
<1>18. ASSUME ~Level(r, i, o)
       PROVE  /\ progress(r, o)
              /\ nInvalidatedHashes' = nInvalidatedHashes + 1
              /\ \A s \in Submissions : s \in Out' <=> s \in Out \/ s = mine
  BY <1>2, <1>13, <1>18
<1>19. firstIncompleteRound' = firstIncompleteRound BY <1>2
<1> QED BY <1>2, <1>3, <1>4, <1>7, <1>8, <1>11, <1>12, <1>14, <1>15, <1>16, <1>17, <1>18, <1>19
        DEF Settled, mine, theirs

\* Only submitted hashes are invalidated.
LEMMA OutSubmitted ==
  ASSUME Dispute, NEW r \in PlayableRounds, NEW i \in Indices(r), NEW o,
         Settled(r, i, o), SettleFrame
  PROVE  Out' \subseteq Submitted'
<1>1. TypeOK /\ Known /\ r \in Rounds BY RoundFacts DEF Dispute, Struct
<1>2. submissionAt(r, i) \in Submitted /\ submissionAt(r, o) \in Submitted
  BY <1>1, HeldFacts DEF Settled
<1>3. Out \subseteq Submitted BY <1>1 DEF Known
<1>4. Out' \subseteq Submissions BY DEF Out
<1> QED BY <1>2, <1>3, <1>4 DEF Settled, SettleFrame

\* Invalidating both of a pair keeps the invariant,
LEMMA LevelDispute ==
  ASSUME Dispute, NEW r \in PlayableRounds, NEW i \in Indices(r), invalidateHash(r, i),
         NEW o, o = getOpponentIdx(i), Level(r, i, o)
  PROVE  Dispute'
<1>1. TypeOK /\ Struct /\ Known /\ r \in Rounds BY RoundFacts DEF Dispute, Struct
<1>2. Settled(r, i, o) /\ SettleFrame /\ rewardsPaidOut' \in Nat BY SettleFacts
<1>3. /\ disputeRounds' = disputeRounds
      /\ nInvalidatedHashes' = nInvalidatedHashes + 2
      /\ \A s \in Submissions :
           s \in Out' <=> s \in Out \/ s \in {submissionAt(r, i), submissionAt(r, o)}
      /\ o \in Indices(r) /\ Held(r, i) /\ Held(r, o)
      /\ settledAgain' \in Nat /\ (settledAgain' = 0 => settledAgain = 0 /\ ~Gone(r, i))
      /\ nHashesCompletedChallengeRound' =
           [nHashesCompletedChallengeRound EXCEPT ![r] = nHashesCompletedChallengeRound[r] + 2]
      /\ firstIncompleteRound' = firstIncompleteRound
      /\ timesInvalidated' \in [Submissions -> Nat] /\ stakeLost' \in Nat
  BY <1>2 DEF Settled
<1>4. \A q \in Rounds : \A j : entryAt(q, j)' = entryAt(q, j) /\ submissionAt(q, j)' = submissionAt(q, j)
  BY <1>2, <1>3 DEF entryAt, submissionAt, submissionOf, SettleFrame
<1>5. SamePlaces BY <1>3, <1>4 DEF SamePlaces
<1>6. \A q \in Rounds : Indices(q)' = Indices(q) BY <1>5, SameIndices
<1>7. TypeOK'
  <2>1. nHashesCompletedChallengeRound \in [Rounds -> Nat] /\ nInvalidatedHashes \in Nat
    BY <1>1 DEF TypeOK
  <2>2. nHashesCompletedChallengeRound' \in [Rounds -> Nat] /\ nInvalidatedHashes' \in Nat
    BY <1>1, <1>3, <2>1
  <2> QED BY <1>1, <1>2, <1>3, <2>2 DEF TypeOK, SettleFrame
<1>8. Out' \subseteq Submitted' BY <1>2, OutSubmitted
<1>9. Known' BY <1>1, <1>2, <1>4, <1>6, <1>8 DEF Known, SettleFrame
<1>10. Struct'
  <2>1. /\ Submitted' = Submitted /\ nUniqueSubmittedHashes' = nUniqueSubmittedHashes
        /\ submissionWindowClosed' = submissionWindowClosed
    BY <1>2 DEF SettleFrame
  <2>2. OnePlace'
    BY <1>1, <1>4, <1>6 DEF OnePlace, Held, Struct
  <2>3. EachPlaced' BY <1>1, <1>4, <1>6, <2>1 DEF EachPlaced, Struct
  <2>4. Numbered' BY <1>1, <1>3, <2>1 DEF Numbered, Struct
  <2>5. ASSUME settledAgain' = 0 PROVE Race'
    <3>1. Race /\ ~Gone(r, i) BY <1>1, <1>3, <2>5 DEF Struct
    <3> QED BY <1>1, <1>3, <1>5, <2>1, <3>1, LevelRace
  <2> QED BY <1>9, <2>2, <2>3, <2>4, <2>5 DEF Struct
<1>11. Shaped' /\ Paired' BY <1>1, <1>2, <1>4, <1>5, AlikeDisputes, AlikeAll DEF Dispute, SettleFrame
<1> QED BY <1>7, <1>10, <1>11 DEF Dispute

\* and so does invalidating the one that is behind.
LEMMA AheadDispute ==
  ASSUME Dispute, NEW r \in PlayableRounds, NEW i \in Indices(r), invalidateHash(r, i),
         NEW o, o = getOpponentIdx(i), ~Level(r, i, o)
  PROVE  Dispute'
<1>0. PICK n : n = Len(disputeRounds[r + 1]) OBVIOUS
<1>1. TypeOK /\ Struct /\ Known /\ r \in Rounds BY RoundFacts DEF Dispute, Struct
<1>2. Settled(r, i, o) /\ SettleFrame /\ rewardsPaidOut' \in Nat BY SettleFacts
<1>3. /\ progress(r, o)
      /\ nInvalidatedHashes' = nInvalidatedHashes + 1
      /\ \A s \in Submissions : s \in Out' <=> s \in Out \/ s = submissionAt(r, i)
      /\ o \in Indices(r) /\ o # i /\ Held(r, i) /\ Held(r, o) /\ settledAgain' \in Nat
      /\ settledAgain' = 0 => settledAgain = 0 /\ ~Gone(r, i) /\ ~Gone(r, o)
      /\ nHashesCompletedChallengeRound' =
           [nHashesCompletedChallengeRound EXCEPT ![r] = nHashesCompletedChallengeRound[r] + 2]
      /\ firstIncompleteRound' = firstIncompleteRound
      /\ timesInvalidated' \in [Submissions -> Nat] /\ stakeLost' \in Nat
  BY <1>2 DEF Settled
<1>4. submission' = submission /\ jrhConfirmed' = jrhConfirmed BY <1>2 DEF SettleFrame
<1>5. Progressed(r, o, n) /\ HashMoved(r, o, n) BY <1>0, <1>3, <1>4, MoveView
<1>6. TypeOK'
  <2>1. nHashesCompletedChallengeRound \in [Rounds -> Nat] /\ nInvalidatedHashes \in Nat
    BY <1>1 DEF TypeOK
  <2>2. nHashesCompletedChallengeRound' \in [Rounds -> Nat] /\ nInvalidatedHashes' \in Nat
    BY <1>1, <1>3, <2>1
  <2>3. RoundsType' BY <1>5 DEF Progressed
  <2> QED BY <1>1, <1>2, <1>3, <2>2, <2>3 DEF TypeOK, SettleFrame, RoundsType
<1>7. Out' \subseteq Submitted' BY <1>2, OutSubmitted
<1>8. Known' BY <1>1, <1>2, <1>5, <1>7 DEF Known, SettleFrame, HashMoved
<1>9. ASSUME settledAgain' = 0 PROVE Race'
  <2>0. Race /\ ~Gone(r, i) /\ ~Gone(r, o) BY <1>1, <1>3, <1>9 DEF Struct
  <2> DEFINE gone == {i, o}
  <2>1. gone \in SUBSET Indices(r) /\ o \in gone BY <1>3
  <2>2. i \in Nat /\ getOpponentIdx(o) = i BY <1>1, IndexFacts, OpponentFacts
  <2>3. InRound(r, i) /\ InRound(r, o) BY <1>3 DEF InRound
  <2>4. \A j \in gone : /\ ~Gone(r, j)
                        /\ InRound(r, getOpponentIdx(j)) => getOpponentIdx(j) \in gone
    BY <2>0, <2>2
  <2>5. \A j \in gone : j # o => InRound(r, getOpponentIdx(j)) BY <2>3
  <2>6. \A s \in Submissions :
          s \in Out' <=> s \in Out \/ \E j \in gone : j # o /\ submissionAt(r, j) = s
    BY <1>3
  <2>7. Cardinality(gone) = 2
    <3>1. IsFiniteSet({}) /\ Cardinality({}) = 0 BY FS_EmptySet
    <3>2. Cardinality({} \cup {i, o}) = Cardinality({}) + 2 BY <1>3, <3>1, AddTwo
    <3> QED BY <3>1, <3>2
  <2>8. nInvalidatedHashes' = Cardinality(Out')
    <3>1. submissionAt(r, i) \in Submissions BY <1>1, <1>3, HeldFacts
    <3>2. submissionAt(r, i) \notin Out BY <2>0 DEF Gone
    <3>3. Out \subseteq Submissions /\ Out' \subseteq Submissions BY DEF Out
    <3>4. Out' = Out \cup {submissionAt(r, i)} BY <1>3, <3>1, <3>3
    <3>5. Cardinality(Out') = Cardinality(Out) + 1
      BY <3>2, <3>4, FiniteSets_, FS_AddElement
    <3> QED BY <1>3, <2>0, <3>5 DEF Race, Counted
  <2>9. /\ Submitted' = Submitted /\ nUniqueSubmittedHashes' = nUniqueSubmittedHashes
        /\ submissionWindowClosed' = submissionWindowClosed
    BY <1>2 DEF SettleFrame
  <2>10. nHashesCompletedChallengeRound' =
           [nHashesCompletedChallengeRound EXCEPT ![r] =
              nHashesCompletedChallengeRound[r] + Cardinality(gone)]
    BY <1>3, <2>7
  <2>11. \A q \in Rounds :
           Len(disputeRounds'[q]) = IF q = r + 1 THEN n + 1 ELSE Len(disputeRounds[q])
    BY <1>5 DEF Progressed
  <2>12. /\ \A q \in Rounds : \A j \in Indices(q) :
              submissionAt(q, j)' = IF q = r /\ j = o THEN NoSubmission ELSE submissionAt(q, j)
         /\ submissionAt(r + 1, n)' = submissionAt(r, o)
    BY <1>5 DEF HashMoved
  <2>13. InRound(r, getOpponentIdx(o)) BY <2>2, <2>3
  <2>14. Leaving(r, o, gone) BY <2>4, <2>5, <2>6, <2>10 DEF Leaving
  <2> HIDE DEF gone
  <2> QED BY <1>0, <1>1, <1>3, <2>0, <2>1, <2>8, <2>9, <2>11, <2>12, <2>13, <2>14, MoveRace
<1>11. Struct'
  <2>1. OnePlace' /\ EachPlaced' /\ Numbered'
    <3>1. o \in Indices(r) BY <1>3
    <3> QED BY <1>0, <1>1, <1>2, <1>5, <3>1, MovePlaces DEF Progressed, HashMoved, SettleFrame
  <2> QED BY <1>8, <1>9, <2>1 DEF Struct
<1>10. Shaped' /\ Paired' BY <1>3, <1>4, MoveShaped, MovePaired
<1> QED BY <1>6, <1>10, <1>11 DEF Dispute

-----------------------------------------------------------------------------
(* Byes.                                                                   *)

Bye(r, o) ==
  /\ o = Len(disputeRounds[r]) - 1 /\ o \in Indices(r)
  /\ ~InRound(r, getOpponentIdx(o))
  /\ progress(r, o)
  /\ Len(disputeRounds[r]) > 1 /\ submissionWindowClosed
  /\ settledAgain' \in Nat
  /\ settledAgain' = 0 => /\ settledAgain = 0 /\ Held(r, o) /\ ~Gone(r, o)
                         /\ \A q \in Rounds : q < r => AllGone(q)
  /\ firstIncompleteRound' = r
  /\ nHashesCompletedChallengeRound' =
       [nHashesCompletedChallengeRound EXCEPT ![r] = nHashesCompletedChallengeRound[r] + 1]
  /\ rewardsPaidOut' \in Nat
  /\ stakeLost' = stakeLost /\ timesInvalidated' = timesInvalidated
  /\ nInvalidatedHashes' = nInvalidatedHashes

\* A round that counts as many hashes through as it has places has nobody left.
LEMMA FullRound ==
  ASSUME TypeOK, Race, NEW q \in Rounds,
         nHashesCompletedChallengeRound[q] = Len(disputeRounds[q])
  PROVE  AllGone(q)
<1>1. Cardinality(GoneIn(q)) = Cardinality(Indices(q)) BY IndexFacts DEF Race, Counted
<1>2. GoneIn(q) = Indices(q) BY <1>1, IndexFacts, FS_Subset
<1> QED BY <1>2 DEF GoneIn, AllGone

\* The last index of an odd round is even and has no opponent.
LEMMA OddLength ==
  \A n \in Nat : n % 2 = 1 =>
    n - 1 \in Nat /\ (n - 1) % 2 = 0 /\ n - 1 \in 0 .. n - 1 /\ (n - 1) + 1 \notin 0 .. n - 1
OBVIOUS

\* A bye, entry by entry:
LEMMA ByeFacts ==
  ASSUME Dispute, NEW r \in PlayableRounds, giveBye(r), NEW o, o = Len(disputeRounds[r]) - 1
  PROVE  Bye(r, o) /\ SettleFrame
<1>1. TypeOK /\ Struct /\ r \in Rounds /\ Rounds \subseteq Nat BY RoundFacts DEF Dispute
<1>2. /\ settling(submissionAt(r, o) = NoSubmission)
      /\ Len(disputeRounds[r]) % 2 = 1
      /\ submissionWindowClosed
      /\ r > 0 => challengeRoundComplete(r - 1)
      /\ Len(disputeRounds[r]) > 1
      /\ firstIncompleteRound' = r
      /\ progress(r, o)
      /\ completedInRound(r, 1)
      /\ rewardResponder
      /\ UNCHANGED <<windowAge, jrhConfirmed, confirmed, nInvalidatedHashes, stakeLost,
                     timesInvalidated, submitVars>>
  BY DEF giveBye
<1>3. /\ Len(disputeRounds[r]) \in Nat /\ o \in Nat /\ o % 2 = 0 /\ o \in Indices(r)
      /\ o + 1 \notin Indices(r)
  <2> DEFINE n == Len(disputeRounds[r])
  <2>1. n \in Nat /\ n > 1 /\ n % 2 = 1 /\ o = n - 1 BY <1>1, <1>2, IndexFacts
  <2>2. Indices(r) = 0 .. n - 1 BY DEF Indices
  <2> HIDE DEF n
  <2>3. o \in Nat /\ o % 2 = 0 /\ o \in 0 .. n - 1 /\ o + 1 \notin 0 .. n - 1 BY <2>1, OddLength
  <2> QED BY <2>1, <2>2, <2>3 DEF n
<1>4. ~InRound(r, getOpponentIdx(o)) BY <1>3, OpponentFacts DEF InRound
<1>10. settledAgain' \in Nat /\ (settledAgain' = 0 => settledAgain = 0 /\ Held(r, o))
  <2>1. settledAgain \in Nat BY <1>1 DEF TypeOK
  <2>2. settledAgain' = settledAgain + IF submissionAt(r, o) = NoSubmission THEN 1 ELSE 0
    BY <1>2 DEF settling
  <2> QED BY <2>1, <2>2 DEF Held
<1>11. settledAgain' = 0 => Race BY <1>1, <1>10 DEF Struct
<1>5. ASSUME settledAgain' = 0 PROVE Held(r, o) /\ ~Gone(r, o)
  BY <1>1, <1>3, <1>4, <1>5, <1>10, <1>11 DEF Race, LoneEntries
<1>6. rewardsPaidOut' \in Nat
  <2>1. rewardsPaidOut \in Nat BY <1>1 DEF TypeOK
  <2>2. disputeRewardSize \in Nat BY <1>1, RewardNat
  <2>3. rewardsPaidOut' = rewardsPaidOut + disputeRewardSize BY <1>2 DEF rewardResponder
  <2> QED BY <2>1, <2>2, <2>3
<1>7. ASSUME settledAgain' = 0, NEW q \in Rounds, q < r PROVE AllGone(q)
  <2>1. r \in Nat /\ q \in Nat /\ r > 0 /\ q <= r - 1 BY <1>1, <1>7
  <2>2. firstIncompleteRound \in Nat BY <1>1 DEF TypeOK
  <2>3. CASE q < firstIncompleteRound BY <1>7, <1>11, <2>3 DEF Race, RoundsBehind
  <2>4. CASE q >= firstIncompleteRound
    <3>1. q \in firstIncompleteRound .. r - 1 BY <2>1, <2>2, <2>4
    <3>2. nHashesCompletedChallengeRound[q] = Len(disputeRounds[q])
      BY <1>2, <2>1, <3>1 DEF challengeRoundComplete
    <3> QED BY <1>1, <1>7, <1>11, <3>2, FullRound
  <2> QED BY <2>1, <2>2, <2>3, <2>4
<1>8. nHashesCompletedChallengeRound' =
        [nHashesCompletedChallengeRound EXCEPT ![r] = nHashesCompletedChallengeRound[r] + 1]
  BY <1>2 DEF completedInRound
<1>9. SettleFrame BY <1>2 DEF SettleFrame, submitVars, Submitted, submissionWindowClosed
<1> QED BY <1>2, <1>3, <1>4, <1>5, <1>6, <1>7, <1>8, <1>9, <1>10 DEF Bye

\* it keeps the invariant.
LEMMA ByeDispute ==
  ASSUME Dispute, NEW r \in PlayableRounds, giveBye(r)
  PROVE  Dispute'
<1>0. PICK n, o : n = Len(disputeRounds[r + 1]) /\ o = Len(disputeRounds[r]) - 1 OBVIOUS
<1>1. TypeOK /\ Struct /\ Known /\ r \in Rounds BY RoundFacts DEF Dispute, Struct
<1>2. Bye(r, o) /\ SettleFrame BY <1>0, ByeFacts
<1>3. /\ o \in Indices(r) /\ ~InRound(r, getOpponentIdx(o)) /\ settledAgain' \in Nat
      /\ progress(r, o)
      /\ Len(disputeRounds[r]) > 1 /\ submissionWindowClosed
      /\ settledAgain' = 0 => /\ settledAgain = 0 /\ Held(r, o) /\ ~Gone(r, o)
                             /\ \A q \in Rounds : q < r => AllGone(q)
      /\ firstIncompleteRound' = r
      /\ nHashesCompletedChallengeRound' =
           [nHashesCompletedChallengeRound EXCEPT ![r] = nHashesCompletedChallengeRound[r] + 1]
      /\ rewardsPaidOut' \in Nat
      /\ stakeLost' = stakeLost /\ timesInvalidated' = timesInvalidated
      /\ nInvalidatedHashes' = nInvalidatedHashes
  BY <1>2 DEF Bye
<1>4. submission' = submission /\ jrhConfirmed' = jrhConfirmed BY <1>2 DEF SettleFrame
<1>5. Progressed(r, o, n) /\ HashMoved(r, o, n) BY <1>0, <1>3, <1>4, MoveView
<1>6. TypeOK'
  <2>1. nHashesCompletedChallengeRound \in [Rounds -> Nat] BY <1>1 DEF TypeOK
  <2>2. nHashesCompletedChallengeRound' \in [Rounds -> Nat] BY <1>1, <1>3, <2>1
  <2>3. RoundsType' BY <1>5 DEF Progressed
  <2> QED BY <1>1, <1>2, <1>3, <2>2, <2>3 DEF TypeOK, SettleFrame, RoundsType
<1>7. Out' = Out BY <1>3 DEF Out
<1>8. Known' BY <1>1, <1>2, <1>5, <1>7 DEF Known, SettleFrame, HashMoved
<1>9. ASSUME settledAgain' = 0 PROVE Race'
  <2>0. Race /\ ~Gone(r, o) /\ \A q \in Rounds : q < r => AllGone(q)
    BY <1>1, <1>3, <1>9 DEF Struct
  <2> DEFINE gone == {o}
  <2>1. gone \in SUBSET Indices(r) /\ o \in gone BY <1>3
  <2>2. \A j \in gone : /\ ~Gone(r, j)
                        /\ InRound(r, getOpponentIdx(j)) => getOpponentIdx(j) \in gone
    BY <1>3, <2>0
  <2>3. \A j \in gone : j # o => InRound(r, getOpponentIdx(j)) OBVIOUS
  <2>4. \A s \in Submissions :
          s \in Out' <=> s \in Out \/ \E j \in gone : j # o /\ submissionAt(r, j) = s
    BY <1>7
  <2>5. Cardinality(gone) = 1 BY FS_Singleton
  <2>6. nInvalidatedHashes' = Cardinality(Out') BY <1>3, <1>7, <2>0 DEF Race, Counted
  <2>7. /\ Submitted' = Submitted /\ nUniqueSubmittedHashes' = nUniqueSubmittedHashes
        /\ submissionWindowClosed' = submissionWindowClosed
    BY <1>2 DEF SettleFrame
  <2>8. nHashesCompletedChallengeRound' =
           [nHashesCompletedChallengeRound EXCEPT ![r] =
              nHashesCompletedChallengeRound[r] + Cardinality(gone)]
    BY <1>3, <2>5
  <2>9. \A q \in Rounds :
           Len(disputeRounds'[q]) = IF q = r + 1 THEN n + 1 ELSE Len(disputeRounds[q])
    BY <1>5 DEF Progressed
  <2>10. /\ \A q \in Rounds : \A j \in Indices(q) :
              submissionAt(q, j)' = IF q = r /\ j = o THEN NoSubmission ELSE submissionAt(q, j)
         /\ submissionAt(r + 1, n)' = submissionAt(r, o)
    BY <1>5 DEF HashMoved
  <2>11. Leaving(r, o, gone) BY <2>2, <2>3, <2>4, <2>8 DEF Leaving
  <2> HIDE DEF gone
  <2> QED BY <1>0, <1>1, <1>3, <2>0, <2>1, <2>6, <2>7, <2>9, <2>10, <2>11, MoveRace
<1>11. Struct'
  <2>1. OnePlace' /\ EachPlaced' /\ Numbered'
    <3>1. o \in Indices(r) BY <1>3
    <3> QED BY <1>0, <1>1, <1>2, <1>5, <3>1, MovePlaces DEF Progressed, HashMoved, SettleFrame
  <2> QED BY <1>8, <1>9, <2>1 DEF Struct
<1>10. Shaped' /\ Paired' BY <1>3, <1>4, MoveShaped, MovePaired
<1> QED BY <1>6, <1>10, <1>11 DEF Dispute

-----------------------------------------------------------------------------
(* Dispute is an invariant.                                                *)

\* The invariant holds before the first submission,
LEMMA InitDispute ==
  ASSUME Init
  PROVE  Dispute
<1>1. 0 \in Rounds /\ MiningWindow \in Nat /\ 0 \in 0 .. MiningWindow + 1
  BY RoundFacts, WindowAssumption
<1>2. TypeOK BY <1>1, SubmissionAssumption DEF Init, TypeOK
<1>3. \A r \in Rounds : Len(disputeRounds[r]) = 0 BY DEF Init
<1>4. \A r \in Rounds : Indices(r) = {} BY <1>3 DEF Indices
<1>5. Submitted = {} /\ Out = {} BY DEF Init, Submitted, Out
<1>6. Known BY <1>4, <1>5, NoHash DEF Init, Known
<1>7. Counted
  <2>1. \A r \in Rounds : GoneIn(r) = {} BY <1>4 DEF GoneIn
  <2>2. Cardinality({}) = 0 BY FS_EmptySet
  <2> QED BY <1>5, <2>1, <2>2 DEF Init, Counted
<1>11. Numbered
  <2>1. Cardinality({}) = 0 BY FS_EmptySet
  <2>2. Len(disputeRounds[0]) = 0 BY <1>1, <1>3
  <2> QED BY <1>5, <2>1, <2>2 DEF Init, Numbered
<1>8. RoundsBehind
  <2>1. \A r \in Rounds : ~(r < 0) BY RoundFacts
  <2> QED BY <1>3, <2>1 DEF Init, RoundsBehind
<1>9. OnePlace /\ EachPlaced /\ PairsTogether /\ LoneEntries
  BY <1>4, <1>5 DEF OnePlace, EachPlaced, PairsTogether, LoneEntries
<1>10. Shaped /\ Paired BY <1>4 DEF Shaped, Paired
<1> QED BY <1>2, <1>6, <1>7, <1>8, <1>9, <1>10, <1>11 DEF Dispute, Struct, Race

\* One answer.
AnswerAt(r, i) ==
  \/ confirmJustificationRootHash(r, i)
  \/ respondToBinarySearchForChallenge(r, i)
  \/ confirmBinarySearchResult(r, i)
  \/ respondToChallenge(r, i)

\* every answer keeps it,
LEMMA AnswerDispute ==
  ASSUME Dispute, NEW r \in Rounds, NEW i \in Indices(r), AnswerAt(r, i)
  PROVE  Dispute'
BY ConfirmJRHDispute, FirstDispute, SecondDispute, ResultDispute, ChallengeDispute DEF AnswerAt

\* every settlement keeps it,
LEMMA SettleDispute ==
  ASSUME Dispute, NEW r \in PlayableRounds, NEW i \in Indices(r), invalidateHash(r, i)
  PROVE  Dispute'
<1>0. PICK o : o = getOpponentIdx(i) OBVIOUS
<1> QED BY <1>0, LevelDispute, AheadDispute

\* The steps, one by one.
LEMMA Steps ==
  ASSUME [Next]_cycleVars
  PROVE  \/ \E m \in Miners : \E s \in Proposes[m], x \in 1 .. Entries[m] : submitRootHash(m, s, x)
         \/ \E r \in Rounds : \E i \in Indices(r) : AnswerAt(r, i)
         \/ \E r \in PlayableRounds : giveBye(r)
         \/ \E r \in PlayableRounds : \E i \in Indices(r) : invalidateHash(r, i)
         \/ \E r \in Rounds : confirmNewHash(r)
         \/ Tick
         \/ Same /\ confirmed' = confirmed
<1>1. CASE Submit BY <1>1 DEF Submit
<1>2. CASE Answer BY <1>2 DEF Answer, AnswerAt
<1>4. CASE Confirm BY <1>4 DEF Confirm
<1>5. CASE UNCHANGED cycleVars BY <1>5 DEF cycleVars, Same
<1> QED BY <1>1, <1>2, <1>4, <1>5 DEF Next

\* and so does every step of the specification.
LEMMA NextDispute ==
  ASSUME Dispute, [Next]_cycleVars
  PROVE  Dispute'
<1>1. ASSUME NEW m \in Miners, NEW s \in Proposes[m], NEW x \in 1 .. Entries[m],
             submitRootHash(m, s, x)
      PROVE  Dispute'
  <2>1. CASE newHash(s) BY <1>1, <2>1, SubmitNew
  <2>2. CASE ~newHash(s) BY <1>1, <2>2, SubmitOld
  <2> QED BY <2>1, <2>2
<1>2. ASSUME NEW r \in Rounds, NEW i \in Indices(r), AnswerAt(r, i) PROVE Dispute'
  BY <1>2, AnswerDispute
<1>3. ASSUME NEW r \in PlayableRounds, giveBye(r) PROVE Dispute'
  BY <1>3, ByeDispute
<1>4. ASSUME NEW r \in PlayableRounds, NEW i \in Indices(r), invalidateHash(r, i) PROVE Dispute'
  BY <1>4, SettleDispute
<1>5. ASSUME NEW r \in Rounds, confirmNewHash(r) PROVE Dispute' BY <1>5, ConfirmDispute
<1>6. ASSUME Tick PROVE Dispute' BY <1>6, TickDispute
<1>7. ASSUME Same, confirmed' = confirmed PROVE Dispute'
  <2>1. confirmed' \in Submissions \cup {NoSubmission} BY <1>7 DEF Dispute, TypeOK
  <2> QED BY <1>7, <2>1, SameDispute
<1> QED BY <1>1, <1>2, <1>3, <1>4, <1>5, <1>6, <1>7, Steps

\* The invariant: whoever submits, answers and settles, in whatever order and how often,
\* every hash has one place, every entry the step and the bounds its answers have
\* brought it to, and every pair searches the same leaves for the first difference of
\* its two trees; and the counters say how many are in the race, as long as nothing is
\* settled again.
THEOREM DisputeInvariant == Spec => []Dispute
<1>1. Init => Dispute BY InitDispute
<1>2. Dispute /\ [Next]_cycleVars => Dispute' BY NextDispute
<1> QED BY <1>1, <1>2, PTL DEF Spec

-----------------------------------------------------------------------------
(* What the invariant says of the properties.                              *)

\* No round completes more entries than it has.
LEMMA CompletedFollows ==
  ASSUME Dispute, settledAgain = 0
  PROVE  CompletedWithinRound
<1> SUFFICES ASSUME NEW r \in Rounds
             PROVE  nHashesCompletedChallengeRound[r] <= Len(disputeRounds[r])
  BY DEF CompletedWithinRound
<1>1. TypeOK BY DEF Dispute
<1>2. Cardinality(GoneIn(r)) <= Cardinality(Indices(r)) BY <1>1, IndexFacts, FS_Subset
<1> QED BY <1>1, <1>2, IndexFacts DEF Dispute, Struct, Race, Counted

\* The invariant implies OneEntryEach,
LEMMA OneEntryEachFollows ==
  ASSUME Dispute
  PROVE  OneEntryEach
<1>1. TypeOK /\ Struct BY DEF Dispute
<1>2. Alive = Submitted \ Out
  <2>1. timesInvalidated \in [Submissions -> Nat] BY <1>1 DEF TypeOK
  <2>2. \A s \in Submissions : timesInvalidated[s] = 0 <=> ~(timesInvalidated[s] > 0)
    BY <2>1
  <2> QED BY <2>2 DEF Alive, Submitted, Out
<1>3. ASSUME NEW s \in Submitted PROVE Cardinality(PlacesOf(s)) = 1
  <2>1. s # NoSubmission BY <1>3, NoHash
  <2>2. PICK r \in Rounds : \E i \in Indices(r) : submissionAt(r, i) = s
    BY <1>1, <1>3 DEF Struct, EachPlaced
  <2>3. PICK i \in Indices(r) : submissionAt(r, i) = s BY <2>2
  <2>4. ASSUME NEW q \in Rounds, NEW j \in Indices(q), submissionAt(q, j) = s
        PROVE  q = r /\ j = i
    <3>1. Held(q, j) BY <2>1, <2>4 DEF Held
    <3> QED BY <1>1, <2>3, <2>4, <3>1 DEF Struct, OnePlace
  <2>5. \A x : x \in PlacesOf(s) <=>
                 \E q \in Rounds : \E j \in Indices(q) : submissionAt(q, j) = s /\ x = <<q, j>>
    BY DEF PlacesOf
  <2>6. PlacesOf(s) = {<<r, i>>} BY <2>3, <2>4, <2>5
  <2> QED BY <2>6, FS_Singleton
<1>4. ASSUME settledAgain = 0 PROVE nUniqueSubmittedHashes - nInvalidatedHashes = Cardinality(Alive)
  <2>1. Submitted \cap Out = Out BY <1>1 DEF Struct, Known
  <2>2. Cardinality(Submitted \ Out) = Cardinality(Submitted) - Cardinality(Submitted \cap Out)
    BY FiniteSets_, FS_Difference
  <2> QED BY <1>1, <1>2, <1>4, <2>1, <2>2 DEF Struct, Numbered, Race, Counted
<1> QED BY <1>3, <1>4, CompletedFollows DEF OneEntryEach

\* Past the step of the challenge is only who answered it.
LEMMA AnsweredChallenge ==
  ASSUME NEW e, NEW s, NEW C, s \in C, Shape(e, s, C), e.challengeStepCompleted \in Nat,
         e.challengeStepCompleted >= 3, pow2[e.challengeStepCompleted - 3] > NLeaves
  PROVE  e.lowerBound = e.upperBound /\ ResultStep(e.challengeStepCompleted - 1)
         /\ Right(s, e.lowerBound)
<1> DEFINE k == e.challengeStepCompleted
           lb == e.lowerBound
           ub == e.upperBound
<1>1. ~(k <= Depth + 1)
  <2> SUFFICES ASSUME k <= Depth + 1 PROVE FALSE OBVIOUS
  <2> HIDE DEF k
  <2>0. k \in Nat /\ k >= 3 BY DEF k
  <2>1. k - 3 \in Nat /\ Depth - 1 \in Nat /\ k - 3 <= Depth - 1 BY <2>0, DepthFacts
  <2>2. pow2[k - 3] <= pow2[Depth - 1] /\ pow2[k - 3] \in Nat /\ pow2[Depth - 1] \in Nat
    BY <2>1, Pow2AtMost
  <2>3. pow2[Depth - 1] < NLeaves BY DepthFacts
  <2>4. pow2[k - 3] > NLeaves BY DEF k
  <2> QED BY <2>2, <2>3, <2>4, Leaves
<1>2. OnPath(lb, ub) BY DEF Shape
<1>3. lb = ub
  <2> SUFFICES ASSUME lb # ub PROVE FALSE OBVIOUS
  <2>1. k = due(lb, ub) \/ k = due(lb, ub) + 1 BY DEF Shape
  <2>2. due(lb, ub) <= Depth /\ due(lb, ub) \in Nat BY <1>2, PathEnds, PathFacts
  <2> HIDE DEF k
  <2> QED BY <1>1, <2>1, <2>2, DepthFacts
<1>4. k \in 2 .. Depth + 1 \/ ResultStep(k) \/ (ResultStep(k - 1) /\ Right(s, lb))
  BY <1>3 DEF Shape
<1>5. ~(k \in 2 .. Depth + 1) BY <1>1, DepthFacts
<1>6. ~ResultStep(k)
  <2>1. k - 3 \in Nat OBVIOUS
  <2>2. pow2[k - 3] \in Nat BY <2>1, Pow2Def
  <2>3. pow2[k - 3] > NLeaves OBVIOUS
  <2> HIDE DEF k
  <2> QED BY <2>2, <2>3, Leaves DEF ResultStep
<1> QED BY <1>3, <1>4, <1>5, <1>6

\* A pair, as the properties name it.
LEMMA PairFacts ==
  ASSUME Dispute, NEW p \in Pairs,
         submissionOf(entryAt(p[1], p[2])) \in jrhConfirmed,
         submissionOf(entryAt(p[1], p[2] + 1)) \in jrhConfirmed
  PROVE  LET e == entryAt(p[1], p[2])
             f == entryAt(p[1], p[2] + 1)
             s == submissionOf(e)
             t == submissionOf(f)
         IN  /\ Searching(e, f, s, t)
             /\ Shape(e, s, jrhConfirmed) /\ Shape(f, t, jrhConfirmed)
             /\ e \in EntryType /\ f \in EntryType
<1>1. TypeOK BY DEF Dispute
<1>0. PICK r \in Rounds : \E i \in Indices(r) : p = <<r, i>> /\ i % 2 = 0 /\ InRound(r, i + 1)
  BY DEF Pairs
<1>2. PICK i \in Indices(r) : p = <<r, i>> /\ i % 2 = 0 /\ InRound(r, i + 1) BY <1>0
<1>3. p[1] = r /\ p[2] = i BY <1>2
<1>4. i \in Nat /\ i + 1 \in Indices(r) BY <1>1, <1>2, IndexFacts
<1>5. getOpponentIdx(i) = i + 1 BY <1>2, <1>4, OpponentFacts
<1> DEFINE e == entryAt(r, i)
           f == entryAt(r, i + 1)
           s == submissionAt(r, i)
           t == submissionAt(r, i + 1)
<1>6. s = submissionOf(e) /\ t = submissionOf(f) BY DEF submissionAt
<1>7. s \in jrhConfirmed /\ t \in jrhConfirmed BY <1>3, <1>6
<1>8. Held(r, i) /\ Held(r, i + 1) BY <1>1, <1>7, NoHash DEF Held, TypeOK
<1>9. PairShape(e, f, s, t, jrhConfirmed)
  BY <1>2, <1>5, <1>8 DEF Dispute, Paired, PairOK
<1>10. Searching(e, f, s, t) BY <1>7, <1>9 DEF PairShape
<1>11. Shape(e, s, jrhConfirmed) /\ Shape(f, t, jrhConfirmed)
  BY <1>4 DEF Dispute, Shaped, PlaceOK
<1>12. e \in EntryType /\ f \in EntryType BY <1>1, <1>4, EntryFacts
<1> QED BY <1>3, <1>6, <1>10, <1>11, <1>12

\* and each part of DisputesSound: that the search is right,
LEMMA SearchIsRightFollows ==
  ASSUME Dispute
  PROVE  SearchIsRight
<1> SUFFICES ASSUME NEW p \in Pairs, NEW e, NEW f, NEW s, NEW t,
                    e = entryAt(p[1], p[2]), f = entryAt(p[1], p[2] + 1),
                    s = submissionOf(e), t = submissionOf(f),
                    s \in jrhConfirmed, t \in jrhConfirmed, e.lowerBound = e.upperBound
             PROVE  /\ f.lowerBound = e.lowerBound /\ f.upperBound = e.upperBound
                    /\ \A k \in 0 .. e.lowerBound - 1 : Tree[s][k] = Tree[t][k]
                    /\ Tree[s][e.lowerBound] # Tree[t][e.lowerBound]
  BY DEF SearchIsRight
<1>1. Searching(e, f, s, t) /\ e \in EntryType BY PairFacts
<1>2. e.lowerBound \in Nat BY <1>1, Leaves DEF EntryType
<1>3. \A k \in e.lowerBound .. e.lowerBound : k = e.lowerBound BY <1>2
<1>4. DifferIn(s, t, e.lowerBound, e.lowerBound) /\ Agree(s, t, e.lowerBound)
      /\ f.lowerBound = e.lowerBound /\ f.upperBound = e.upperBound
  BY <1>1 DEF Searching
<1> QED BY <1>3, <1>4 DEF DifferIn, Agree

\* and that both of a pair answer the challenge only where the contract does not decide.
LEMMA BothRespondFollows ==
  ASSUME Dispute
  PROVE  BothRespondOnlyIfUndecided
<1> SUFFICES ASSUME NEW p \in Pairs, Responded(entryAt(p[1], p[2])),
                    Responded(entryAt(p[1], p[2] + 1)),
                    NEW e, NEW f, NEW s, NEW t,
                    e = entryAt(p[1], p[2]), f = entryAt(p[1], p[2] + 1),
                    s = submissionOf(e), t = submissionOf(f)
             PROVE  ~Decided(Tree[s][e.lowerBound - 1], e.lowerBound)
  BY DEF BothRespondOnlyIfUndecided, BothRespond
<1>1. s \in jrhConfirmed /\ t \in jrhConfirmed BY DEF Responded
<1>2. /\ Searching(e, f, s, t) /\ e \in EntryType /\ f \in EntryType
      /\ Shape(e, s, jrhConfirmed) /\ Shape(f, t, jrhConfirmed)
  BY <1>1, PairFacts
<1>3. e.challengeStepCompleted \in Nat /\ f.challengeStepCompleted \in Nat
  BY <1>2 DEF EntryType
<1>4. e.lowerBound = e.upperBound /\ Right(s, e.lowerBound)
  BY <1>1, <1>2, <1>3, AnsweredChallenge DEF Responded
<1>5. Right(t, f.lowerBound)
  BY <1>1, <1>2, <1>3, AnsweredChallenge DEF Responded
<1>6. f.lowerBound = e.lowerBound /\ SearchIsRight BY <1>2, SearchIsRightFollows DEF Searching
<1>7. /\ \A k \in 0 .. e.lowerBound - 1 : Tree[s][k] = Tree[t][k]
      /\ Tree[s][e.lowerBound] # Tree[t][e.lowerBound]
  BY <1>1, <1>4, <1>6 DEF SearchIsRight
<1>8. e.lowerBound >= 1 /\ e.lowerBound \in Nat /\ e.lowerBound - 1 \in 0 .. e.lowerBound - 1
  <2>1. e.lowerBound \in Nat BY <1>2, Leaves DEF EntryType
  <2>2. e.lowerBound >= 1 BY <1>4 DEF Right
  <2> QED BY <2>1, <2>2
<1>9. Tree[s][e.lowerBound - 1] = Tree[t][e.lowerBound - 1] BY <1>7, <1>8
<1> QED BY <1>4, <1>5, <1>6, <1>7, <1>9 DEF Right, Decided

(***************************************************************************)
(* Every hash submitted has exactly one entry, however many are submitted  *)
(* and whatever is settled how often; and until something is settled       *)
(* again, the two counters the end of the cycle compares differ by the     *)
(* hashes still in the race.                                               *)
(***************************************************************************)
THEOREM OneEntryEachHolds == Spec => []OneEntryEach
BY DisputeInvariant, OneEntryEachFollows, PTL

(***************************************************************************)
(* The search between two trees ends at the first leaf they differ in, and *)
(* both sides answer the challenge only where the contract accepts two     *)
(* states after the same one: for trees of every size, whatever states the *)
(* contract accepts, and whatever is settled how often.                    *)
(***************************************************************************)
THEOREM DisputesSoundHolds == Spec => []DisputesSound
<1>1. Dispute => DisputesSound
  BY SearchIsRightFollows, BothRespondFollows DEF Dispute, DisputesSound
<1> QED BY <1>1, DisputeInvariant, PTL

(***************************************************************************)
(* The honest hash keeps up.                                               *)
(***************************************************************************)

\* Steps of one entry: what they are before, at and after the challenge.
LEMMA StepOrder ==
  ASSUME NEW k \in Nat, NEW l \in Nat
  PROVE  /\ k \in 2 .. Depth + 1 => k >= 2 /\ k < Depth + 2
         /\ ResultStep(k) => k >= Depth + 2
         /\ ResultStep(k - 1) => k >= Depth + 3
         /\ ResultStep(k) /\ ResultStep(l) => k = l
         /\ ResultStep(k - 1) /\ ResultStep(l - 1) => k = l
         /\ ResultStep(k - 1) /\ ResultStep(l) => k = l + 1
<1>1. Depth \in Nat BY DepthFacts
<1>2. ResultStep(k) => k >= Depth + 2 BY ResultStepBounds
<1>3. ResultStep(k - 1) => k >= Depth + 3
  <2> SUFFICES ASSUME ResultStep(k - 1) PROVE k >= Depth + 3 OBVIOUS
  <2>1. k - 1 >= Depth + 2 BY ResultStepBounds
  <2> QED BY <1>1, <2>1
<1>4. ResultStep(k) /\ ResultStep(l) => k = l BY ResultStepUnique
<1>5. ResultStep(k - 1) /\ ResultStep(l - 1) => k - 1 = l - 1 BY ResultStepUnique
<1>6. ResultStep(k - 1) /\ ResultStep(l) => k - 1 = l BY ResultStepUnique
<1> QED BY <1>1, <1>2, <1>3, <1>4, <1>5, <1>6

\* Who waits is ahead.
LEMMA WaitingAhead ==
  ASSUME NEW e \in EntryType, NEW f \in EntryType, NEW t, NEW C,
         Shape(e, Honest, C), Shape(f, t, C), PairShape(e, f, Honest, t, C), Waiting(e, C),
         ~BothThrough(e, f)
  PROVE  f.challengeStepCompleted < e.challengeStepCompleted
<1> DEFINE k == e.challengeStepCompleted
           l == f.challengeStepCompleted
           lb == e.lowerBound
           ub == e.upperBound
<1>1. k \in Nat /\ l \in Nat /\ Depth \in Nat BY DepthFacts DEF EntryType
<1>2. Honest \in C /\ OnPath(lb, ub) BY DEF Waiting, Shape
<1>3. due(lb, ub) \in Nat /\ due(lb, ub) >= 1 BY <1>2, PathFacts
<1>4. k >= 1
  <2>1. CASE lb # ub
    <3>1. k = due(lb, ub) + 1 BY <2>1 DEF Waiting
    <3> HIDE DEF k
    <3> QED BY <1>3, <3>1
  <2>2. CASE lb = ub
    <3>1. ResultStep(k - 1) BY <2>2 DEF Waiting
    <3>2. k >= Depth + 3 BY <1>1, <3>1, StepOrder
    <3> HIDE DEF k
    <3> QED BY <1>1, <3>2
  <2> QED BY <2>1, <2>2
<1>5. CASE t \notin C
  <2>1. l = 0 BY <1>5 DEF Shape
  <2> HIDE DEF k, l
  <2> QED BY <1>1, <1>4, <2>1 DEF k, l
<1>6. CASE t \in C
  <2>1. Searching(e, f, Honest, t) BY <1>2, <1>6 DEF PairShape
  <2>2. f.lowerBound = lb /\ f.upperBound = ub BY <2>1 DEF Searching
  <2>3. CASE lb # ub
    <3>1. k = due(lb, ub) + 1 BY <2>3 DEF Waiting
    <3>2. l = due(lb, ub) \/ l = due(lb, ub) + 1 BY <1>6, <2>2, <2>3 DEF Shape
    <3>3. l # due(lb, ub) + 1 BY <2>1, <2>3, <3>1 DEF Searching
    <3> HIDE DEF k, l
    <3>4. l < k BY <1>3, <3>1, <3>2, <3>3
    <3> QED BY <3>4 DEF k, l
  <2>4. CASE lb = ub
    <3>1. ResultStep(k - 1) BY <2>4 DEF Waiting
    <3>2. ~ResultStep(l - 1) BY <3>1 DEF BothThrough, Through
    <3>4. l \in 2 .. Depth + 1 \/ ResultStep(l) BY <1>6, <2>2, <2>4, <3>2 DEF Shape
    <3>5. k >= Depth + 3 BY <1>1, <3>1, StepOrder
    <3>6. ResultStep(l) => k = l + 1 BY <1>1, <3>1, StepOrder
    <3> HIDE DEF k, l
    <3>7. l < k BY <1>1, <3>4, <3>5, <3>6
    <3> QED BY <3>7 DEF k, l
  <2> QED BY <2>3, <2>4
<1> QED BY <1>5, <1>6

\* A pair whose clocks have just been reset is in time.
LEMMA AgesZero ==
  ASSUME NEW e, NEW f, NEW C, e.age = 0, f.age = 0
  PROVE  Timed(e, f, C)
BY DelayFacts DEF Timed

\* The other side answers.
LEMMA OpponentAnswers ==
  ASSUME NEW e \in EntryType, NEW f, NEW g, NEW C, NEW D, Honest \in D <=> Honest \in C,
         Timed(e, f, C), g.age = 0
  PROVE  Timed(e, g, D)
<1>1. Waiting(e, D) <=> Waiting(e, C) BY DEF Waiting
<1>2. e.age \in Nat BY WindowAssumption DEF EntryType, MaxAge
<1> QED BY <1>1, <1>2, DelayFacts DEF Timed

\* The honest side answers: it gets ahead, or catches up in time.
LEMMA HonestAnswers ==
  ASSUME NEW e \in EntryType, NEW f \in EntryType, NEW g, NEW C, NEW D, g.age = 0, Honest \in D,
         ~(g.lowerBound = g.upperBound /\ g.challengeStepCompleted <= Depth + 1),
         \/ g.challengeStepCompleted # f.challengeStepCompleted
         \/ /\ ~Waiting(e, C) /\ Timed(e, f, C)
            /\ f.challengeStepCompleted > e.challengeStepCompleted
            /\ Honest \notin C \/ (e.lowerBound = e.upperBound /\ e.challengeStepCompleted <= Depth + 1)
  PROVE  Timed(g, f, D)
<1>1. e.age \in Nat /\ f.age \in Nat BY WindowAssumption DEF EntryType, MaxAge
<1>2. g.challengeStepCompleted = f.challengeStepCompleted => f.age <= Delay
  <2> SUFFICES ASSUME g.challengeStepCompleted = f.challengeStepCompleted PROVE f.age <= Delay
    OBVIOUS
  <2>1. e.age <= Delay /\ f.age <= e.age BY DEF Timed
  <2> QED BY <1>1, <2>1, DelayFacts
<1> QED BY <1>2, DelayFacts DEF Timed

\* A tick leaves a pair in time unless a side that can answer is late.
LEMMA TicksTimed ==
  ASSUME NEW e \in EntryType, NEW f \in EntryType, NEW C, Timed(e, f, C),
         ~Waiting(e, C) => e.age < Delay
  PROVE  Timed(older(e), older(f), C)
<1> DEFINE g == older(e)
           h == older(f)
           a == e.age
           b == f.age
<1>1. Alike(g, e) /\ Alike(h, f) BY OlderFacts
<1>2. /\ g.age = IF a < MaxAge THEN a + 1 ELSE a
      /\ h.age = IF b < MaxAge THEN b + 1 ELSE b
  BY OlderFacts
<1>3. a \in 0 .. MaxAge /\ b \in 0 .. MaxAge /\ MaxAge \in Nat
  BY WindowAssumption DEF EntryType, MaxAge
<1>4. Waiting(g, C) <=> Waiting(e, C) BY <1>1 DEF Alike, Waiting
<1> HIDE DEF g, h
<1>5. ~Waiting(g, C) => g.age <= Delay
  <2> SUFFICES ASSUME ~Waiting(g, C) PROVE g.age <= Delay OBVIOUS
  <2>1. a < Delay BY <1>4
  <2> HIDE DEF a
  <2> QED BY <1>2, <1>3, <2>1, DelayFacts
<1>6. b <= a + Delay => h.age <= g.age + Delay
  <2> HIDE DEF a, b
  <2> QED BY <1>2, <1>3, DelayFacts
<1>7. b <= a => h.age <= g.age
  <2> HIDE DEF a, b
  <2> QED BY <1>2, <1>3
<1>8. /\ g.challengeStepCompleted = e.challengeStepCompleted
      /\ h.challengeStepCompleted = f.challengeStepCompleted
      /\ g.lowerBound = e.lowerBound /\ g.upperBound = e.upperBound
  BY <1>1 DEF Alike
<1>9. e.challengeStepCompleted = f.challengeStepCompleted => b <= a + Delay BY DEF Timed
<1>10. (/\ Honest \notin C \/ (e.lowerBound = e.upperBound /\ e.challengeStepCompleted <= Depth + 1)
        /\ f.challengeStepCompleted > e.challengeStepCompleted) => b <= a
  BY DEF Timed
<1> HIDE DEF a, b
<1>11. Timed(g, h, C) BY <1>5, <1>6, <1>7, <1>8, <1>9, <1>10 DEF Timed
<1> QED BY <1>11 DEF g, h

\* Before the window closes no clock runs; when it closes the honest hash is there.
Unopened ==
  ~submissionWindowClosed => \A r \in Rounds : \A i \in Indices(r) : entryAt(r, i).age = 0

Present == submissionWindowClosed => Honest \in Submitted

\* The honest hash is beside one that has answered the challenge as well.
Matched ==
  \E r \in Rounds : \E i \in Indices(r) :
    /\ submissionAt(r, i) = Honest
    /\ InRound(r, getOpponentIdx(i)) /\ Held(r, getOpponentIdx(i))
    /\ BothThrough(entryAt(r, i), entryAt(r, getOpponentIdx(i)))

Beaten == Honest \in Out => Matched

Rightly == confirmed \in {Honest, NoSubmission} \/ Honest \in Out \/ settledAgain # 0

KeepsUp == InTime /\ Unopened /\ Present /\ Beaten /\ Rightly

\* Who has a step to make is not through, and who makes the last one was not before.
LEMMA NotThrough ==
  ASSUME NEW e \in EntryType,
         e.challengeStepCompleted <= Depth + 1 \/ ResultStep(e.challengeStepCompleted)
  PROVE  ~Through(e)
<1> DEFINE k == e.challengeStepCompleted
<1>1. k \in Nat /\ Depth \in Nat BY DepthFacts DEF EntryType
<1> HIDE DEF k
<1>2. ResultStep(k - 1) => k >= Depth + 3 BY <1>1, StepOrder
<1>3. ResultStep(k - 1) /\ ResultStep(k) => k = k + 1 BY <1>1, StepOrder
<1>4. ~ResultStep(k - 1) BY <1>1, <1>2, <1>3 DEF k
<1> QED BY <1>4 DEF Through, k

\* A pair that is through stays as it is when somebody answers that is not,
LEMMA MatchedKept ==
  ASSUME TypeOK, SamePlaces, Matched, NEW r \in Rounds, NEW i \in Indices(r),
         ~Through(entryAt(r, i)), NEW o, o = getOpponentIdx(i),
         \A q \in Rounds : \A j \in Indices(q) : ~(q = r /\ j \in {i, o}) => KeptAt(q, j)
  PROVE  Matched'
<1>1. PICK q \in Rounds : \E j \in Indices(q) :
        /\ submissionAt(q, j) = Honest
        /\ InRound(q, getOpponentIdx(j)) /\ Held(q, getOpponentIdx(j))
        /\ BothThrough(entryAt(q, j), entryAt(q, getOpponentIdx(j)))
  BY DEF Matched
<1>2. PICK j \in Indices(q) :
        /\ submissionAt(q, j) = Honest
        /\ InRound(q, getOpponentIdx(j)) /\ Held(q, getOpponentIdx(j))
        /\ BothThrough(entryAt(q, j), entryAt(q, getOpponentIdx(j)))
  BY <1>1
<1>3. PICK p : p = getOpponentIdx(j) OBVIOUS
<1>4. p \in Indices(q) /\ getOpponentIdx(p) = j BY <1>2, <1>3, IndexFacts, OpponentFacts
<1>5. getOpponentIdx(o) = i BY IndexFacts, OpponentFacts
<1>6. ~(q = r /\ j \in {i, o}) /\ ~(q = r /\ p \in {i, o})
  BY <1>2, <1>3, <1>4, <1>5 DEF BothThrough
<1>7. KeptAt(q, j) /\ KeptAt(q, p) BY <1>4, <1>6
<1>8. Indices(q)' = Indices(q) /\ (InRound(q, p)' <=> InRound(q, p)) BY SameIndices
<1> QED BY <1>2, <1>3, <1>7, <1>8 DEF Matched, KeptAt, BothThrough, Through, Held

\* and when nobody does.
LEMMA MatchedQuiet ==
  ASSUME TypeOK, SamePlaces, Matched,
         \A q \in Rounds : \A j \in Indices(q) : Alike(entryAt(q, j)', entryAt(q, j))
  PROVE  Matched'
<1>1. PICK q \in Rounds : \E j \in Indices(q) :
        /\ submissionAt(q, j) = Honest
        /\ InRound(q, getOpponentIdx(j)) /\ Held(q, getOpponentIdx(j))
        /\ BothThrough(entryAt(q, j), entryAt(q, getOpponentIdx(j)))
  BY DEF Matched
<1>2. PICK j \in Indices(q) :
        /\ submissionAt(q, j) = Honest
        /\ InRound(q, getOpponentIdx(j)) /\ Held(q, getOpponentIdx(j))
        /\ BothThrough(entryAt(q, j), entryAt(q, getOpponentIdx(j)))
  BY <1>1
<1>3. PICK p : p = getOpponentIdx(j) OBVIOUS
<1>4. p \in Indices(q) BY <1>2, <1>3, IndexFacts
<1>5. Indices(q)' = Indices(q) /\ (InRound(q, p)' <=> InRound(q, p)) BY SameIndices
<1> QED BY <1>2, <1>3, <1>4, <1>5 DEF Matched, SamePlaces, BothThrough, Through, Held, Alike

\* A matched hash is in a pair both sides of which answered.
LEMMA MatchedFollows ==
  ASSUME Dispute, Matched
  PROVE  HonestMatched
<1>1. TypeOK BY DEF Dispute
<1>2. ASSUME NEW r \in Rounds, NEW i \in Indices(r), Through(entryAt(r, i))
      PROVE  Responded(entryAt(r, i))
  <2>1. /\ entryAt(r, i).challengeStepCompleted \in Nat
        /\ Shape(entryAt(r, i), submissionAt(r, i), jrhConfirmed)
    BY <1>1, EntryFacts, StepNat DEF Dispute, Shaped, PlaceOK
  <2> DEFINE k == entryAt(r, i).challengeStepCompleted
  <2>2. k \in Nat /\ ResultStep(k - 1) BY <1>2, <2>1 DEF Through
  <2> HIDE DEF k
  <2>3. k - 1 >= 3 /\ pow2[(k - 1) - 2] > NLeaves BY <2>2 DEF ResultStep
  <2>4. (k - 1) - 2 = k - 3 /\ k >= 3 /\ k # 0 BY <2>2, <2>3
  <2>5. submissionAt(r, i) \in jrhConfirmed BY <2>1, <2>4 DEF Shape, k
  <2> QED BY <2>3, <2>4, <2>5 DEF Responded, submissionAt, k
<1>3. PICK r \in Rounds : \E i \in Indices(r) :
        /\ submissionAt(r, i) = Honest
        /\ InRound(r, getOpponentIdx(i)) /\ Held(r, getOpponentIdx(i))
        /\ BothThrough(entryAt(r, i), entryAt(r, getOpponentIdx(i)))
  BY DEF Matched
<1>4. PICK i \in Indices(r) :
        /\ submissionAt(r, i) = Honest
        /\ InRound(r, getOpponentIdx(i)) /\ Held(r, getOpponentIdx(i))
        /\ BothThrough(entryAt(r, i), entryAt(r, getOpponentIdx(i)))
  BY <1>3
<1>5. PICK o : o = getOpponentIdx(i) OBVIOUS
<1>6. i \in Nat /\ o \in Nat /\ o \in Indices(r) /\ InRound(r, i)
  BY <1>1, <1>4, <1>5, IndexFacts, OpponentFacts DEF InRound
<1>7. Responded(entryAt(r, i)) /\ Responded(entryAt(r, o))
  BY <1>2, <1>4, <1>5, <1>6 DEF BothThrough
<1>8. CASE i % 2 = 0
  <2>1. o = i + 1 BY <1>5, <1>6, <1>8 DEF getOpponentIdx
  <2>2. InRound(r, i + 1) BY <1>4, <1>5, <2>1
  <2>3. <<r, i>> \in Pairs BY <1>8, <2>2 DEF Pairs
  <2>4. BothRespond(<<r, i>>) BY <1>7, <2>1 DEF BothRespond
  <2>5. submissionAt(<<r, i>>[1], <<r, i>>[2]) = Honest BY <1>4
  <2> QED BY <2>3, <2>4, <2>5 DEF HonestMatched
<1>9. CASE i % 2 # 0
  <2>1. o = i - 1 /\ i % 2 = 1 BY <1>5, <1>6, <1>9, Parity DEF getOpponentIdx
  <2>2. o % 2 = 0 /\ o + 1 = i BY <1>6, <2>1
  <2>3. <<r, o>> \in Pairs BY <1>6, <2>2 DEF Pairs
  <2>4. BothRespond(<<r, o>>) BY <1>7, <2>2 DEF BothRespond
  <2>5. submissionAt(<<r, o>>[1], <<r, o>>[2] + 1) = Honest BY <1>4, <2>2
  <2> QED BY <2>3, <2>4, <2>5 DEF HonestMatched
<1> QED BY <1>8, <1>9

\* One side answers, the other is left as it is.
LEMMA StepInTime ==
  ASSUME Dispute, KeepsUp, NEW r \in Rounds, NEW i \in Indices(r),
         Answered(r, i), OthersKept(r, i), ~Through(entryAt(r, i)),
         jrhConfirmed' \in {jrhConfirmed, jrhConfirmed \cup {submissionAt(r, i)}},
         NEW o, o = getOpponentIdx(i),
         (/\ InRound(r, o) /\ submissionAt(r, i) = Honest /\ Held(r, o)
          /\ ~BothThrough(entryAt(r, i)', entryAt(r, o)))
           => Timed(entryAt(r, i)', entryAt(r, o), jrhConfirmed')
  PROVE  InTime'
<1>1. TypeOK /\ SamePlaces /\ submissionAt(r, i)' = submissionAt(r, i) /\ entryAt(r, i)'.age = 0
  BY DEF Dispute, Answered
<1>2. \A q \in Rounds : \A j \in Indices(q) : ~(q = r /\ j \in {i, o}) => KeptAt(q, j)
  BY DEF OthersKept
<1>3. ASSUME InRound(r, o) PROVE TimedAt(r, i, o)' /\ TimedAt(r, o, i)'
  <2>1. KeptAt(r, o) /\ o \in Indices(r) BY <1>1, <1>3, OpponentKept
  <2>2. i \in Nat /\ o # i /\ getOpponentIdx(o) = i BY <1>1, EntryFacts, OpponentFacts
  <2>3. entryAt(r, o)' = entryAt(r, o) /\ submissionAt(r, o)' = submissionAt(r, o)
    BY <2>1 DEF KeptAt
  <2>4. TimedAt(r, i, o)' BY <1>1, <1>3, <2>3 DEF TimedAt, Held, BothThrough, Through
  <2>5. ASSUME submissionAt(r, o) = Honest, Held(r, i)
        PROVE  Timed(entryAt(r, o), entryAt(r, i)', jrhConfirmed')
    <3>1. Held(r, o) BY <2>5, NoHash, SubmissionAssumption DEF Held
    <3>2. submissionAt(r, i) # Honest
      BY <2>1, <2>2, <2>5, <3>1 DEF Dispute, Struct, OnePlace
    <3>3. Honest \in jrhConfirmed' <=> Honest \in jrhConfirmed BY <3>2
    <3>4. InRound(r, i) BY <1>1, InRoundNat
    <3>5. TimedAt(r, o, i) BY <2>1, <2>2, <3>4 DEF KeepsUp, InTime
    <3>6. Timed(entryAt(r, o), entryAt(r, i), jrhConfirmed)
      BY <2>5, <3>5 DEF TimedAt, BothThrough
    <3>7. entryAt(r, o) \in EntryType BY <1>1, <2>1, EntryFacts
    <3> QED BY <1>1, <3>3, <3>6, <3>7, OpponentAnswers
  <2>6. TimedAt(r, o, i)' BY <1>1, <2>3, <2>5 DEF TimedAt, Held
  <2> QED BY <2>4, <2>6
<1> QED BY <1>1, <1>2, <1>3, LocalDisputes DEF KeepsUp

\* What the honest side is told of its pair.
LEMMA HonestPair ==
  ASSUME Dispute, KeepsUp, NEW r \in Rounds, NEW i \in Indices(r), submissionAt(r, i) = Honest,
         NEW o, o = getOpponentIdx(i), InRound(r, o), Held(r, o),
         ~BothThrough(entryAt(r, i), entryAt(r, o))
  PROVE  /\ o \in Indices(r) /\ o # i /\ Held(r, i)
         /\ entryAt(r, i) \in EntryType /\ entryAt(r, o) \in EntryType
         /\ Shape(entryAt(r, i), Honest, jrhConfirmed)
         /\ Shape(entryAt(r, o), submissionAt(r, o), jrhConfirmed)
         /\ PairShape(entryAt(r, i), entryAt(r, o), Honest, submissionAt(r, o), jrhConfirmed)
         /\ Timed(entryAt(r, i), entryAt(r, o), jrhConfirmed)
         /\ submissionAt(r, o) # Honest
<1>1. TypeOK /\ Struct BY DEF Dispute
<1>2. o \in Indices(r) /\ o # i BY <1>1, IndexFacts, OpponentFacts
<1>3. Held(r, i) BY NoHash, SubmissionAssumption DEF Held
<1>7. Timed(entryAt(r, i), entryAt(r, o), jrhConfirmed) BY DEF KeepsUp, InTime, TimedAt
<1>8. PairShape(entryAt(r, i), entryAt(r, o), Honest, submissionAt(r, o), jrhConfirmed)
  BY <1>3 DEF Dispute, Paired, PairOK
<1>9. Shape(entryAt(r, i), Honest, jrhConfirmed)
      /\ Shape(entryAt(r, o), submissionAt(r, o), jrhConfirmed)
  BY <1>2 DEF Dispute, Shaped, PlaceOK
<1>10. submissionAt(r, o) # Honest BY <1>1, <1>2 DEF Struct, OnePlace
<1> QED BY <1>1, <1>2, <1>3, <1>7, <1>8, <1>9, <1>10, EntryFacts

\* Confirming a justification root hash keeps every pair in time,
LEMMA ConfirmJRHInTime ==
  ASSUME Dispute, KeepsUp, NEW r \in Rounds, NEW i \in Indices(r),
         confirmJustificationRootHash(r, i)
  PROVE  InTime'
<1>0. PICK o : o = getOpponentIdx(i) OBVIOUS
<1> DEFINE e == entryAt(r, i)
           f == entryAt(r, o)
           g == entryAt(r, i)'
<1>1. /\ Answered(r, i) /\ OthersKept(r, i) /\ ~confirmedAt(r, i)
      /\ e.challengeStepCompleted = 0
      /\ Fresh(g, submissionAt(r, i), jrhConfirmed')
      /\ jrhConfirmed' = jrhConfirmed \cup {submissionAt(r, i)}
  BY ConfirmJRHView
<1>5. ~Through(e)
  <2>1. e \in EntryType BY EntryFacts DEF Dispute
  <2>2. e.challengeStepCompleted <= Depth + 1 BY <1>1, DepthFacts
  <2> HIDE DEF e
  <2> QED BY <2>1, <2>2, NotThrough
<1>2. ASSUME InRound(r, o), submissionAt(r, i) = Honest, Held(r, o), ~BothThrough(g, f)
      PROVE  Timed(g, f, jrhConfirmed')
  <2>1. /\ e \in EntryType /\ f \in EntryType /\ Timed(e, f, jrhConfirmed)
    BY <1>0, <1>2, <1>5, HonestPair DEF BothThrough
  <2>2. Honest \notin jrhConfirmed BY <1>1, <1>2 DEF confirmedAt
  <2>3. Honest \in jrhConfirmed' BY <1>1, <1>2
  <2>4. g.age = 0 BY <1>1 DEF Answered
  <2>5. g.lowerBound = 0 /\ g.upperBound = NLeaves - 1 /\ g.challengeStepCompleted = 1
    BY <1>1, <1>2, <2>3 DEF Fresh
  <2>6. g.lowerBound # g.upperBound BY <2>5, Leaves
  <2>7. ~Waiting(e, jrhConfirmed) BY <2>2 DEF Waiting
  <2>8. g.challengeStepCompleted = f.challengeStepCompleted
          => f.challengeStepCompleted > e.challengeStepCompleted
    BY <1>1, <2>5
  <2> HIDE DEF e, f, g
  <2> QED BY <2>1, <2>2, <2>3, <2>4, <2>6, <2>7, <2>8, HonestAnswers
<1> HIDE DEF g, f, e
<1>3. (InRound(r, o) /\ submissionAt(r, i) = Honest /\ Held(r, o) /\ ~BothThrough(g, f))
        => Timed(g, f, jrhConfirmed')
  BY <1>2
<1> QED BY <1>0, <1>1, <1>3, <1>5, StepInTime DEF e, f, g

\* and so does the first answer to a search,
LEMMA FirstInTime ==
  ASSUME Dispute, KeepsUp, NEW r \in Rounds, NEW i \in Indices(r),
         respondToBinarySearchForChallenge(r, i), FirstToStep(r, i)
  PROVE  InTime'
<1>0. PICK o : o = getOpponentIdx(i) OBVIOUS
<1> DEFINE e == entryAt(r, i)
           f == entryAt(r, o)
           g == entryAt(r, i)'
           z == e.challengeStepCompleted + 1
<1>1. e.lowerBound # e.upperBound /\ submissionAt(r, i) \in jrhConfirmed BY RespondFacts
<1>2. Stepped(r, i, z) BY FirstStepped
<1>3. z \in Nat BY EntryFacts, StepNat DEF Dispute
<1>4. /\ Answered(r, i) /\ OthersKept(r, i)
      /\ g.challengeStepCompleted = z /\ g.lowerBound = e.lowerBound
      /\ g.upperBound = e.upperBound
      /\ jrhConfirmed' = jrhConfirmed
  <2> HIDE DEF z
  <2> QED BY <1>2, <1>3, StepView
<1>7. ~Through(e)
  <2>1. e \in EntryType BY EntryFacts DEF Dispute
  <2>2. e.challengeStepCompleted <= Depth + 1
    <3>1. /\ OnPath(e.lowerBound, e.upperBound) /\ e.lowerBound # e.upperBound
          /\ e.challengeStepCompleted = due(e.lowerBound, e.upperBound)
      BY RespondFacts
    <3>2. due(e.lowerBound, e.upperBound) <= Depth /\ due(e.lowerBound, e.upperBound) \in Nat
      BY <3>1, PathEnds, PathFacts
    <3> HIDE DEF e
    <3> QED BY <3>1, <3>2, DepthFacts
  <2> HIDE DEF e
  <2> QED BY <2>1, <2>2, NotThrough
<1>5. ASSUME InRound(r, o), submissionAt(r, i) = Honest, Held(r, o), ~BothThrough(g, f)
      PROVE  Timed(g, f, jrhConfirmed')
  <2>1. e \in EntryType /\ f \in EntryType BY <1>0, <1>5, <1>7, HonestPair DEF BothThrough
  <2>2. Honest \in jrhConfirmed' BY <1>1, <1>4, <1>5
  <2>3. g.age = 0 BY <1>4 DEF Answered
  <2>4. g.challengeStepCompleted # f.challengeStepCompleted BY <1>0, <1>4 DEF FirstToStep
  <2>5. g.lowerBound # g.upperBound BY <1>1, <1>4
  <2> HIDE DEF e, f, g
  <2> QED BY <2>1, <2>2, <2>3, <2>4, <2>5, HonestAnswers
<1> HIDE DEF g, f, e
<1>6. (InRound(r, o) /\ submissionAt(r, i) = Honest /\ Held(r, o) /\ ~BothThrough(g, f))
        => Timed(g, f, jrhConfirmed')
  BY <1>5
<1> QED BY <1>0, <1>4, <1>6, <1>7, StepInTime DEF e, f, g

\* the confirmation of its result,
LEMMA ResultInTime ==
  ASSUME Dispute, KeepsUp, NEW r \in Rounds, NEW i \in Indices(r),
         confirmBinarySearchResult(r, i)
  PROVE  InTime'
<1>0. PICK o : o = getOpponentIdx(i) OBVIOUS
<1> DEFINE e == entryAt(r, i)
           f == entryAt(r, o)
           g == entryAt(r, i)'
           k == e.challengeStepCompleted
<1>1. /\ e.lowerBound = e.upperBound /\ k \in 2 .. Depth + 1
      /\ submissionAt(r, i) \in jrhConfirmed
      /\ \E z \in Nat : ResultStep(z) /\ Stepped(r, i, z)
  BY ResultView
<1>2. PICK z \in Nat : ResultStep(z) /\ Stepped(r, i, z) BY <1>1
<1>4. /\ Answered(r, i) /\ OthersKept(r, i)
      /\ g.challengeStepCompleted = z /\ g.lowerBound = e.lowerBound
      /\ g.upperBound = e.upperBound
      /\ jrhConfirmed' = jrhConfirmed
  BY <1>2, StepView
<1>7. ~Through(e)
  <2>1. e \in EntryType BY EntryFacts DEF Dispute
  <2>2. e.challengeStepCompleted <= Depth + 1 BY <1>1, DepthFacts
  <2> HIDE DEF e
  <2> QED BY <2>1, <2>2, NotThrough
<1>5. ASSUME InRound(r, o), submissionAt(r, i) = Honest, Held(r, o), ~BothThrough(g, f)
      PROVE  Timed(g, f, jrhConfirmed')
  <2>1. /\ e \in EntryType /\ f \in EntryType /\ Timed(e, f, jrhConfirmed)
    BY <1>0, <1>5, <1>7, HonestPair DEF BothThrough
  <2>2. Honest \in jrhConfirmed' BY <1>1, <1>4, <1>5
  <2>3. g.age = 0 BY <1>4 DEF Answered
  <2>4. k \in Nat /\ z \in Nat /\ Depth \in Nat BY <2>1, DepthFacts DEF EntryType
  <2>5. z >= Depth + 2 BY <1>2, <2>4, StepOrder
  <2>6. k <= Depth + 1 BY <1>1, <2>4
  <2>7. ~ResultStep(k - 1)
    <3>1. ResultStep(k - 1) => k >= Depth + 3 BY <2>4, StepOrder
    <3> HIDE DEF k
    <3> QED BY <2>4, <2>6, <3>1
  <2>8. ~Waiting(e, jrhConfirmed) BY <1>1, <2>7 DEF Waiting
  <2>9. z > k /\ ~(z <= Depth + 1)
    <3> HIDE DEF k
    <3> QED BY <2>4, <2>5, <2>6
  <2>10. g.challengeStepCompleted = f.challengeStepCompleted => f.challengeStepCompleted > k
    <3> HIDE DEF k, f, g
    <3> QED BY <1>4, <2>9
  <2>11. ~(g.challengeStepCompleted <= Depth + 1)
    <3> HIDE DEF k, f, g
    <3> QED BY <1>4, <2>9
  <2>12. e.challengeStepCompleted <= Depth + 1 BY <2>6
  <2>13. g.challengeStepCompleted = f.challengeStepCompleted
           => f.challengeStepCompleted > e.challengeStepCompleted BY <2>10
  <2> HIDE DEF e, f, g, k
  <2> QED BY <1>1, <2>1, <2>2, <2>3, <2>8, <2>11, <2>12, <2>13, HonestAnswers
<1> HIDE DEF g, f, e
<1>6. (InRound(r, o) /\ submissionAt(r, i) = Honest /\ Held(r, o) /\ ~BothThrough(g, f))
        => Timed(g, f, jrhConfirmed')
  BY <1>5
<1> QED BY <1>0, <1>4, <1>6, <1>7, StepInTime DEF e, f, g

\* the answer to the challenge,
LEMMA ChallengeInTime ==
  ASSUME Dispute, KeepsUp, NEW r \in Rounds, NEW i \in Indices(r), respondToChallenge(r, i)
  PROVE  InTime'
<1>0. PICK o : o = getOpponentIdx(i) OBVIOUS
<1> DEFINE e == entryAt(r, i)
           f == entryAt(r, o)
           g == entryAt(r, i)'
           k == e.challengeStepCompleted
           l == f.challengeStepCompleted
           t == submissionAt(r, o)
           lb == e.lowerBound
<1>1. /\ challengeOpen(e, NLeaves) /\ Right(submissionAt(r, i), lb)
      /\ submissionAt(r, i) \in jrhConfirmed
      /\ k + 1 \in Nat /\ k \in Nat
      /\ Stepped(r, i, k + 1)
  BY ChallengeView
<1>2. e.lowerBound = e.upperBound /\ ResultStep(k) BY <1>1 DEF challengeOpen, ResultStep
<1>4. /\ Answered(r, i) /\ OthersKept(r, i)
      /\ g.challengeStepCompleted = k + 1 /\ g.lowerBound = e.lowerBound
      /\ g.upperBound = e.upperBound
      /\ jrhConfirmed' = jrhConfirmed
  <2> DEFINE z == k + 1
  <2>1. z \in Nat /\ Stepped(r, i, z) BY <1>1
  <2> HIDE DEF z
  <2>2. /\ Answered(r, i) /\ OthersKept(r, i)
        /\ g.challengeStepCompleted = z /\ g.lowerBound = e.lowerBound
        /\ g.upperBound = e.upperBound
        /\ jrhConfirmed' = jrhConfirmed
    BY <2>1, StepView
  <2> QED BY <2>2 DEF z
<1>7. ~Through(e)
  <2>1. e \in EntryType BY EntryFacts DEF Dispute
  <2>2. ResultStep(e.challengeStepCompleted) BY <1>2
  <2> HIDE DEF e
  <2> QED BY <2>1, <2>2, NotThrough
<1>5. ASSUME InRound(r, o), submissionAt(r, i) = Honest, Held(r, o), ~BothThrough(g, f)
      PROVE  Timed(g, f, jrhConfirmed')
  <2>1. e \in EntryType /\ f \in EntryType
    BY <1>0, <1>5, <1>7, HonestPair DEF BothThrough
  <2>2. Honest \in jrhConfirmed'
    BY <1>1, <1>4, <1>5
  <2>3. g.age = 0 BY <1>4 DEF Answered
  <2>4. k \in Nat /\ l \in Nat /\ Depth \in Nat BY <2>1, DepthFacts DEF EntryType
  <2>5. k >= Depth + 2 BY <1>2, <2>4, StepOrder
  <2>6. l # k + 1
    <3>1. g.challengeStepCompleted - 1 = k BY <1>4, <2>4
    <3>2. ~ResultStep(l - 1) BY <1>2, <1>5, <3>1 DEF BothThrough, Through
    <3>3. l = k + 1 => l - 1 = k BY <2>4
    <3> QED BY <1>2, <3>2, <3>3
  <2>7. g.challengeStepCompleted # f.challengeStepCompleted BY <1>4, <2>6
  <2>8. ~(g.challengeStepCompleted <= Depth + 1)
    <3> HIDE DEF k, g
    <3> QED BY <1>4, <2>4, <2>5
  <2> HIDE DEF e, f, g, k, l
  <2> QED BY <2>1, <2>2, <2>3, <2>7, <2>8, HonestAnswers
<1> HIDE DEF g, f, e
<1>6. (InRound(r, o) /\ submissionAt(r, i) = Honest /\ Held(r, o) /\ ~BothThrough(g, f))
        => Timed(g, f, jrhConfirmed')
  BY <1>5
<1> QED BY <1>0, <1>4, <1>6, <1>7, StepInTime DEF e, f, g

\* and the second answer to a search.
LEMMA SecondInTime ==
  ASSUME Dispute, KeepsUp, NEW r \in Rounds, NEW i \in Indices(r),
         respondToBinarySearchForChallenge(r, i), ~FirstToStep(r, i)
  PROVE  InTime' /\ RoundsType' /\ SamePlaces
         /\ \A q \in Rounds : \A j \in Indices(q) :
              ~submissionWindowClosed => entryAt(q, j)'.age = 0
<1>0. PICK o : o = getOpponentIdx(i) OBVIOUS
<1>1. /\ Answered(r, i) /\ entryAt(r, o)'.age = 0
      /\ o \in Indices(r)
      /\ \A q \in Rounds : \A j \in Indices(q) : ~(q = r /\ j \in {i, o}) => KeptAt(q, j)
  BY <1>0, SecondView
<1>2. TypeOK /\ SamePlaces /\ RoundsType' /\ entryAt(r, i)'.age = 0 BY <1>1 DEF Dispute, Answered
<1>3. TimedAt(r, i, o)' /\ TimedAt(r, o, i)' BY <1>1, <1>2, AgesZero DEF TimedAt
<1>4. InTime' BY <1>0, <1>1, <1>2, <1>3, LocalDisputes DEF KeepsUp
<1>5. ASSUME NEW q \in Rounds, NEW j \in Indices(q), ~submissionWindowClosed
      PROVE  entryAt(q, j)'.age = 0
  <2>1. CASE q = r /\ j \in {i, o} BY <1>1, <1>2, <2>1
  <2>2. CASE ~(q = r /\ j \in {i, o}) BY <1>1, <1>5, <2>2 DEF KeptAt, KeepsUp, Unopened
  <2> QED BY <2>1, <2>2
<1> QED BY <1>2, <1>4, <1>5

\* Who answers is not through.
LEMMA AnswersNotThrough ==
  ASSUME Dispute, NEW r \in Rounds, NEW i \in Indices(r), AnswerAt(r, i)
  PROVE  ~Through(entryAt(r, i))
<1> DEFINE e == entryAt(r, i)
<1>1. e \in EntryType BY EntryFacts DEF Dispute
<1>2. CASE confirmJustificationRootHash(r, i)
  <2>1. e.challengeStepCompleted = 0 BY <1>2, ConfirmJRHView
  <2>2. e.challengeStepCompleted <= Depth + 1 BY <2>1, DepthFacts
  <2> QED BY <1>1, <2>2, NotThrough
<1>3. CASE respondToBinarySearchForChallenge(r, i)
  <2>1. /\ OnPath(e.lowerBound, e.upperBound) /\ e.lowerBound # e.upperBound
        /\ e.challengeStepCompleted = due(e.lowerBound, e.upperBound)
    BY <1>3, RespondFacts
  <2>2. due(e.lowerBound, e.upperBound) <= Depth /\ due(e.lowerBound, e.upperBound) \in Nat
    BY <2>1, PathEnds, PathFacts
  <2>3. e.challengeStepCompleted <= Depth + 1
    <3> HIDE DEF e
    <3> QED BY <2>1, <2>2, DepthFacts
  <2> QED BY <1>1, <2>3, NotThrough
<1>4. CASE confirmBinarySearchResult(r, i)
  <2>1. e.challengeStepCompleted \in 2 .. Depth + 1 BY <1>4, ResultView
  <2>2. e.challengeStepCompleted <= Depth + 1 BY <2>1, DepthFacts
  <2> QED BY <1>1, <2>2, NotThrough
<1>5. CASE respondToChallenge(r, i)
  <2>1. challengeOpen(e, NLeaves) BY <1>5, ChallengeView
  <2>2. e.challengeStepCompleted \in Nat BY <1>1, StepNat
  <2>3. ResultStep(e.challengeStepCompleted) BY <2>1, <2>2 DEF challengeOpen, ResultStep
  <2> QED BY <1>1, <2>3, NotThrough
<1> QED BY <1>2, <1>3, <1>4, <1>5 DEF AnswerAt

\* One answer, of either side.
LEMMA AnswerKeepsUp ==
  ASSUME Dispute, KeepsUp, NEW r \in Rounds, NEW i \in Indices(r), AnswerAt(r, i)
  PROVE  KeepsUp'
<1>1. /\ windowAge' = windowAge /\ confirmed' = confirmed
      /\ submittedHashes' = submittedHashes /\ timesInvalidated' = timesInvalidated
      /\ settledAgain' = settledAgain
  BY DEF AnswerAt, confirmJustificationRootHash, respondToBinarySearchForChallenge,
         confirmBinarySearchResult, respondToChallenge, submitVars, outcomeVars
<1>2. Present' /\ Out' = Out /\ Rightly'
  BY <1>1 DEF KeepsUp, Present, Submitted, submissionWindowClosed, Out, Rightly
<1>12. TypeOK BY DEF Dispute
<1>13. ASSUME ~Through(entryAt(r, i)), SamePlaces,
              \A q \in Rounds : \A j \in Indices(q) :
                ~(q = r /\ j \in {i, getOpponentIdx(i)}) => KeptAt(q, j)
       PROVE  Beaten'
  <2>1. Matched => Matched' BY <1>12, <1>13, MatchedKept
  <2> QED BY <1>2, <2>1 DEF KeepsUp, Beaten
<1>14. ~Through(entryAt(r, i)) BY AnswersNotThrough
<1>15. ASSUME Answered(r, i), OthersKept(r, i) PROVE Beaten'
  BY <1>13, <1>14, <1>15 DEF Answered, OthersKept
<1>3. submissionWindowClosed' = submissionWindowClosed BY <1>1 DEF submissionWindowClosed
<1>4. ASSUME SamePlaces, \A q \in Rounds : \A j \in Indices(q) :
                           ~submissionWindowClosed => entryAt(q, j)'.age = 0
      PROVE  Unopened'
  BY <1>3, <1>4, SameIndices DEF Unopened, Dispute
<1>5. ASSUME Answered(r, i), OthersKept(r, i) PROVE Unopened'
  <2>1. SamePlaces /\ entryAt(r, i)'.age = 0 BY <1>5 DEF Answered
  <2>2. \A q \in Rounds : \A j \in Indices(q) :
          ~submissionWindowClosed => entryAt(q, j)'.age = 0
    BY <1>5, <2>1 DEF OthersKept, KeptAt, KeepsUp, Unopened
  <2> QED BY <1>4, <2>1, <2>2
<1>6. CASE confirmJustificationRootHash(r, i)
  <2>1. Answered(r, i) /\ OthersKept(r, i) BY <1>6, ConfirmJRHView
  <2>2. InTime' BY <1>6, ConfirmJRHInTime
  <2> QED BY <1>2, <1>5, <1>15, <2>1, <2>2 DEF KeepsUp
<1>7. CASE respondToBinarySearchForChallenge(r, i) /\ FirstToStep(r, i)
  <2> DEFINE z == entryAt(r, i).challengeStepCompleted + 1
  <2>1. z \in Nat /\ Stepped(r, i, z) BY <1>7, FirstStepped, EntryFacts, StepNat DEF Dispute
  <2> HIDE DEF z
  <2>2. Answered(r, i) /\ OthersKept(r, i) BY <2>1, StepView
  <2>3. InTime' BY <1>7, FirstInTime
  <2> QED BY <1>2, <1>5, <1>15, <2>2, <2>3 DEF KeepsUp
<1>8. CASE respondToBinarySearchForChallenge(r, i) /\ ~FirstToStep(r, i)
  <2>1. \A q \in Rounds : \A j \in Indices(q) :
          ~(q = r /\ j \in {i, getOpponentIdx(i)}) => KeptAt(q, j)
    BY <1>8, SecondView
  <2>2. Beaten' BY <1>8, <1>13, <1>14, <2>1, SecondInTime
  <2> QED BY <1>2, <1>4, <1>8, <2>2, SecondInTime DEF KeepsUp
<1>9. CASE confirmBinarySearchResult(r, i)
  <2>1. PICK z \in Nat : ResultStep(z) /\ Stepped(r, i, z) BY <1>9, ResultView
  <2>2. Answered(r, i) /\ OthersKept(r, i) BY <2>1, StepView
  <2>3. InTime' BY <1>9, ResultInTime
  <2> QED BY <1>2, <1>5, <1>15, <2>2, <2>3 DEF KeepsUp
<1>10. CASE respondToChallenge(r, i)
  <2> DEFINE z == entryAt(r, i).challengeStepCompleted + 1
  <2>1. z \in Nat /\ Stepped(r, i, z) BY <1>10, ChallengeView
  <2> HIDE DEF z
  <2>2. Answered(r, i) /\ OthersKept(r, i) BY <2>1, StepView
  <2>3. InTime' BY <1>10, ChallengeInTime
  <2> QED BY <1>2, <1>5, <1>15, <2>2, <2>3 DEF KeepsUp
<1> QED BY <1>6, <1>7, <1>8, <1>9, <1>10 DEF AnswerAt

\* In the code, ALL_ENTRIES_ALLOWED_END_OF_WINDOW is half the response window.
LateAnswersFit == ResponseWindow <= 2 * AllEntriesAllowed

\* An entry moves on that is not the opponent of the honest one.
LEMMA MoveInTime ==
  ASSUME Dispute, KeepsUp, NEW r \in PlayableRounds, NEW o \in Indices(r),
         progress(r, o), submission' = submission, jrhConfirmed' = jrhConfirmed,
         InRound(r, getOpponentIdx(o)) => submissionAt(r, getOpponentIdx(o)) # Honest
  PROVE  InTime'
<1>0. PICK n : n = Len(disputeRounds[r + 1]) OBVIOUS
<1>1. r \in Rounds /\ r + 1 \in Rounds /\ r # r + 1 /\ TypeOK /\ Struct
  BY RoundFacts DEF Dispute
<1>2. Progressed(r, o, n) /\ HashMoved(r, o, n) BY <1>0, MoveView
<1>3. n \in Nat /\ Honest # NoSubmission
  BY <1>2, NoHash, SubmissionAssumption DEF HashMoved
<1>4. ASSUME n % 2 = 1 PROVE entryAt(r + 1, n - 1)'.age = 0 /\ entryAt(r + 1, n)'.age = 0
  <2>1. n - 1 \in Indices(r + 1) BY <1>2, <1>4 DEF Progressed
  <2>2. entryAt(r + 1, n - 1) \in EntryType /\ entryAt(r, o) \in EntryType
    BY <1>1, <2>1, EntryFacts
  <2>3. /\ startMemberOfPair(entryAt(r + 1, n - 1)).age = 0
        /\ startMemberOfPair(entryAt(r, o)).age = 0
    BY <2>2, StartFacts
  <2> QED BY <1>2, <1>4, <2>3 DEF Progressed
<1> SUFFICES ASSUME NEW q \in Rounds, NEW j \in Indices(q)', NEW p, p = getOpponentIdx(j),
                    InRound(q, p)', submissionAt(q, j)' = Honest, Held(q, p)',
                    ~BothThrough(entryAt(q, j)', entryAt(q, p)')
             PROVE  Timed(entryAt(q, j)', entryAt(q, p)', jrhConfirmed')
  BY DEF InTime, TimedAt, BothThrough, Through
<1>5. p \in Indices(q)' /\ j \in Nat /\ p \in Nat /\ p # j
  <2>1. p \in Indices(q)' BY <1>2 DEF HashMoved
  <2>2. Indices(q) \subseteq Nat BY <1>1, IndexFacts
  <2>3. j \in Nat /\ p \in Nat BY <1>2, <1>3, <2>1, <2>2 DEF HashMoved
  <2> QED BY <2>1, <2>3, OpponentFacts
<1>6. ~(q = r /\ j = o) BY <1>1, <1>2, <1>3 DEF HashMoved
<1>7. \A k \in Nat : k \in Indices(q)' /\ q = r + 1 => k < n + 1
  <2>1. Len(disputeRounds[r + 1]) = n BY <1>0
  <2>2. \A k \in Nat : k \in Indices(r + 1) => k < n BY <1>1, <2>1, IndexFacts
  <2> QED BY <1>2, <1>3, <2>2 DEF HashMoved
<1>8. CASE q = r + 1 /\ j = n
  <2>1. n % 2 = 1
    <3>1. n % 2 = 0 => p = n + 1 BY <1>3, <1>5, <1>8, NewOpponent
    <3>2. ~(n + 1 < n + 1) BY <1>3
    <3> QED BY <1>3, <1>5, <1>7, <1>8, <3>1, <3>2, Parity
  <2>2. p = n - 1 BY <1>3, <1>5, <1>8, <2>1, NewOpponent
  <2> QED BY <1>4, <1>8, <2>1, <2>2, AgesZero
<1>9. CASE q = r + 1 /\ n % 2 = 1 /\ j = n - 1
  <2>1. p = n BY <1>3, <1>5, <1>9, NewOpponent
  <2> QED BY <1>4, <1>9, <2>1, AgesZero
<1>10. CASE ~(q = r + 1 /\ (j = n \/ (n % 2 = 1 /\ j = n - 1)))
  <2>1. ~(q = r + 1 /\ p = n)
    <3> SUFFICES ASSUME q = r + 1, p = n PROVE FALSE OBVIOUS
    <3>1. getOpponentIdx(n) = j BY <1>5, OpponentFacts
    <3>2. n % 2 = 0 => j = n + 1 BY <1>3, <3>1, NewOpponent
    <3>3. n % 2 = 1 => j = n - 1 BY <1>3, <3>1, NewOpponent
    <3>4. ~(n + 1 < n + 1) BY <1>3
    <3> QED BY <1>3, <1>5, <1>7, <1>10, <3>2, <3>3, <3>4, Parity
  <2>2. ~(q = r + 1 /\ n % 2 = 1 /\ p = n - 1)
    <3> SUFFICES ASSUME q = r + 1, n % 2 = 1, p = n - 1 PROVE FALSE OBVIOUS
    <3>1. getOpponentIdx(p) = j BY <1>5, OpponentFacts
    <3>2. j = n BY <1>3, <1>5, <3>1, NewOpponent
    <3> QED BY <1>10, <3>2
  <2>3. j \in Indices(q) /\ p \in Indices(q) BY <1>2, <1>5, <1>10, <2>1 DEF HashMoved
  <2>4. InRound(q, p) /\ InRound(q, j) BY <1>2, <2>3 DEF HashMoved
  <2>5. submissionAt(q, j) = Honest BY <1>2, <1>6, <2>3 DEF HashMoved
  <2>6. ~(q = r /\ p = o)
    <3>1. getOpponentIdx(p) = j BY <1>5, OpponentFacts
    <3> QED BY <2>4, <2>5, <3>1
  <2>7. Apart(r, o, n, q, j) /\ Apart(r, o, n, q, p) BY <1>6, <1>10, <2>2, <2>6 DEF Apart
  <2>8. KeptAt(q, j) /\ KeptAt(q, p) BY <1>2, <2>3, <2>7 DEF HashMoved
  <2>9. TimedAt(q, j, p) BY <2>3, <2>4 DEF KeepsUp, InTime
  <2>10. TimedAt(q, j, p)' BY <2>8, <2>9, KeptPlaces
  <2> QED BY <2>10 DEF TimedAt
<1> QED BY <1>8, <1>9, <1>10

\* Who answers in time is not ahead of nobody.
LEMMA HonestNotOverdue ==
  ASSUME Dispute, KeepsUp, LateAnswersFit, NEW r \in Rounds, NEW i \in Indices(r),
         NEW o, o = getOpponentIdx(i), InRound(r, o), timedOut(entryAt(r, i)),
         Held(r, i), Held(r, o), ~BothThrough(entryAt(r, i), entryAt(r, o)),
         entryAt(r, o).challengeStepCompleted >= entryAt(r, i).challengeStepCompleted
  PROVE  /\ submissionAt(r, i) # Honest
         /\ Level(r, i, o) => submissionAt(r, o) # Honest
<1> DEFINE e == entryAt(r, i)
           f == entryAt(r, o)
<1>1. TypeOK /\ o \in Indices(r) /\ getOpponentIdx(o) = i /\ InRound(r, i)
  BY IndexFacts, OpponentFacts DEF Dispute
<1>2. e \in EntryType /\ f \in EntryType BY <1>1, EntryFacts
<1>3. /\ e.age \in Nat /\ f.age \in Nat /\ e.age >= ResponseWindow + 1
      /\ e.challengeStepCompleted \in Nat /\ f.challengeStepCompleted \in Nat
  <2>1. e.age \in Nat /\ f.age \in Nat BY <1>2, WindowAssumption DEF EntryType, MaxAge
  <2>2. e.age >= ResponseWindow /\ e.age - ResponseWindow >= 1 BY DEF timedOut, responsePossible
  <2>3. e.challengeStepCompleted \in Nat /\ f.challengeStepCompleted \in Nat BY <1>2 DEF EntryType
  <2> HIDE DEF e, f
  <2> QED BY <2>1, <2>2, <2>3, WindowAssumption
<1>4. submissionAt(r, i) # Honest
  <2> SUFFICES ASSUME submissionAt(r, i) = Honest PROVE FALSE OBVIOUS
  <2>1. /\ Shape(e, Honest, jrhConfirmed)
        /\ Shape(f, submissionAt(r, o), jrhConfirmed)
        /\ PairShape(e, f, Honest, submissionAt(r, o), jrhConfirmed)
        /\ Timed(e, f, jrhConfirmed)
    BY HonestPair
  <2>2. Waiting(e, jrhConfirmed) => f.challengeStepCompleted < e.challengeStepCompleted
    BY <1>2, <2>1, WaitingAhead DEF BothThrough
  <2>3. e.age <= Delay
    <3>1. ~Waiting(e, jrhConfirmed) BY <1>3, <2>2
    <3> QED BY <2>1, <3>1 DEF Timed
  <2> HIDE DEF e, f
  <2> QED BY <1>3, <2>3, DelayFacts, WindowAssumption
<1>5. ASSUME Level(r, i, o), submissionAt(r, o) = Honest PROVE FALSE
  <2>1. /\ Shape(f, Honest, jrhConfirmed)
        /\ Shape(e, submissionAt(r, i), jrhConfirmed)
        /\ PairShape(f, e, Honest, submissionAt(r, i), jrhConfirmed)
        /\ Timed(f, e, jrhConfirmed)
    BY <1>1, <1>5, HonestPair DEF BothThrough
  <2>2. Waiting(f, jrhConfirmed) => e.challengeStepCompleted < f.challengeStepCompleted
    BY <1>2, <2>1, WaitingAhead DEF BothThrough
  <2>3. f.challengeStepCompleted = e.challengeStepCompleted BY <1>5 DEF Level
  <2>4. ~Waiting(f, jrhConfirmed) BY <1>3, <2>2, <2>3
  <2>5. f.age <= Delay /\ e.age <= f.age + Delay BY <2>1, <2>3, <2>4 DEF Timed
  <2> HIDE DEF e, f
  <2>6. Delay = ResponseWindow - AllEntriesAllowed BY DEF Delay
  <2> QED BY <1>3, <2>5, <2>6, WindowAssumption DEF LateAnswersFit
<1> QED BY <1>4, <1>5

\* A pair that is through stays when an entry moves on that is in no such pair.
LEMMA MoveMatched ==
  ASSUME Dispute, Matched, NEW r \in PlayableRounds, NEW o \in Indices(r),
         progress(r, o), submission' = submission, jrhConfirmed' = jrhConfirmed,
         NEW i, i = getOpponentIdx(o),
         InRound(r, i) => ~BothThrough(entryAt(r, i), entryAt(r, o))
  PROVE  Matched'
<1>0. PICK n : n = Len(disputeRounds[r + 1]) OBVIOUS
<1>1. TypeOK BY DEF Dispute
<1>2. HashMoved(r, o, n) BY <1>0, MoveView
<1>3. PICK q \in Rounds : \E j \in Indices(q) :
        /\ submissionAt(q, j) = Honest
        /\ InRound(q, getOpponentIdx(j)) /\ Held(q, getOpponentIdx(j))
        /\ BothThrough(entryAt(q, j), entryAt(q, getOpponentIdx(j)))
  BY DEF Matched
<1>4. PICK j \in Indices(q) :
        /\ submissionAt(q, j) = Honest
        /\ InRound(q, getOpponentIdx(j)) /\ Held(q, getOpponentIdx(j))
        /\ BothThrough(entryAt(q, j), entryAt(q, getOpponentIdx(j)))
  BY <1>3
<1>5. PICK p : p = getOpponentIdx(j) OBVIOUS
<1>6. p \in Indices(q) /\ getOpponentIdx(p) = j /\ InRound(q, j)
  BY <1>1, <1>4, <1>5, IndexFacts, OpponentFacts
<1>7. ~(q = r /\ j = o) /\ ~(q = r /\ p = o) BY <1>4, <1>5, <1>6 DEF BothThrough
<1>8. n \in Nat /\ n \notin Indices(r + 1) /\ j \in Nat /\ p \in Nat
  BY <1>1, <1>2, <1>6, IndexFacts DEF HashMoved
<1>9. ~(q = r + 1 /\ n % 2 = 1 /\ j = n - 1) /\ ~(q = r + 1 /\ n % 2 = 1 /\ p = n - 1)
  BY <1>5, <1>6, <1>8, NewOpponent
<1>10. Apart(r, o, n, q, j) /\ Apart(r, o, n, q, p) BY <1>7, <1>9 DEF Apart
<1>11. KeptAt(q, j) /\ KeptAt(q, p) /\ j \in Indices(q)' /\ InRound(q, p)'
  BY <1>2, <1>6, <1>10 DEF HashMoved
<1> QED BY <1>4, <1>5, <1>11 DEF Matched, KeptAt, BothThrough, Through, Held

\* A settlement takes out the honest hash only beside one that answered as well,
LEMMA SettleKeepsUp ==
  ASSUME Dispute, KeepsUp, LateAnswersFit, NEW r \in PlayableRounds, NEW i \in Indices(r),
         invalidateHash(r, i)
  PROVE  KeepsUp'
<1>0. PICK o : o = getOpponentIdx(i) OBVIOUS
<1> DEFINE e == entryAt(r, i)
           f == entryAt(r, o)
<1>1. TypeOK /\ Struct /\ r \in Rounds BY RoundFacts DEF Dispute
<1>2. Settled(r, i, o) /\ SettleFrame BY <1>0, SettleFacts
<1>3. /\ o \in Indices(r) /\ o # i /\ Held(r, i) /\ Held(r, o)
      /\ entryAt(r, o).challengeStepCompleted >= entryAt(r, i).challengeStepCompleted
      /\ timedOut(entryAt(r, i))
  BY <1>2 DEF Settled
<1>4. InRound(r, o) /\ InRound(r, i) /\ getOpponentIdx(o) = i
  BY <1>0, <1>1, <1>3, IndexFacts, OpponentFacts
<1>5. ~BothThrough(e, f) => /\ submissionAt(r, i) # Honest
                            /\ Level(r, i, o) => submissionAt(r, o) # Honest
  BY <1>0, <1>1, <1>3, <1>4, HonestNotOverdue
<1>6. BothThrough(e, f) => Level(r, i, o)
  <2>1. e.challengeStepCompleted \in Nat /\ f.challengeStepCompleted \in Nat
    BY <1>1, <1>3, EntryFacts, StepNat
  <2> HIDE DEF e, f
  <2>2. BothThrough(e, f) => e.challengeStepCompleted = f.challengeStepCompleted
    BY <2>1, StepOrder DEF BothThrough, Through
  <2> QED BY <2>2 DEF Level, e, f
<1>7. submissionWindowClosed
  <2>1. entryAt(r, i).age # 0 BY <1>3, WindowAssumption DEF timedOut
  <2> QED BY <1>1, <2>1 DEF KeepsUp, Unopened
<1>8. Honest \in Submissions /\ Out \subseteq Out'
  <2>1. \A s \in Submissions : s \in Out => s \in Out' BY <1>2 DEF Settled
  <2> QED BY <2>1, SubmissionAssumption DEF Out
<1>9. Unopened' /\ Present' /\ Rightly'
  <2>1. submissionWindowClosed' BY <1>2, <1>7 DEF SettleFrame
  <2>2. settledAgain # 0 => settledAgain' # 0 BY <1>2 DEF Settled
  <2> QED BY <1>2, <1>8, <2>1, <2>2 DEF KeepsUp, Unopened, Present, Rightly, SettleFrame
<1>10. submission' = submission /\ jrhConfirmed' = jrhConfirmed BY <1>2 DEF SettleFrame
<1>11. CASE Level(r, i, o)
  <2>1. /\ disputeRounds' = disputeRounds
        /\ \A s \in Submissions :
             s \in Out' <=> s \in Out \/ s \in {submissionAt(r, i), submissionAt(r, o)}
    BY <1>2, <1>11 DEF Settled
  <2>2. \A q \in Rounds : \A j : entryAt(q, j)' = entryAt(q, j) /\ submissionAt(q, j)' = submissionAt(q, j)
    BY <1>10, <2>1 DEF entryAt, submissionAt, submissionOf
  <2>3. SamePlaces BY <2>1, <2>2 DEF SamePlaces
  <2>4. \A q \in Rounds : \A j \in Indices(q) : KeptAt(q, j)
    BY <1>10, <2>2 DEF KeptAt, confirmedAt
  <2>5. InTime' BY <1>1, <2>3, <2>4, QuietDisputes DEF KeepsUp
  <2>6. Matched => Matched'
    <3>1. \A q \in Rounds : \A j \in Indices(q) : Alike(entryAt(q, j)', entryAt(q, j))
      BY <2>2 DEF Alike
    <3> QED BY <1>1, <2>3, <3>1, MatchedQuiet
  <2>7. Honest \in Out' => Matched
    <3>1. CASE Honest \in Out BY <3>1 DEF KeepsUp, Beaten
    <3>2. CASE Honest \in {submissionAt(r, i), submissionAt(r, o)}
      <4>1. BothThrough(e, f) BY <1>5, <1>11, <3>2
      <4> QED BY <1>0, <1>1, <1>3, <1>4, <3>2, <4>1 DEF Matched, BothThrough
    <3> QED BY <1>8, <2>1, <3>1, <3>2
  <2> QED BY <1>9, <2>5, <2>6, <2>7 DEF KeepsUp, Beaten
<1>12. CASE ~Level(r, i, o)
  <2>1. progress(r, o) /\ \A s \in Submissions : s \in Out' <=> s \in Out \/ s = submissionAt(r, i)
    BY <1>2, <1>12 DEF Settled
  <2>2. ~BothThrough(e, f) /\ submissionAt(r, i) # Honest BY <1>5, <1>6, <1>12
  <2>3. InTime' BY <1>3, <1>4, <1>10, <2>1, <2>2, MoveInTime
  <2>4. Matched => Matched' BY <1>3, <1>4, <1>10, <2>1, <2>2, MoveMatched
  <2>5. Honest \in Out' => Honest \in Out BY <1>8, <2>1, <2>2
  <2> QED BY <1>9, <2>3, <2>4, <2>5 DEF KeepsUp, Beaten
<1> QED BY <1>11, <1>12

\* no bye does,
LEMMA ByeKeepsUp ==
  ASSUME Dispute, KeepsUp, NEW r \in PlayableRounds, giveBye(r)
  PROVE  KeepsUp'
<1>0. PICK o : o = Len(disputeRounds[r]) - 1 OBVIOUS
<1>2. Bye(r, o) /\ SettleFrame BY <1>0, ByeFacts
<1>3. /\ o \in Indices(r) /\ ~InRound(r, getOpponentIdx(o))
      /\ progress(r, o) /\ submissionWindowClosed /\ timesInvalidated' = timesInvalidated
      /\ settledAgain # 0 => settledAgain' # 0
  BY <1>2 DEF Bye
<1>4. submission' = submission /\ jrhConfirmed' = jrhConfirmed BY <1>2 DEF SettleFrame
<1>5. InTime' BY <1>3, <1>4, MoveInTime
<1>6. Matched => Matched' BY <1>3, <1>4, MoveMatched
<1>7. Out' = Out BY <1>3 DEF Out
<1>8. Unopened' /\ Present' /\ Rightly'
  <2>1. submissionWindowClosed' BY <1>2, <1>3 DEF SettleFrame
  <2> QED BY <1>2, <1>3, <1>7, <2>1 DEF KeepsUp, Unopened, Present, Rightly, SettleFrame
<1> QED BY <1>5, <1>6, <1>7, <1>8 DEF KeepsUp, Beaten

\* nor a submission.
LEMMA SubmitKeepsUp ==
  ASSUME Dispute, KeepsUp, NEW m \in Miners, NEW s \in Proposes[m], NEW x \in 1 .. Entries[m],
         submitRootHash(m, s, x)
  PROVE  KeepsUp'
<1>1. TypeOK /\ Struct BY DEF Dispute
<1>2. CASE newHash(s)
  <2>0. PICK n : n = Len(disputeRounds[0]) OBVIOUS
  <2>1. /\ \A q \in Rounds : \A j \in Indices(q) : entryAt(q, j)' = entryAt(q, j)
        /\ entryAt(0, n)' = newEntry(m)
        /\ \A q \in Rounds : \A j :
             /\ j \in Indices(q)' <=> j \in Indices(q) \/ (q = 0 /\ j = n)
             /\ InRound(q, j)' <=> j \in Indices(q)'
        /\ SubmitFrame /\ (~submissionWindowClosed \/ nUniqueSubmittedHashes = 0)
    BY <1>2, <2>0, SubmitNewView
  <2>9. SubmitFrame BY <1>2 DEF submitRootHash, SubmitFrame, outcomeVars
  <2>2. ~submissionWindowClosed
    <3> SUFFICES ASSUME submissionWindowClosed PROVE FALSE OBVIOUS
    <3>1. Honest \in Submitted BY DEF KeepsUp, Present
    <3>2. Cardinality(Submitted) = 0 BY <1>1, <2>1 DEF Struct, Numbered
    <3>3. Submitted = {} BY <3>2, FiniteSets_, FS_EmptySet
    <3> QED BY <3>1, <3>3
  <2>3. newEntry(m).age = 0 BY <2>2 DEF newEntry, DeletedEntry
  <2>4. ~submissionWindowClosed' BY <2>2, <2>9 DEF SubmitFrame, submissionWindowClosed
  <2>5. \A q \in Rounds : \A j \in Indices(q)' : entryAt(q, j)'.age = 0
    BY <2>1, <2>2, <2>3 DEF KeepsUp, Unopened
  <2>6. InTime'
    <3> SUFFICES ASSUME NEW q \in Rounds, NEW j \in Indices(q)', NEW p, InRound(q, p)'
                 PROVE  Timed(entryAt(q, j)', entryAt(q, p)', jrhConfirmed')
      BY DEF InTime, TimedAt
    <3>1. p \in Indices(q)' BY <2>1
    <3> QED BY <2>5, <3>1, AgesZero
  <2>7. Unopened' /\ Present' BY <2>4, <2>5 DEF Unopened, Present
  <2>8. Out' = Out /\ Rightly' BY <2>9 DEF SubmitFrame, Out, Rightly, KeepsUp
  <2>10. Honest \notin Out
    <3> SUFFICES ASSUME Honest \in Out PROVE FALSE OBVIOUS
    <3>1. PICK q \in Rounds : \E j \in Indices(q) : Through(entryAt(q, j))
      BY DEF KeepsUp, Beaten, Matched, BothThrough
    <3>2. PICK j \in Indices(q) : Through(entryAt(q, j)) BY <3>1
    <3>3. /\ Shape(entryAt(q, j), submissionAt(q, j), jrhConfirmed)
          /\ entryAt(q, j).challengeStepCompleted \in Nat
      BY <1>1, EntryFacts, StepNat DEF Dispute, Shaped, PlaceOK
    <3>4. jrhConfirmed = {} BY <1>1, <2>2 DEF Struct, Known
    <3>5. entryAt(q, j).challengeStepCompleted = 0 BY <3>3, <3>4 DEF Shape
    <3>6. ~ResultStep(0 - 1) BY DEF ResultStep
    <3> QED BY <3>2, <3>5, <3>6 DEF Through
  <2> QED BY <2>6, <2>7, <2>8, <2>10 DEF KeepsUp, Beaten
<1>3. CASE ~newHash(s)
  <2>1. SamePlaces /\ disputeRounds' = disputeRounds /\ SubmitFrame /\ Submitted' = Submitted
    BY <1>3, SubmitOld
  <2>2. \A q \in Rounds : \A j : entryAt(q, j)' = entryAt(q, j) BY <2>1 DEF entryAt
  <2>3. \A q \in Rounds : \A j \in Indices(q) : KeptAt(q, j)
    BY <2>1, <2>2 DEF KeptAt, confirmedAt, SamePlaces, SubmitFrame
  <2>4. InTime' BY <1>1, <2>1, <2>3, QuietDisputes DEF KeepsUp
  <2>5. submissionWindowClosed' = submissionWindowClosed
    BY <2>1 DEF SubmitFrame, submissionWindowClosed
  <2>6. Unopened' BY <2>1, <2>2, <2>5, SameIndices DEF Unopened, KeepsUp
  <2>7. Present' BY <2>1, <2>5 DEF Present, KeepsUp
  <2>8. Out' = Out /\ Rightly' BY <2>1 DEF SubmitFrame, Out, Rightly, KeepsUp
  <2>9. Matched => Matched'
    <3>1. \A q \in Rounds : \A j \in Indices(q) : Alike(entryAt(q, j)', entryAt(q, j))
      BY <2>2 DEF Alike
    <3> QED BY <1>1, <2>1, <3>1, MatchedQuiet
  <2> QED BY <2>4, <2>6, <2>7, <2>8, <2>9 DEF KeepsUp, Beaten
<1> QED BY <1>2, <1>3

\* The honest side of a pair is never without an answer to give, unless it waits.
LEMMA ReadyToAnswer ==
  ASSUME Dispute, KeepsUp, Running, submissionWindowClosed,
         NEW r \in Rounds, NEW i \in Indices(r), submissionAt(r, i) = Honest,
         NEW o, o = getOpponentIdx(i), InRound(r, o), Held(r, o),
         ~BothThrough(entryAt(r, i), entryAt(r, o)),
         ~Waiting(entryAt(r, i), jrhConfirmed), entryAt(r, i).age >= Delay
  PROVE  canAnswer(r, i)
<1> DEFINE e == entryAt(r, i)
           f == entryAt(r, o)
           t == submissionAt(r, o)
           k == e.challengeStepCompleted
           lb == e.lowerBound
           ub == e.upperBound
<1>1. /\ e \in EntryType /\ Shape(e, Honest, jrhConfirmed)
      /\ PairShape(e, f, Honest, t, jrhConfirmed)
  BY HonestPair
<1>2. k \in Nat /\ e.age \in Nat BY <1>1, WindowAssumption DEF EntryType, MaxAge
<1>3. answerPossible(r, i)
  <2>1. InRound(r, i) BY IndexFacts DEF Dispute
  <2>2. e.age >= 1
    <3>1. e.age >= Delay OBVIOUS
    <3> HIDE DEF e
    <3> QED BY <1>2, <3>1, DelayFacts
  <2> QED BY <2>1, <2>2 DEF answerPossible, responsePossible
<1>4. CASE Honest \notin jrhConfirmed
  <2>1. Honest \in Confirmable \ jrhConfirmed BY <1>4, TreeAssumption
  <2> QED BY <1>3, <2>1 DEF canAnswer, canConfirmJustificationRootHash
<1>5. CASE Honest \in jrhConfirmed
  <2>1. jrhNLeaves(submissionAt(r, i)) = NLeaves /\ NLeaves # 0 BY <1>5, Leaves DEF jrhNLeaves
  <2>2. OnPath(lb, ub) BY <1>1, <1>5 DEF Shape
  <2>3. CASE lb # ub
    <3>1. k = due(lb, ub) BY <1>1, <1>5, <2>3 DEF Shape, Waiting
    <3>2. /\ k >= 1
          /\ expectedProofLength(NLeaves, lb) = leafDepth(lb, ub, lb) + (k - 1)
      BY <2>2, <3>1, PathFacts
    <3>3. canRespondToBinarySearch(e, NLeaves)
      BY <2>1, <2>3, <3>2 DEF canRespondToBinarySearch, proofFits
    <3>4. canRespondToBinarySearchForChallenge(r, i)
      <4> HIDE DEF f, t
      <4> QED BY <1>3, <2>1, <3>3 DEF canRespondToBinarySearchForChallenge
    <3> QED BY <3>4 DEF canAnswer
  <2>4. CASE lb = ub
    <3>1. ~ResultStep(k - 1) BY <1>5, <2>4 DEF Waiting
    <3>2. k \in 2 .. Depth + 1 \/ ResultStep(k) BY <1>1, <1>5, <2>4, <3>1 DEF Shape
    <3>3. CASE k \in 2 .. Depth + 1
      <4>1. resultUnconfirmed(k, NLeaves) BY <3>3, SearchedUnconfirmed
      <4>2. canConfirmBinarySearchResult(e, NLeaves)
        BY <2>1, <2>4, <4>1 DEF canConfirmBinarySearchResult
      <4>3. canConfirmResult(r, i) BY <1>3, <2>1, <4>2 DEF canConfirmResult
      <4> QED BY <4>3 DEF canAnswer
    <3>4. CASE ResultStep(k)
      <4>1. challengeOpen(e, NLeaves) BY <2>4, <3>4 DEF challengeOpen, ResultStep
      <4>2. lb \in 0 .. NLeaves - 1 /\ lb \in Nat /\ lb <= ub BY <2>2, PathFacts
      <4>3. t \in jrhConfirmed
        <5> SUFFICES ASSUME t \notin jrhConfirmed PROVE FALSE OBVIOUS
        <5>1. lb = 0 /\ ub = NLeaves - 1 BY <1>1, <1>5 DEF PairShape, AtStart
        <5>2. 0 = NLeaves - 1 BY <2>4, <5>1
        <5> HIDE DEF e, f, t
        <5> QED BY <5>2, Leaves
      <4>4. Searching(e, f, Honest, t) BY <1>1, <1>5, <4>3 DEF PairShape
      <4>5. lb # 0
        <5> SUFFICES ASSUME lb = 0 PROVE FALSE OBVIOUS
        <5>1. DifferIn(Honest, t, 0, 0) BY <2>4, <4>4 DEF Searching
        <5>2. Tree[Honest][0] # Tree[t][0] BY <5>1 DEF DifferIn
        <5>3. t \in Confirmable BY <4>3 DEF Dispute, TypeOK
        <5> QED BY <5>2, <5>3, TreeAssumption
      <4>6. lb \in 1 .. NLeaves - 1 BY <4>2, <4>5
      <4>7. Tree[Honest][lb] \in NextStates(Tree[Honest][lb - 1], lb) BY <4>6, TreeAssumption
      <4>8. transitionHolds(e)
        <5>1. submissionOf(e) = Honest BY DEF submissionAt
        <5>2. lb >= 1 BY <4>6
        <5> QED BY <4>7, <5>1, <5>2 DEF transitionHolds
      <4>9. canRespondToChallenge(r, i) BY <1>3, <2>1, <4>1, <4>8 DEF canRespondToChallenge
      <4> QED BY <4>9 DEF canAnswer
    <3> QED BY <3>2, <3>3, <3>4
  <2> QED BY <2>3, <2>4
<1> QED BY <1>4, <1>5

\* Time passes only once the honest hash has answered what it can.
LEMMA TickKeepsUp ==
  ASSUME Dispute, KeepsUp, Tick
  PROVE  KeepsUp'
<1>1. TypeOK /\ SamePlaces BY TickDispute DEF Dispute
<1>2. /\ Running /\ HonestInTime
      /\ windowAge' = IF windowAge <= MiningWindow THEN windowAge + 1 ELSE windowAge
      /\ jrhConfirmed' = jrhConfirmed /\ confirmed' = confirmed
      /\ submittedHashes' = submittedHashes /\ timesInvalidated' = timesInvalidated
      /\ settledAgain' = settledAgain
  BY DEF Tick, submitVars, outcomeVars
<1>3. \A q \in Rounds : \A j \in Indices(q) :
        entryAt(q, j)' = IF submissionWindowClosed THEN older(entryAt(q, j)) ELSE entryAt(q, j)
  BY <1>1, TickView
<1>4. Beaten' /\ Rightly'
  <2>1. Out' = Out /\ Rightly' BY <1>2 DEF Out, Rightly, KeepsUp
  <2>2. \A q \in Rounds : \A j \in Indices(q) : Alike(entryAt(q, j)', entryAt(q, j))
    <3>1. \A q \in Rounds : \A j \in Indices(q) : entryAt(q, j) \in EntryType
      BY <1>1, EntryFacts
    <3> QED BY <1>3, <3>1, OlderFacts DEF Alike
  <2>3. Matched => Matched' BY <1>1, <2>2, MatchedQuiet
  <2> QED BY <2>1, <2>3 DEF KeepsUp, Beaten
<1>5. windowAge \in Nat /\ MiningWindow \in Nat BY <1>1, WindowAssumption DEF TypeOK
<1>6. \A q \in Rounds : /\ Indices(q)' = Indices(q)
                        /\ \A j : InRound(q, j)' <=> InRound(q, j)
  BY <1>1, SameIndices
<1>7. CASE submissionWindowClosed
  <2>1. submissionWindowClosed' BY <1>2, <1>5, <1>7 DEF submissionWindowClosed
  <2>2. Unopened' /\ Present' BY <1>2, <1>7, <2>1 DEF Unopened, Present, KeepsUp, Submitted
  <2>3. InTime'
    <3> SUFFICES ASSUME NEW q \in Rounds, NEW j \in Indices(q), NEW p, p = getOpponentIdx(j),
                        InRound(q, p), submissionAt(q, j) = Honest, Held(q, p),
                        ~BothThrough(entryAt(q, j)', entryAt(q, p)')
                 PROVE  Timed(entryAt(q, j)', entryAt(q, p)', jrhConfirmed')
      <4>1. \A q \in Rounds : \A j \in Indices(q) :
              InRound(q, getOpponentIdx(j)) => (Held(q, getOpponentIdx(j))' <=> Held(q, getOpponentIdx(j)))
        BY <1>1, IndexFacts DEF Held, SamePlaces
      <4> QED BY <1>1, <1>6, <4>1 DEF InTime, TimedAt, SamePlaces, BothThrough, Through
    <3>0. ~BothThrough(entryAt(q, j), entryAt(q, p))
      <4>1. p \in Indices(q) BY <1>1, IndexFacts
      <4>2. entryAt(q, j) \in EntryType /\ entryAt(q, p) \in EntryType BY <1>1, <4>1, EntryFacts
      <4> QED BY <1>3, <1>7, <4>1, <4>2, OlderFacts DEF BothThrough, Through, Alike
    <3>1. /\ p \in Indices(q) /\ entryAt(q, j) \in EntryType /\ entryAt(q, p) \in EntryType
          /\ Timed(entryAt(q, j), entryAt(q, p), jrhConfirmed)
      BY <3>0, HonestPair
    <3>2. ~(entryAt(q, j).age >= Delay) \/ ~canAnswer(q, j)
      BY <1>2 DEF HonestInTime, Delay
    <3>3. ~Waiting(entryAt(q, j), jrhConfirmed) => ~(entryAt(q, j).age >= Delay)
      BY <1>2, <1>7, <3>0, <3>2, ReadyToAnswer
    <3>4. entryAt(q, j).age \in Nat BY <3>1, WindowAssumption DEF EntryType, MaxAge
    <3>5. ~(entryAt(q, j).age >= Delay) => entryAt(q, j).age < Delay BY <3>4, DelayFacts
    <3>6. Timed(older(entryAt(q, j)), older(entryAt(q, p)), jrhConfirmed)
      BY <3>1, <3>3, <3>5, TicksTimed
    <3> QED BY <1>2, <1>3, <1>7, <3>1, <3>6
  <2> QED BY <1>4, <2>2, <2>3 DEF KeepsUp
<1>8. CASE ~submissionWindowClosed
  <2>1. \A q \in Rounds : \A j \in Indices(q) : entryAt(q, j)'.age = 0
    BY <1>3, <1>8 DEF KeepsUp, Unopened
  <2>2. Unopened' BY <1>6, <2>1 DEF Unopened
  <2>3. Present'
    <3> SUFFICES ASSUME submissionWindowClosed' PROVE Honest \in Submitted'
      BY DEF Present
    <3>1. windowAge = MiningWindow - 1 BY <1>2, <1>5, <1>8 DEF submissionWindowClosed
    <3>2. submittedHashes[Honest] # <<>> BY <1>2, <3>1 DEF HonestInTime
    <3> QED BY <1>2, <3>2, SubmissionAssumption DEF Submitted
  <2>4. InTime'
    <3> SUFFICES ASSUME NEW q \in Rounds, NEW j \in Indices(q), NEW p, InRound(q, p)
                 PROVE  Timed(entryAt(q, j)', entryAt(q, p)', jrhConfirmed')
      BY <1>6 DEF InTime, TimedAt
    <3>1. p \in Indices(q) BY <1>1, IndexFacts
    <3> QED BY <2>1, <3>1, AgesZero
  <2> QED BY <1>4, <2>2, <2>3, <2>4 DEF KeepsUp
<1> QED BY <1>7, <1>8

\* The one that is left is the honest one.
LEMMA ConfirmKeepsUp ==
  ASSUME Dispute, KeepsUp, NEW r \in Rounds, confirmNewHash(r)
  PROVE  KeepsUp'
<1>1. TypeOK /\ Struct BY DEF Dispute
<1>2. /\ Same /\ confirmed' = submissionAt(r, 0) /\ Len(disputeRounds[r]) = 1
      /\ nUniqueSubmittedHashes - nInvalidatedHashes = 1 /\ submissionWindowClosed
  BY ConfirmDispute
<1>3. Alive = Submitted \ Out
  <2>1. \A s \in Submissions : timesInvalidated[s] \in Nat BY <1>1 DEF TypeOK
  <2>2. \A s \in Submissions : timesInvalidated[s] = 0 <=> ~(timesInvalidated[s] > 0)
    BY <2>1
  <2> QED BY <2>2 DEF Alive, Submitted, Out
<1>4. ASSUME Honest \notin Out, settledAgain = 0 PROVE submissionAt(r, 0) = Honest
  <2>1. Honest \in Alive BY <1>2, <1>3, <1>4 DEF KeepsUp, Present
  <2>2. Cardinality(Alive) = 1 BY <1>2, <1>4, OneEntryEachFollows DEF OneEntryEach
  <2>3. submissionAt(r, 0) \in Alive
    <3>1. 0 \in Indices(r) BY <1>1, <1>2, IndexFacts
    <3>2. getOpponentIdx(0) = 1 BY DEF getOpponentIdx
    <3>3. ~InRound(r, 1) BY <1>2 DEF InRound, Indices
    <3>4. LoneEntries BY <1>1, <1>4 DEF Struct, Race
    <3>5. ~(Len(disputeRounds[r]) > 1) BY <1>2
    <3>6. ~Gone(r, 0) BY <3>1, <3>2, <3>3, <3>4, <3>5 DEF LoneEntries
    <3>7. Held(r, 0) BY <3>6 DEF Gone, Held
    <3>8. submissionAt(r, 0) \in Submitted BY <1>1, <3>1, <3>7, HeldFacts DEF Struct
    <3> QED BY <1>3, <3>6, <3>8 DEF Gone
  <2>4. IsFiniteSet(Alive)
    <3>1. Alive \subseteq Submissions BY DEF Alive, Submitted
    <3> QED BY <3>1, SubmissionAssumption, FS_Subset
  <2>5. PICK x : Alive = {x} BY <2>2, <2>4, FS_Singleton
  <2> QED BY <2>1, <2>3, <2>5
<1>5. Out' = Out /\ settledAgain' = settledAgain BY <1>2 DEF Same, Out
<1>6. Rightly' BY <1>2, <1>4, <1>5 DEF Rightly
<1>9. confirmed' \in Submissions \cup {NoSubmission} BY <1>1, <1>2, IndexFacts, HolderFacts
<1>10. SamePlaces /\ \A q \in Rounds : \A j \in Indices(q) : KeptAt(q, j)
  BY <1>2, <1>9, SameDispute
<1>11. InTime' BY <1>1, <1>10, QuietDisputes DEF KeepsUp
<1>12. Matched => Matched'
  <2>1. \A q \in Rounds : \A j \in Indices(q) : Alike(entryAt(q, j)', entryAt(q, j))
    BY <1>10 DEF Alike, KeptAt
  <2> QED BY <1>1, <1>10, <2>1, MatchedQuiet
<1>13. Unopened' /\ Present'
  BY <1>2 DEF Same, KeepsUp, Unopened, Present, Submitted, submissionWindowClosed, entryAt,
              Indices
<1> QED BY <1>5, <1>6, <1>11, <1>12, <1>13 DEF KeepsUp, Beaten

\* KeepsUp survives a step that changes nothing it is about,
LEMMA SameKeepsUp ==
  ASSUME Dispute, KeepsUp, Same, confirmed' = confirmed
  PROVE  KeepsUp'
<1>1. TypeOK BY DEF Dispute
<1>2. confirmed' \in Submissions \cup {NoSubmission} BY <1>1 DEF TypeOK
<1>3. SamePlaces /\ \A q \in Rounds : \A j \in Indices(q) : KeptAt(q, j)
  BY <1>2, SameDispute
<1>4. InTime' BY <1>1, <1>3, QuietDisputes DEF KeepsUp
<1>5. Unopened' /\ Present' /\ Out' = Out /\ Rightly'
  BY DEF Same, KeepsUp, Unopened, Present, Out, Submitted, submissionWindowClosed, entryAt,
         Indices, Rightly
<1>6. Matched => Matched'
  <2>1. \A q \in Rounds : \A j \in Indices(q) : Alike(entryAt(q, j)', entryAt(q, j))
    BY <1>3 DEF Alike, KeptAt
  <2> QED BY <1>1, <1>3, <2>1, MatchedQuiet
<1> QED BY <1>4, <1>5, <1>6 DEF KeepsUp, Beaten

\* every step of the specification,
LEMMA NextKeepsUp ==
  ASSUME Dispute, KeepsUp, LateAnswersFit, [Next]_cycleVars
  PROVE  KeepsUp'
BY Steps, SubmitKeepsUp, AnswerKeepsUp, ByeKeepsUp, SettleKeepsUp, ConfirmKeepsUp,
   TickKeepsUp, SameKeepsUp

\* and holds at the start.
LEMMA InitKeepsUp ==
  ASSUME Init
  PROVE  KeepsUp
<1>1. \A r \in Rounds : Len(disputeRounds[r]) = 0 BY DEF Init
<1>2. \A r \in Rounds : Indices(r) = {} BY <1>1 DEF Indices
<1>3. ~submissionWindowClosed BY WindowAssumption DEF Init, submissionWindowClosed
<1>4. Honest \notin Out /\ Rightly BY DEF Init, Out, Rightly
<1> QED BY <1>2, <1>3, <1>4 DEF KeepsUp, InTime, Unopened, Present, Beaten

(***************************************************************************)
(* As long as the time that may pass before everybody is allowed to answer *)
(* is no more than what is left after it, the honest hash is invalidated   *)
(* only in a pair both sides of which answered the challenge, and another  *)
(* is confirmed only after that or after something was settled again: for  *)
(* any number of rival hashes, trees of any size, any states the contract  *)
(* accepts at a new key, whatever the others answer, and whoever settles   *)
(* what how often.                                                         *)
(***************************************************************************)
THEOREM HonestPrevailsHolds == LateAnswersFit => (Spec => []HonestPrevails)
<1> SUFFICES ASSUME LateAnswersFit PROVE Spec => []HonestPrevails OBVIOUS
<1>1. Init => KeepsUp BY InitKeepsUp
<1>2. Dispute /\ KeepsUp /\ [Next]_cycleVars => KeepsUp' BY NextKeepsUp
<1>3. Dispute /\ KeepsUp => HonestPrevails
  <2> SUFFICES ASSUME Dispute, KeepsUp PROVE HonestPrevails OBVIOUS
  <2>1. timesInvalidated[Honest] \in Nat /\ settledAgain \in Nat
    BY SubmissionAssumption DEF Dispute, TypeOK
  <2>2. Honest \in Out <=> timesInvalidated[Honest] > 0 BY SubmissionAssumption DEF Out
  <2>3. settledAgain # 0 => settledAgain > 0 BY <2>1
  <2>4. timesInvalidated[Honest] > 0 => HonestMatched
    BY <2>2, MatchedFollows DEF KeepsUp, Beaten
  <2> QED BY <2>2, <2>3, <2>4 DEF HonestPrevails, KeepsUp, Rightly
<1> QED BY <1>1, <1>2, <1>3, DisputeInvariant, PTL DEF Spec

(***************************************************************************)
(* What is paid.  A hash answers at most Most times between two pairings.  *)
(***************************************************************************)
Most == 3 + Depth

\* The answers that bring an entry to step k.
given(k) == IF k <= Depth + 1 THEN k ELSE IF ResultStep(k) THEN Depth + 2 ELSE Depth + 3

\* They are at most Most, and at the start of a pair at most one.
LEMMA GivenFacts ==
  ASSUME NEW k \in Nat
  PROVE  /\ Most \in Nat /\ Most >= 1 /\ given(k) \in Nat /\ given(k) <= Most
         /\ k = 0 => given(k) = 0
         /\ k = 1 => given(k) = 1
BY DepthFacts DEF Most, given

\* Each answer counts: one to the search,
LEMMA GivenHalf ==
  ASSUME NEW k \in Nat, k <= Depth, NEW z \in Nat, z >= k + 1
  PROVE  given(z) >= given(k) + 1
<1>1. given(k) = k BY DepthFacts DEF given
<1>2. CASE z <= Depth + 1 BY <1>1, <1>2 DEF given
<1>3. CASE ~(z <= Depth + 1)
  <2>1. given(z) >= Depth + 2 BY <1>3, DepthFacts DEF given
  <2>2. given(z) \in Nat BY GivenFacts
  <2> QED BY <1>1, <2>1, <2>2, DepthFacts
<1> QED BY <1>2, <1>3

\* the confirmation of its result,
LEMMA GivenConfirm ==
  ASSUME NEW k \in 2 .. Depth + 1, NEW z, ResultStep(z)
  PROVE  given(z) >= given(k) + 1 /\ given(k) >= 2
<1>1. z \in Nat /\ z >= Depth + 2 BY ResultStepBounds
<1>2. given(k) = k BY DepthFacts DEF given
<1>3. given(z) = Depth + 2 BY <1>1, DepthFacts DEF given
<1> QED BY <1>2, <1>3, DepthFacts

\* and the answer to the challenge.
LEMMA GivenChallenge ==
  ASSUME NEW k, ResultStep(k)
  PROVE  given(k + 1) >= given(k) + 1 /\ given(k) >= 2
<1>1. k \in Nat /\ k >= Depth + 2 BY ResultStepBounds
<1>2. ~ResultStep(k + 1)
  <2> SUFFICES ASSUME ResultStep(k + 1) PROVE FALSE OBVIOUS
  <2>1. k + 1 = k BY ResultStepUnique
  <2> QED BY <1>1, <2>1
<1>3. given(k) = Depth + 2 BY <1>1, DepthFacts DEF given
<1>4. given(k + 1) = Depth + 3 BY <1>1, <1>2, DepthFacts DEF given
<1> QED BY <1>3, <1>4, DepthFacts

answersGiven(r, i) == given(entryAt(r, i).challengeStepCompleted)

\* What an answer at r, i does to the answers given.
Counts(r, i) ==
  /\ SamePlaces /\ AnswerFrame
  /\ answersGiven(r, i)' >= answersGiven(r, i) + 1
  /\ ~InRound(r, getOpponentIdx(i)) => answersGiven(r, i) >= 2 \/ answersGiven(r, i)' <= 1
  /\ \A q \in Rounds : \A j \in Indices(q) : ~(q = r /\ j = i) =>
       /\ answersGiven(q, j)' >= answersGiven(q, j)
       /\ ~InRound(q, getOpponentIdx(j)) => answersGiven(q, j)' = answersGiven(q, j)

\* The answers given by an entry are a number, and as many as before when it is kept.
LEMMA AnswersNat ==
  ASSUME TypeOK, NEW r \in Rounds, NEW i \in Indices(r)
  PROVE  answersGiven(r, i) \in Nat /\ answersGiven(r, i) <= Most
BY EntryFacts, StepNat, GivenFacts DEF answersGiven

\* The entries an answer leaves alone show as many answers as before.
LEMMA KeptAnswers ==
  ASSUME Dispute, NEW r \in Rounds, NEW i \in Indices(r), OthersKept(r, i)
  PROVE  \A q \in Rounds : \A j \in Indices(q) : ~(q = r /\ j = i) =>
           /\ answersGiven(q, j)' >= answersGiven(q, j)
           /\ answersGiven(q, j)' = answersGiven(q, j)
<1> SUFFICES ASSUME NEW q \in Rounds, NEW j \in Indices(q), ~(q = r /\ j = i)
             PROVE  /\ answersGiven(q, j)' >= answersGiven(q, j)
                    /\ answersGiven(q, j)' = answersGiven(q, j)
  OBVIOUS
<1>1. entryAt(q, j)' = entryAt(q, j) BY DEF OthersKept, KeptAt
<1>2. answersGiven(q, j)' = answersGiven(q, j) BY <1>1 DEF answersGiven
<1>3. answersGiven(q, j) \in Nat BY AnswersNat DEF Dispute
<1> QED BY <1>2, <1>3

\* Confirming a justification root hash is the first answer.
LEMMA ConfirmJRHCounts ==
  ASSUME Dispute, NEW r \in Rounds, NEW i \in Indices(r), confirmJustificationRootHash(r, i)
  PROVE  Counts(r, i) /\ Held(r, i)
<1>1. /\ Answered(r, i) /\ OthersKept(r, i) /\ confirmedAt(r, i)'
      /\ entryAt(r, i).challengeStepCompleted = 0
      /\ Fresh(entryAt(r, i)', submissionAt(r, i), jrhConfirmed')
      /\ jrhConfirmed' = jrhConfirmed \cup {submissionAt(r, i)} /\ Held(r, i)
  BY ConfirmJRHView
<1>2. entryAt(r, i)'.challengeStepCompleted = 1 BY <1>1 DEF Fresh
<1>3. answersGiven(r, i) = 0 /\ answersGiven(r, i)' = 1
  BY <1>1, <1>2, GivenFacts DEF answersGiven
<1>4. AnswerFrame BY DEF confirmJustificationRootHash, AnswerFrame
<1>5. SamePlaces BY <1>1 DEF Answered
<1> QED BY <1>1, <1>3, <1>4, <1>5, KeptAnswers DEF Counts

\* An answer that only sets the step.
LEMMA StepCounts ==
  ASSUME Dispute, NEW r \in Rounds, NEW i \in Indices(r), NEW z \in Nat, Stepped(r, i, z),
         given(z) >= answersGiven(r, i) + 1,
         InRound(r, getOpponentIdx(i)) \/ answersGiven(r, i) >= 2
  PROVE  Counts(r, i)
<1>1. Answered(r, i) /\ OthersKept(r, i) /\ entryAt(r, i)'.challengeStepCompleted = z
  BY StepView
<1>2. answersGiven(r, i)' = given(z) BY <1>1 DEF answersGiven
<1>3. AnswerFrame BY DEF Stepped
<1>4. SamePlaces BY <1>1 DEF Answered
<1> QED BY <1>1, <1>2, <1>3, <1>4, KeptAnswers DEF Counts

\* Confirming the result of the search counts,
LEMMA ResultCounts ==
  ASSUME Dispute, NEW r \in Rounds, NEW i \in Indices(r), confirmBinarySearchResult(r, i)
  PROVE  Counts(r, i)
<1>1. /\ entryAt(r, i).challengeStepCompleted \in 2 .. Depth + 1
      /\ \E z \in Nat : ResultStep(z) /\ Stepped(r, i, z)
  BY ResultView
<1>2. PICK z \in Nat : ResultStep(z) /\ Stepped(r, i, z) BY <1>1
<1>3. given(z) >= answersGiven(r, i) + 1 /\ answersGiven(r, i) >= 2
  BY <1>1, <1>2, GivenConfirm DEF answersGiven
<1> QED BY <1>2, <1>3, StepCounts

\* and so does answering the challenge,
LEMMA ChallengeCounts ==
  ASSUME Dispute, NEW r \in Rounds, NEW i \in Indices(r), respondToChallenge(r, i)
  PROVE  Counts(r, i)
<1> DEFINE k == entryAt(r, i).challengeStepCompleted
<1>1. /\ challengeOpen(entryAt(r, i), NLeaves) /\ k \in Nat /\ k + 1 \in Nat
      /\ Stepped(r, i, k + 1)
  BY ChallengeView
<1>2. ResultStep(k) BY <1>1 DEF challengeOpen, ResultStep
<1>3. given(k + 1) >= answersGiven(r, i) + 1 /\ answersGiven(r, i) >= 2
  BY <1>2, GivenChallenge DEF answersGiven
<1> QED BY <1>1, <1>3, StepCounts

\* the first response to a step of the search,
LEMMA FirstCounts ==
  ASSUME Dispute, NEW r \in Rounds, NEW i \in Indices(r),
         respondToBinarySearchForChallenge(r, i), FirstToStep(r, i)
  PROVE  Counts(r, i)
<1> DEFINE k == entryAt(r, i).challengeStepCompleted
<1>1. /\ entryAt(r, i).lowerBound # entryAt(r, i).upperBound
      /\ OnPath(entryAt(r, i).lowerBound, entryAt(r, i).upperBound)
      /\ k = due(entryAt(r, i).lowerBound, entryAt(r, i).upperBound)
      /\ InRound(r, getOpponentIdx(i))
  BY RespondFacts
<1>2. k \in Nat /\ k <= Depth BY <1>1, PathFacts, PathEnds
<1>3. Stepped(r, i, k + 1) BY FirstStepped
<1>4. given(k + 1) >= answersGiven(r, i) + 1
  <2>1. k + 1 \in Nat /\ k + 1 >= k + 1 BY <1>2
  <2> QED BY <1>2, <2>1, GivenHalf DEF answersGiven
<1> QED BY <1>1, <1>2, <1>3, <1>4, StepCounts

\* Moving the bounds takes no step back,
LEMMA HalvedStep ==
  ASSUME NEW e \in EntryType, NEW same \in BOOLEAN, NEW g, g = Halved(e, same)
  PROVE  g.challengeStepCompleted >= e.challengeStepCompleted
<1> DEFINE b == searchBounds(e, same)
<1>1. b.challengeStepCompleted = e.challengeStepCompleted /\ DOMAIN b = DOMAIN e
      /\ "challengeStepCompleted" \in DOMAIN e /\ e.challengeStepCompleted \in Nat
  BY DEF searchBounds, EntryType
<1>2. searchFinished(b, NLeaves).challengeStepCompleted >= e.challengeStepCompleted
      /\ DOMAIN searchFinished(b, NLeaves) = DOMAIN e
  <2> HIDE DEF b
  <2> QED BY <1>1 DEF searchFinished
<1> QED BY <1>1, <1>2 DEF Halved

\* nor unsays an answer.
LEMMA GivenMonotone ==
  ASSUME NEW k \in Nat, k <= Depth + 1, NEW z \in Nat, z >= k
  PROVE  given(z) >= given(k)
<1>1. given(k) = k BY DepthFacts DEF given
<1>2. CASE z <= Depth + 1 BY <1>1, <1>2 DEF given
<1>3. CASE ~(z <= Depth + 1)
  <2>1. given(z) >= Depth + 2 BY <1>3, DepthFacts DEF given
  <2>2. given(z) \in Nat BY GivenFacts
  <2> QED BY <1>1, <2>1, <2>2, DepthFacts
<1> QED BY <1>2, <1>3

\* What an entry will be is an entry.
LEMMA EntryNext ==
  ASSUME TypeOK', NEW q \in Rounds, NEW j \in Indices(q)'
  PROVE  entryAt(q, j)' \in EntryType
<1>1. disputeRounds' \in [Rounds -> Seq(EntryType)] BY DEF TypeOK
<1>2. j \in 0 .. Len(disputeRounds'[q]) - 1 BY DEF Indices
<1>3. PICK s \in Seq(EntryType) : s = disputeRounds'[q] BY <1>1
<1>4. s[j + 1] \in EntryType
  <2>1. j \in 0 .. Len(s) - 1 /\ Len(s) \in Nat BY <1>2, <1>3
  <2>2. j + 1 \in 1 .. Len(s) BY <2>1
  <2> QED BY <2>2
<1> QED BY <1>3, <1>4 DEF entryAt

\* The second response moves both.
LEMMA SecondCounts ==
  ASSUME Dispute, NEW r \in Rounds, NEW i \in Indices(r),
         respondToBinarySearchForChallenge(r, i), ~FirstToStep(r, i)
  PROVE  Counts(r, i)
<1>0. PICK o : o = getOpponentIdx(i) OBVIOUS
<1> DEFINE e == entryAt(r, i)
           f == entryAt(r, o)
           k == e.challengeStepCompleted
           mine == [e EXCEPT !.challengeStepCompleted = k + 1]
           same == sameLeftChild(mine, f)
           g == Halved(mine, same)
           h == Halved(f, same)
<1>1. /\ e.lowerBound # e.upperBound /\ OnPath(e.lowerBound, e.upperBound)
      /\ k = due(e.lowerBound, e.upperBound) /\ InRound(r, o) /\ AnswerFrame
  BY <1>0, RespondFacts
<1>2. k \in Nat /\ k <= Depth BY <1>1, PathFacts, PathEnds
<1>3. /\ TypeOK' /\ SamePlaces /\ o \in Indices(r) /\ o # i
      /\ \A q \in Rounds : \A j \in Indices(q) : ~(q = r /\ j \in {i, o}) => KeptAt(q, j)
  BY <1>0, SecondView DEF Answered
<1>4. e \in EntryType /\ f \in EntryType BY <1>3, EntryFacts DEF Dispute
<1>5. mine \in EntryType /\ mine.challengeStepCompleted = k + 1
  <2> HIDE DEF k
  <2> QED BY <1>2, <1>4 DEF EntryType
<1>6. f.challengeStepCompleted = k + 1 BY <1>0 DEF FirstToStep
<1>7. same \in BOOLEAN BY DEF sameLeftChild
<1>8. BothReplaced(r, i, g, o, h) BY <1>0, SecondReplaced
<1>9. entryAt(r, i)' = g /\ entryAt(r, o)' = h
  <2> HIDE DEF g, h
  <2>1. i \in 0 .. Len(disputeRounds[r]) - 1 /\ o \in 0 .. Len(disputeRounds[r]) - 1
    BY <1>3 DEF Indices
  <2>2. disputeRounds \in [Rounds -> Seq(EntryType)] BY DEF Dispute, TypeOK
  <2>3. i + 1 \in 1 .. Len(disputeRounds[r]) /\ o + 1 \in 1 .. Len(disputeRounds[r]) /\ i + 1 # o + 1
    BY <1>3, <2>1, <2>2
  <2>4. disputeRounds'[r] = [disputeRounds[r] EXCEPT ![i + 1] = g, ![o + 1] = h]
    BY <1>8, <2>2 DEF BothReplaced
  <2>5. disputeRounds[r] \in Seq(EntryType) BY <2>2
  <2>6. disputeRounds'[r][i + 1] = g /\ disputeRounds'[r][o + 1] = h
    BY <2>3, <2>4, <2>5
  <2> QED BY <2>6 DEF entryAt
<1>10. g.challengeStepCompleted >= k + 1 /\ h.challengeStepCompleted >= k + 1
  <2> HIDE DEF mine, same, f, k
  <2>1. g.challengeStepCompleted >= mine.challengeStepCompleted BY <1>5, <1>7, HalvedStep
  <2>2. h.challengeStepCompleted >= f.challengeStepCompleted BY <1>4, <1>7, HalvedStep
  <2> QED BY <1>5, <1>6, <2>1, <2>2
<1>11. g.challengeStepCompleted \in Nat /\ h.challengeStepCompleted \in Nat
  <2>1. i \in Indices(r)' /\ o \in Indices(r)' BY <1>3, SameIndices
  <2>2. entryAt(r, i)' \in EntryType /\ entryAt(r, o)' \in EntryType
    BY <1>3, <2>1, EntryNext
  <2> HIDE DEF g, h
  <2>3. g \in EntryType /\ h \in EntryType BY <1>9, <2>2
  <2> QED BY <2>3, StepNat
<1> HIDE DEF e, f, k, mine, same, g, h
<1>12. answersGiven(r, i)' >= answersGiven(r, i) + 1
  <2>1. given(g.challengeStepCompleted) >= given(k) + 1 BY <1>2, <1>10, <1>11, GivenHalf
  <2> QED BY <1>9, <2>1 DEF answersGiven, k, e
<1>13. answersGiven(r, o)' >= answersGiven(r, o)
  <2>1. k + 1 \in Nat /\ k + 1 <= Depth + 1 BY <1>2, DepthFacts
  <2>2. given(h.challengeStepCompleted) >= given(k + 1) BY <1>10, <1>11, <2>1, GivenMonotone
  <2> QED BY <1>6, <1>9, <2>2 DEF answersGiven, f
<1>14. InRound(r, getOpponentIdx(o))
  <2>1. getOpponentIdx(o) = i BY <1>0, EntryFacts, OpponentFacts DEF Dispute
  <2> QED BY <2>1 DEF InRound
<1>15. ASSUME NEW q \in Rounds, NEW j \in Indices(q), ~(q = r /\ j = i)
       PROVE  /\ answersGiven(q, j)' >= answersGiven(q, j)
              /\ ~InRound(q, getOpponentIdx(j)) => answersGiven(q, j)' = answersGiven(q, j)
  <2>1. CASE q = r /\ j = o BY <1>13, <1>14, <2>1
  <2>2. CASE ~(q = r /\ j = o)
    <3>1. KeptAt(q, j) BY <1>3, <1>15, <2>2
    <3>2. answersGiven(q, j)' = answersGiven(q, j) BY <3>1 DEF KeptAt, answersGiven
    <3>3. answersGiven(q, j) \in Nat BY AnswersNat DEF Dispute
    <3> QED BY <3>2, <3>3
  <2> QED BY <2>1, <2>2
<1>16. ~InRound(r, getOpponentIdx(i)) => answersGiven(r, i) >= 2 \/ answersGiven(r, i)' <= 1
  BY <1>0, <1>1
<1> QED BY <1>1, <1>3, <1>12, <1>15, <1>16 DEF Counts

\* Every answer counts, is of a hash that is held, and comes after the window.
LEMMA AnswerCounts ==
  ASSUME Dispute, NEW r \in Rounds, NEW i \in Indices(r), AnswerAt(r, i)
  PROVE  Counts(r, i) /\ Held(r, i) /\ submissionWindowClosed
<1>1. Counts(r, i)
  BY ConfirmJRHCounts, FirstCounts, SecondCounts, ResultCounts, ChallengeCounts DEF AnswerAt
<1>2. confirmJustificationRootHash(r, i) \/ submissionAt(r, i) \in jrhConfirmed
  BY RespondFacts, ResultView, ChallengeView DEF AnswerAt
<1>3. CASE confirmJustificationRootHash(r, i) BY <1>1, <1>3, ConfirmJRHView
<1>4. CASE submissionAt(r, i) \in jrhConfirmed
  <2>1. Held(r, i) BY <1>4, NoHash DEF Held, Dispute, TypeOK
  <2>2. submissionWindowClosed BY <1>4 DEF Dispute, Struct, Known
  <2> QED BY <1>1, <2>1, <2>2
<1> QED BY <1>2, <1>3, <1>4

(***************************************************************************)
(* The rewards that have been paid are so many byes, so many answers to    *)
(* settled pairs, and the answers of pairs that are not settled yet.       *)
(***************************************************************************)

\* The rounds whose last entry has had its bye.
Byes == {r \in Rounds : \E i \in Indices(r) : Gone(r, i) /\ ~InRound(r, getOpponentIdx(i))}

byeOf(r) == IF r \in Byes THEN 1 ELSE 0

\* A round has an entry for each pair of the round before that was settled, and
\* one for its bye.
Funnel ==
  \A r \in PlayableRounds :
     2 * Len(disputeRounds[r + 1]) <= nHashesCompletedChallengeRound[r] + byeOf(r)

Sole == nUniqueSubmittedHashes - nInvalidatedHashes = 1

\* A hash whose dispute is under way or may still come.
Engaged(r, i) ==
  /\ ~Gone(r, i)
  /\ InRound(r, getOpponentIdx(i)) \/ (answersGiven(r, i) <= 1 /\ ~Sole)

share(r, i) == answersGiven(r, i) + IF Engaged(r, i) THEN Most ELSE 0

Placed(s) == \E r \in Rounds : \E i \in Indices(r) : submissionAt(r, i) = s

\* What is kept on the account of a hash: the answers its entry shows, and Most
\* more until its dispute is settled.
Fits(f) ==
  /\ \A r \in Rounds : \A i \in Indices(r) : Held(r, i) => f[submissionAt(r, i)] <= share(r, i)
  /\ \A s \in Submissions : f[s] <= Most \/ Placed(s)

total(f) == SumFunctionOnSet(f, Submissions)

startAccounts == [s \in Submissions |-> Most]

\* An invalidation settles the answers of both sides, and is itself rewarded.
Loss == 2 * Most + 1

\* n rewards have been paid, and the accounts tell what for.
Covers(f, n) ==
  /\ rewardsPaidOut <= disputeRewardSize * n
  /\ n + total(startAccounts) <= Cardinality(Byes) + Loss * nInvalidatedHashes + total(f)

Contested == submissionWindowClosed /\ nUniqueSubmittedHashes >= 2

Booked == Contested => \E f \in [Submissions -> Nat] : \E n \in Nat : Fits(f) /\ Covers(f, n)

Early == /\ Unopened
         /\ ~submissionWindowClosed => Out = {}
         /\ ~Contested => rewardsPaidOut = 0

Burnt == stakeLost >= MinStake * nInvalidatedHashes

Rewarded == Early /\ Burnt /\ Funnel /\ Booked

\* What an entry will show is a number.
LEMMA AnswersNatNext ==
  ASSUME TypeOK', NEW q \in Rounds, NEW j \in Indices(q)'
  PROVE  answersGiven(q, j)' \in Nat /\ answersGiven(q, j)' <= Most
<1>1. entryAt(q, j)' \in EntryType BY EntryNext
<1>2. entryAt(q, j)'.challengeStepCompleted \in Nat BY <1>1, StepNat
<1> QED BY <1>2, GivenFacts DEF answersGiven

\* One more reward.
LEMMA OneMoreReward ==
  ASSUME TypeOK, rewardResponder, disputeRewardSize' = disputeRewardSize,
         NEW n \in Nat, rewardsPaidOut <= disputeRewardSize * n
  PROVE  rewardsPaidOut' <= disputeRewardSize' * (n + 1)
<1> DEFINE R == disputeRewardSize
<1>1. R \in Nat /\ rewardsPaidOut \in Nat BY RewardNat DEF TypeOK
<1>2. rewardsPaidOut' = rewardsPaidOut + R BY DEF rewardResponder
<1> HIDE DEF R
<1>3. R * (n + 1) = R * n + R /\ R * n \in Nat BY <1>1
<1> QED BY <1>1, <1>2, <1>3 DEF R

\* The size of a reward depends on the number of hashes only.
LEMMA SameReward ==
  ASSUME nUniqueSubmittedHashes' = nUniqueSubmittedHashes
  PROVE  disputeRewardSize' = disputeRewardSize
BY DEF disputeRewardSize, rewardDenominator

\* A hash that is gone stays so.
LEMMA StaysGone ==
  ASSUME NEW q, NEW j, submissionAt(q, j)' \in {submissionAt(q, j), NoSubmission}, Out \subseteq Out'
  PROVE  Gone(q, j) => Gone(q, j)'
BY DEF Gone

\* Accounts are numbers.
LEMMA TotalNat ==
  ASSUME NEW f \in [Submissions -> Nat]
  PROVE  total(f) \in Nat
BY FiniteSets_, SumNat DEF total

\* One more on one account is one more in all.
LEMMA AddedTo ==
  ASSUME NEW f \in [Submissions -> Nat], NEW g \in [Submissions -> Nat], NEW s \in Submissions,
         g[s] = f[s] + 1, \A x \in Submissions : x # s => g[x] = f[x]
  PROVE  total(g) = total(f) + 1
<1>1. \A x \in Submissions : f[x] \in Int /\ g[x] \in Int OBVIOUS
<1>2. SumFunctionOnSet(g, Submissions) = SumFunctionOnSet(f, Submissions) - f[s] + g[s]
  BY <1>1, FiniteSets_, SumChange
<1>3. total(f) \in Nat BY TotalNat
<1>4. f[s] \in Nat OBVIOUS
<1>5. total(g) = total(f) - f[s] + (f[s] + 1) BY <1>2 DEF total
<1> HIDE DEF total
<1> QED BY <1>3, <1>4, <1>5

\* Every account starts at Most.
LEMMA StartTotal == startAccounts \in [Submissions -> Nat] /\ total(startAccounts) \in Nat
<1>1. startAccounts \in [Submissions -> Nat] BY DepthFacts DEF startAccounts, Most
<1> QED BY <1>1, TotalNat

\* Rounds are few, and so are the byes.
LEMMA ByesFinite ==
  IsFiniteSet(Rounds) /\ IsFiniteSet(Byes) /\ Cardinality(Byes) \in Nat
<1>1. IsFiniteSet(Rounds) /\ Byes \subseteq Rounds
  BY FiniteSets_, FS_CardinalityType, FS_Interval DEF Rounds, Byes
<1> QED BY <1>1, FS_Subset, FS_CardinalityType

\* A reward is covered by a bye, by the answer it is for, or by an invalidation.
LEMMA CoversNext ==
  ASSUME TypeOK, rewardResponder, nUniqueSubmittedHashes' = nUniqueSubmittedHashes,
         NEW f \in [Submissions -> Nat], NEW n \in Nat, Covers(f, n),
         NEW g \in [Submissions -> Nat], NEW d \in Int, total(f) <= total(g) + d,
         NEW b \in Nat, Cardinality(Byes') >= Cardinality(Byes) + b, Cardinality(Byes') \in Nat,
         NEW k \in Nat, nInvalidatedHashes' = nInvalidatedHashes + k,
         d + 1 <= b + Loss * k
  PROVE  Covers(g, n + 1)'
<1>1. rewardsPaidOut' <= disputeRewardSize' * (n + 1)
  <2>1. disputeRewardSize' = disputeRewardSize BY SameReward
  <2> QED BY <2>1, OneMoreReward DEF Covers
<1> DEFINE B == Cardinality(Byes)
           C == Cardinality(Byes')
           T == total(startAccounts)
           v == nInvalidatedHashes
           F == total(f)
           G == total(g)
<1>2. /\ B \in Nat /\ C \in Nat /\ T \in Nat /\ v \in Nat /\ F \in Nat /\ G \in Nat
      /\ Loss \in Nat
  <2>1. Loss \in Nat BY DepthFacts DEF Loss, Most
  <2>2. F \in Nat /\ G \in Nat BY TotalNat
  <2>3. v \in Nat BY DEF TypeOK
  <2> QED BY <2>1, <2>2, <2>3, ByesFinite, StartTotal
<1>3. n + T <= B + Loss * v + F BY DEF Covers
<1>4. C >= B + b /\ F <= G + d /\ nInvalidatedHashes' = v + k OBVIOUS
<1>5. total(startAccounts)' = T /\ total(g)' = G /\ Loss' = Loss
  BY DEF total, startAccounts, Most, Depth, Loss
<1> HIDE DEF B, C, T, v, F, G
<1>6. Loss * (v + k) = Loss * v + Loss * k /\ Loss * v \in Nat /\ Loss * k \in Nat BY <1>2
<1> DEFINE x == Loss * v
           y == Loss * k
<1>7. (n + 1) + T <= C + (x + y) + G
  <2>1. x \in Nat /\ y \in Nat /\ n + T <= B + x + F /\ d + 1 <= b + y BY <1>3, <1>6
  <2> HIDE DEF x, y
  <2> QED BY <1>2, <1>4, <2>1
<1>8. (n + 1) + T <= C + Loss * nInvalidatedHashes' + G BY <1>4, <1>6, <1>7
<1> QED BY <1>1, <1>5, <1>8 DEF Covers, C, T, G

\* A step after the window that takes no submission and pays one reward.
LEMMA EarlyNext ==
  ASSUME TypeOK, Early, rewardResponder, windowAge' = windowAge, submissionWindowClosed,
         nUniqueSubmittedHashes' = nUniqueSubmittedHashes
  PROVE  Early' /\ (Contested' <=> Contested)
<1>1. submissionWindowClosed' BY DEF submissionWindowClosed
<1>2. Contested' <=> Contested BY <1>1 DEF Contested
<1>3. ~Contested => rewardsPaidOut' = 0
  <2> SUFFICES ASSUME ~Contested PROVE rewardsPaidOut' = 0 OBVIOUS
  <2>1. nUniqueSubmittedHashes <= 1 BY DEF Contested, TypeOK
  <2>2. disputeRewardSize = 0 BY <2>1 DEF disputeRewardSize
  <2>3. rewardsPaidOut = 0 BY DEF Early
  <2> QED BY <2>2, <2>3 DEF rewardResponder
<1> QED BY <1>1, <1>2, <1>3 DEF Early, Unopened
\* A step that moves nobody and invalidates nothing.
Unmoved ==
  /\ Byes' = Byes
  /\ \A q \in Rounds : \A j \in Indices(q) : Held(q, j)' <=> Held(q, j)
  /\ \A q \in Rounds : \A j \in Indices(q) : Gone(q, j)' <=> Gone(q, j)
  /\ \A s \in Submissions : Placed(s)' <=> Placed(s)

\* Without a move or an invalidation the byes, and who is in the race, stay.
LEMMA SameByes ==
  ASSUME SamePlaces, Out' = Out
  PROVE  Unmoved
<1>1. \A q \in Rounds : \A j \in Indices(q) : Held(q, j)' <=> Held(q, j)
  BY DEF SamePlaces, Held
<1>2. \A q \in Rounds : \A j \in Indices(q) : Gone(q, j)' <=> Gone(q, j)
  BY DEF SamePlaces, Gone
<1>3. \A s \in Submissions : Placed(s)' <=> Placed(s)
  BY SameIndices DEF SamePlaces, Placed
<1>4. ASSUME NEW q \in Rounds PROVE q \in Byes' <=> q \in Byes
  <2>1. Indices(q)' = Indices(q) BY SameIndices
  <2>2. ASSUME NEW j \in Indices(q)
        PROVE  /\ InRound(q, getOpponentIdx(j))' <=> InRound(q, getOpponentIdx(j))
               /\ Gone(q, j)' <=> Gone(q, j)
    BY <1>2, SameIndices DEF InRound
  <2> QED BY <2>1, <2>2 DEF Byes
<1>5. Byes' = Byes
  <2>1. Byes \subseteq Rounds /\ Byes' \subseteq Rounds BY DEF Byes
  <2>2. \A q \in Rounds : q \in Byes' <=> q \in Byes BY <1>4
  <2>3. \A q : q \in Byes' <=> q \in Byes BY <2>1, <2>2
  <2> QED BY <2>3
<1> QED BY <1>1, <1>2, <1>3, <1>5 DEF Unmoved

\* An answer is put on the account of its hash.
LEMMA AnswerFits ==
  ASSUME Dispute, TypeOK', NEW r \in Rounds, NEW i \in Indices(r), Counts(r, i), Held(r, i),
         NEW f \in [Submissions -> Nat], Fits(f), NEW g \in [Submissions -> Nat],
         g[submissionAt(r, i)] = f[submissionAt(r, i)] + 1,
         \A x \in Submissions : x # submissionAt(r, i) => g[x] = f[x]
  PROVE  Fits(g)'
<1>1. SamePlaces /\ Out' = Out /\ (Sole' <=> Sole)
  BY DEF Counts, AnswerFrame, outcomeVars, submitVars, Out, Sole
<1>2. Unmoved BY <1>1, SameByes
<1>3. \A q \in Rounds : \A j \in Indices(q) : Gone(q, j)' <=> Gone(q, j) BY <1>2 DEF Unmoved
<1>4. \A q \in Rounds : \A j \in Indices(q) : Held(q, j)' <=> Held(q, j) BY <1>2 DEF Unmoved
<1>5. ASSUME NEW q \in Rounds, NEW j \in Indices(q)', Held(q, j)'
      PROVE  g[submissionAt(q, j)'] <= share(q, j)'
  <2> DEFINE a == answersGiven(q, j)
             b == answersGiven(q, j)'
             s == submissionAt(q, j)
  <2>1. j \in Indices(q) BY <1>1, SameIndices
  <2>2. s \in Submissions /\ submissionAt(q, j)' = s /\ Held(q, j)
    BY <1>1, <1>4, <1>5, <2>1, HeldFacts DEF SamePlaces, Dispute, Struct
  <2>3. InRound(q, getOpponentIdx(j))' <=> InRound(q, getOpponentIdx(j))
    BY <1>1, SameIndices DEF InRound
  <2>4. Gone(q, j)' <=> Gone(q, j) BY <1>3, <2>1
  <2>5. a \in Nat /\ b \in Nat BY <1>5, <2>1, AnswersNat, AnswersNatNext DEF Dispute
  <2>6. f[s] <= share(q, j) BY <2>1, <2>2 DEF Fits
  <2>7. Engaged(q, j) \in BOOLEAN /\ Engaged(q, j)' \in BOOLEAN BY DEF Engaged
  <2>8. f[s] \in Nat /\ Most \in Nat BY <2>2, DepthFacts DEF Most
  <2>9. share(q, j) = a + IF Engaged(q, j) THEN Most ELSE 0 BY DEF share
  <2>10. share(q, j)' = b + IF Engaged(q, j)' THEN Most ELSE 0 BY DEF share, Most, Depth
  <2>11. CASE q = r /\ j = i
    <3>1. b >= a + 1 BY <2>11 DEF Counts
    <3>2. ~InRound(q, getOpponentIdx(j)) => a >= 2 \/ b <= 1 BY <2>11 DEF Counts
    <3>3. Engaged(q, j) => Engaged(q, j)'
      BY <1>1, <2>3, <2>4, <2>5, <3>2 DEF Engaged
    <3>4. g[s] = f[s] + 1 BY <2>11
    <3> HIDE DEF a, b, s
    <3> QED BY <2>2, <2>5, <2>6, <2>7, <2>8, <2>9, <2>10, <3>1, <3>3, <3>4
  <2>12. CASE ~(q = r /\ j = i)
    <3>1. b >= a BY <2>1, <2>12 DEF Counts
    <3>2. ~InRound(q, getOpponentIdx(j)) => b = a BY <2>1, <2>12 DEF Counts
    <3>3. Engaged(q, j) => Engaged(q, j)'
      BY <1>1, <2>3, <2>4, <3>2 DEF Engaged
    <3>4. s # submissionAt(r, i) BY <2>1, <2>2, <2>12 DEF Dispute, Struct, OnePlace
    <3>5. g[s] = f[s] BY <2>2, <3>4
    <3> HIDE DEF a, b, s
    <3> QED BY <2>2, <2>5, <2>6, <2>7, <2>8, <2>9, <2>10, <3>1, <3>3, <3>5
  <2> QED BY <2>11, <2>12
<1>6. ASSUME NEW s \in Submissions PROVE g[s] <= Most \/ Placed(s)'
  <2>1. Placed(s)' <=> Placed(s) BY <1>2 DEF Unmoved
  <2>2. CASE s = submissionAt(r, i)
    <3>1. Placed(s) BY <2>2 DEF Placed
    <3> QED BY <2>1, <3>1
  <2>3. CASE s # submissionAt(r, i)
    <3>1. g[s] = f[s] BY <2>3
    <3>2. f[s] <= Most \/ Placed(s) BY DEF Fits
    <3> QED BY <2>1, <3>1, <3>2
  <2> QED BY <2>2, <2>3
<1> QED BY <1>5, <1>6 DEF Fits, Most, Depth

\* Answers keep the books.
LEMMA AnswerRewarded ==
  ASSUME Dispute, Rewarded, NEW r \in Rounds, NEW i \in Indices(r), AnswerAt(r, i)
  PROVE  Rewarded'
<1>1. Counts(r, i) /\ Held(r, i) /\ submissionWindowClosed BY AnswerCounts
<1>2. /\ SamePlaces /\ rewardResponder /\ windowAge' = windowAge
      /\ nUniqueSubmittedHashes' = nUniqueSubmittedHashes
      /\ nHashesCompletedChallengeRound' = nHashesCompletedChallengeRound
      /\ nInvalidatedHashes' = nInvalidatedHashes /\ stakeLost' = stakeLost /\ Out' = Out
  BY <1>1 DEF Counts, AnswerFrame, outcomeVars, submitVars, Out
<1>3. Early' /\ (Contested' <=> Contested) BY <1>1, <1>2, EarlyNext DEF Rewarded, Dispute
<1>4. Unmoved BY <1>2, SameByes
<1>5. Burnt' BY <1>2 DEF Rewarded, Burnt
<1>6. Funnel' BY <1>2, <1>4, RoundFacts DEF Rewarded, Funnel, Unmoved, byeOf, SamePlaces
<1>7. Booked'
  <2> SUFFICES ASSUME Contested
               PROVE  \E g \in [Submissions -> Nat] : \E n \in Nat : Fits(g)' /\ Covers(g, n)'
    BY <1>3 DEF Booked
  <2>1. PICK f \in [Submissions -> Nat] : \E n \in Nat : Fits(f) /\ Covers(f, n)
    BY DEF Rewarded, Booked
  <2>2. PICK n \in Nat : Fits(f) /\ Covers(f, n) BY <2>1
  <2>3. PICK s \in Submissions : s = submissionAt(r, i)
    BY <1>1, HeldFacts DEF Dispute, Struct
  <2>4. PICK g \in [Submissions -> Nat] :
          g[s] = f[s] + 1 /\ \A x \in Submissions : x # s => g[x] = f[x]
    <3> DEFINE h == [f EXCEPT ![s] = f[s] + 1]
    <3>1. h \in [Submissions -> Nat] /\ h[s] = f[s] + 1
          /\ \A x \in Submissions : x # s => h[x] = f[x]
      OBVIOUS
    <3> QED BY <3>1
  <2>5. Fits(g)'
    <3>1. TypeOK' BY AnswerDispute DEF Dispute
    <3> QED BY <1>1, <2>2, <2>3, <2>4, <3>1, AnswerFits
  <2>6. total(g) = total(f) + 1 /\ total(f) \in Nat BY <2>3, <2>4, AddedTo, TotalNat
  <2>7. Covers(g, n + 1)'
    <3>1. total(f) <= total(g) + -1 BY <2>6
    <3>2. Cardinality(Byes') >= Cardinality(Byes) + 0 /\ Cardinality(Byes') \in Nat
      BY <1>4, ByesFinite DEF Unmoved
    <3>3. nInvalidatedHashes' = nInvalidatedHashes + 0 BY <1>2 DEF Dispute, TypeOK
    <3>4. -1 + 1 <= 0 + Loss * 0 BY DepthFacts DEF Loss, Most
    <3> QED BY <1>2, <2>2, <2>4, <3>1, <3>2, <3>3, <3>4, CoversNext DEF Dispute
  <2> QED BY <2>4, <2>5, <2>7
<1> QED BY <1>3, <1>5, <1>6, <1>7 DEF Rewarded

\* What settling leaves of an account.
drop(x) == IF x >= Most THEN x - Most ELSE 0

\* The accounts of the hashes in D are settled.
Dropped(f, g, D) == \A x \in Submissions : g[x] = IF x \in D THEN drop(f[x]) ELSE f[x]

\* Settling takes at most Most from an account, and all that its dispute might still bring.
LEMMA DropFacts ==
  ASSUME NEW x \in Nat
  PROVE  /\ drop(x) \in Nat /\ drop(x) <= x /\ x <= drop(x) + Most
         /\ \A a \in Nat : x <= a + Most => drop(x) <= a
BY DepthFacts DEF drop, Most

\* Settling one more costs Most.
LEMMA DropMore ==
  ASSUME NEW f \in [Submissions -> Nat], NEW g \in [Submissions -> Nat],
         NEW D, Dropped(f, g, D), NEW s \in Submissions, s \notin D
  PROVE  \E h \in [Submissions -> Nat] : Dropped(f, h, D \cup {s}) /\ total(g) <= total(h) + Most
<1> DEFINE v == drop(f[s])
           h == [g EXCEPT ![s] = v]
<1>1. v \in Nat /\ f[s] \in Nat /\ f[s] <= v + Most BY DropFacts
<1>2. h \in [Submissions -> Nat] /\ h[s] = v /\ \A x \in Submissions : x # s => h[x] = g[x]
  <2> HIDE DEF v
  <2> QED BY <1>1
<1>3. g[s] = f[s] BY DEF Dropped
<1> HIDE DEF h
<1>4. Dropped(f, h, D \cup {s})
  <2> SUFFICES ASSUME NEW x \in Submissions
               PROVE  h[x] = IF x \in D \cup {s} THEN drop(f[x]) ELSE f[x]
    BY DEF Dropped
  <2>1. g[x] = IF x \in D THEN drop(f[x]) ELSE f[x] BY DEF Dropped
  <2>2. CASE x = s BY <1>2, <2>2
  <2>3. CASE x # s BY <1>2, <2>1, <2>3
  <2> QED BY <2>2, <2>3
<1> HIDE DEF v
<1>5. total(g) <= total(h) + Most
  <2>1. \A x \in Submissions : g[x] \in Int /\ h[x] \in Int BY <1>2
  <2>2. SumFunctionOnSet(h, Submissions) = SumFunctionOnSet(g, Submissions) - g[s] + h[s]
    BY <1>2, <2>1, FiniteSets_, SumChange
  <2>3. total(g) \in Nat /\ Most \in Nat BY TotalNat, DepthFacts DEF Most
  <2>4. total(h) = total(g) - f[s] + v BY <1>2, <1>3, <2>2 DEF total
  <2> HIDE DEF total
  <2> QED BY <1>1, <2>3, <2>4
<1> QED BY <1>2, <1>4, <1>5

\* A hash that starts a pair shows as many answers as before, if those were few.
LEMMA StartAnswers ==
  ASSUME NEW e \in EntryType, Shape(e, submissionOf(e), jrhConfirmed),
         NEW g, g = startMemberOfPair(e),
         NEW a, a = given(e.challengeStepCompleted), NEW b, b = given(g.challengeStepCompleted)
  PROVE  a \in Nat /\ b \in Nat /\ a <= Most /\ (a <= 1 => b >= a)
<1>1. Fresh(g, submissionOf(e), jrhConfirmed) BY StartFacts
<1>2. e.challengeStepCompleted \in Nat BY StepNat
<1>3. g.challengeStepCompleted = IF submissionOf(e) \in jrhConfirmed THEN 1 ELSE 0
  BY <1>1 DEF Fresh
<1>4. a \in Nat /\ b \in Nat /\ a <= Most BY <1>2, <1>3, GivenFacts
<1>5. CASE a = 0 BY <1>4, <1>5
<1>6. CASE a = 1
  <2>4. e.challengeStepCompleted = 0 => given(e.challengeStepCompleted) = 0 BY <1>2, GivenFacts
  <2>1. e.challengeStepCompleted # 0 BY <1>6, <2>4
  <2>2. submissionOf(e) \in jrhConfirmed BY <2>1 DEF Shape
  <2>3. b = 1 BY <1>3, <2>2, GivenFacts
  <2> QED BY <1>4, <1>6, <2>3
<1> QED BY <1>4, <1>5, <1>6

\* What settling has to see to: the hashes that go are settled, and so is the one
\* that is left.
Settles(f, g, D) ==
  /\ Fits(f) /\ Dropped(f, g, D) /\ Out' \subseteq Out \cup D
  /\ Sole' => Sole \/ Submitted \ Out' \subseteq D

\* A place that the step leaves alone.
LEMMA KeptFits ==
  ASSUME Dispute, NEW f \in [Submissions -> Nat], NEW g \in [Submissions -> Nat],
         NEW D, Settles(f, g, D), NEW q \in Rounds, NEW j \in Indices(q), Held(q, j),
         entryAt(q, j)' = entryAt(q, j), submissionAt(q, j)' = submissionAt(q, j),
         InRound(q, getOpponentIdx(j)) => InRound(q, getOpponentIdx(j))'
  PROVE  g[submissionAt(q, j)] <= share(q, j)'
<1> DEFINE a == answersGiven(q, j)
<1>1. PICK s \in Submissions : s = submissionAt(q, j) /\ s \in Submitted
  BY HeldFacts DEF Dispute, Struct
<1>2. answersGiven(q, j)' = a BY DEF answersGiven
<1>3. a \in Nat /\ Most \in Nat BY AnswersNat, DepthFacts DEF Dispute, Most
<1>4. f[s] <= share(q, j) BY <1>1 DEF Settles, Fits
<1>5. Engaged(q, j) \in BOOLEAN /\ Engaged(q, j)' \in BOOLEAN BY DEF Engaged
<1>6. share(q, j) = a + IF Engaged(q, j) THEN Most ELSE 0 BY DEF share
<1>7. share(q, j)' = a + IF Engaged(q, j)' THEN Most ELSE 0 BY <1>2 DEF share, Most, Depth
<1>8. f[s] \in Nat /\ f[s] <= a + Most BY <1>3, <1>4, <1>5, <1>6
<1>9. CASE s \in D
  <2>1. g[s] = drop(f[s]) BY <1>9 DEF Settles, Dropped
  <2>2. g[s] <= a /\ g[s] \in Nat BY <1>3, <1>8, <2>1, DropFacts
  <2> HIDE DEF a
  <2> QED BY <1>1, <1>3, <1>5, <1>7, <2>2
<1>10. CASE s \notin D
  <2>1. g[s] = f[s] BY <1>10 DEF Settles, Dropped
  <2>2. Gone(q, j)' => Gone(q, j)
    <3>1. s \in Out' => s \in Out BY <1>10 DEF Settles
    <3>2. s # NoSubmission BY <1>1, NoHash
    <3> QED BY <1>1, <3>1, <3>2 DEF Gone
  <2>3. Engaged(q, j) => Engaged(q, j)'
    <3> SUFFICES ASSUME Engaged(q, j) PROVE Engaged(q, j)' OBVIOUS
    <3>1. ~Gone(q, j)' BY <2>2 DEF Engaged
    <3>2. InRound(q, getOpponentIdx(j)) => Engaged(q, j)' BY <3>1 DEF Engaged
    <3>3. ASSUME ~InRound(q, getOpponentIdx(j)) PROVE Engaged(q, j)'
      <4>1. a <= 1 /\ ~Sole BY <3>3 DEF Engaged
      <4>2. s \in Submitted \ Out' BY <1>1, <3>1 DEF Gone
      <4>3. ~Sole' BY <1>10, <4>1, <4>2 DEF Settles
      <4> QED BY <1>2, <3>1, <4>1, <4>3 DEF Engaged
    <3> QED BY <3>2, <3>3
  <2> HIDE DEF a
  <2> QED BY <1>1, <1>3, <1>4, <1>5, <1>6, <1>7, <1>8, <2>1, <2>3
<1> QED BY <1>9, <1>10

\* What a hash may bring with it to the next round.
Brings(x, r, o) ==
  x <= answersGiven(r, o) + IF answersGiven(r, o) <= 1 /\ ~Sole' THEN Most ELSE 0

\* A hash that moves on has its account with it.
LEMMA MovedFits ==
  ASSUME Dispute, TypeOK', NEW r \in PlayableRounds, NEW o \in Indices(r), Held(r, o),
         NEW n, n = Len(disputeRounds[r + 1]), Progressed(r, o, n), HashMoved(r, o, n),
         submissionAt(r, o) \notin Out', NEW x \in Nat, Brings(x, r, o)
  PROVE  x <= share(r + 1, n)'
<1> DEFINE a == answersGiven(r, o)
           b == answersGiven(r + 1, n)'
           e == entryAt(r, o)
<1>1. r \in Rounds /\ r + 1 \in Rounds BY RoundFacts
<1>2. n \in Nat /\ n \in Indices(r + 1)' /\ submissionAt(r + 1, n)' = submissionAt(r, o)
  BY <1>1 DEF HashMoved
<1>3. ~Gone(r + 1, n)' BY <1>2 DEF Gone, Held
<1>4. e \in EntryType /\ a \in Nat /\ a <= Most BY <1>1, EntryFacts, AnswersNat DEF Dispute
<1>5. b \in Nat BY <1>1, <1>2, AnswersNatNext
<1>6. Most \in Nat BY DepthFacts DEF Most
<1>7. Engaged(r + 1, n)' \in BOOLEAN BY DEF Engaged
<1>8. share(r + 1, n)' = b + IF Engaged(r + 1, n)' THEN Most ELSE 0 BY DEF share, Most, Depth
<1>9. x <= a + IF a <= 1 /\ ~Sole' THEN Most ELSE 0 BY DEF Brings
<1>10. CASE n % 2 = 0
  <2>1. entryAt(r + 1, n)' = Reset(e) BY <1>10 DEF Progressed
  <2>2. b = a
    <3>1. Reset(e).challengeStepCompleted = e.challengeStepCompleted BY <1>4, ResetFacts
    <3> QED BY <2>1, <3>1 DEF answersGiven
  <2>3. a <= 1 /\ ~Sole' => Engaged(r + 1, n)' BY <1>3, <2>2 DEF Engaged
  <2> HIDE DEF a, b
  <2> QED BY <1>4, <1>6, <1>7, <1>8, <1>9, <2>2, <2>3
<1>11. CASE n % 2 = 1
  <2>1. entryAt(r + 1, n)' = startMemberOfPair(e) BY <1>11 DEF Progressed
  <2>2. a <= 1 => b >= a
    <3>1. Shape(e, submissionOf(e), jrhConfirmed)
      BY <1>1 DEF Dispute, Shaped, PlaceOK, submissionAt
    <3> QED BY <1>4, <2>1, <3>1, StartAnswers DEF answersGiven
  <2>3. InRound(r + 1, getOpponentIdx(n))'
    <3>1. n - 1 \in Indices(r + 1) /\ getOpponentIdx(n) = n - 1
      BY <1>2, <1>11, OpponentFacts DEF Progressed
    <3>2. n - 1 \in Indices(r + 1)' BY <1>1, <3>1 DEF HashMoved
    <3> QED BY <3>1, <3>2 DEF InRound
  <2>4. Engaged(r + 1, n)' BY <1>3, <2>3 DEF Engaged
  <2> HIDE DEF a, b
  <2> QED BY <1>4, <1>5, <1>6, <1>8, <1>9, <2>2, <2>4
<1> QED BY <1>2, <1>10, <1>11, Parity

\* The entry it finds there starts a dispute with it.
LEMMA PartnerFits ==
  ASSUME Dispute, Race, TypeOK', NEW r \in PlayableRounds, NEW o \in Indices(r), ~Gone(r, o),
         NEW n, n = Len(disputeRounds[r + 1]), n % 2 = 1,
         Progressed(r, o, n), HashMoved(r, o, n),
         NEW p, p = n - 1, ~Gone(r + 1, p) => submissionAt(r + 1, p) \notin Out',
         NEW x \in Nat, x <= share(r + 1, p)
  PROVE  x <= share(r + 1, p)'
<1> DEFINE a == answersGiven(r + 1, p)
           b == answersGiven(r + 1, p)'
           e == entryAt(r + 1, p)
<1>1. r \in Rounds /\ r + 1 \in Rounds /\ r < r + 1 /\ r # r + 1
  <2>1. r \in Rounds /\ r + 1 \in Rounds /\ r \in Nat BY RoundFacts
  <2> QED BY <2>1
<1>2. /\ n \in Nat /\ p \in Indices(r + 1) /\ p \in Indices(r + 1)' /\ n \in Indices(r + 1)'
      /\ n \notin Indices(r + 1)
      /\ entryAt(r + 1, p)' = startMemberOfPair(e)
      /\ submissionAt(r + 1, p)' = submissionAt(r + 1, p)
  BY <1>1 DEF Progressed, HashMoved
<1>3. getOpponentIdx(p) = n
  <2>2. n \in Nat BY <1>2
  <2>3. n - 1 \in Nat /\ (n - 1) % 2 = 0 BY <2>2, OddLength
  <2>4. p \in Nat /\ p % 2 = 0 BY <2>3, Zenon
  <2>5. p + 1 = n BY <2>2
  <2>1. p \in Nat /\ p % 2 = 0 /\ p + 1 = n BY <2>4, <2>5
  <2> QED BY <2>1, OpponentFacts
<1>4. ~InRound(r + 1, getOpponentIdx(p)) /\ InRound(r + 1, getOpponentIdx(p))'
  BY <1>2, <1>3 DEF InRound
<1>5. ~Gone(r + 1, p)
  <2> SUFFICES ASSUME Gone(r + 1, p) PROVE FALSE OBVIOUS
  <2>1. AllGone(r) BY <1>1, <1>2, <1>4 DEF Race, LoneEntries
  <2> QED BY <2>1 DEF AllGone
<1>6. ~Gone(r + 1, p)' BY <1>2, <1>5 DEF Gone
<1>7. Engaged(r + 1, p)' BY <1>4, <1>6 DEF Engaged
<1>8. e \in EntryType BY <1>1, <1>2, EntryFacts DEF Dispute
<1>9. a \in Nat /\ b \in Nat /\ a <= Most /\ (a <= 1 => b >= a)
  <2>1. Shape(e, submissionOf(e), jrhConfirmed)
    BY <1>1, <1>2 DEF Dispute, Shaped, PlaceOK, submissionAt
  <2> QED BY <1>2, <1>8, <2>1, StartAnswers DEF answersGiven
<1>10. Most \in Nat BY DepthFacts DEF Most
<1>11. Engaged(r + 1, p) => a <= 1 BY <1>4 DEF Engaged
<1>12. Engaged(r + 1, p) \in BOOLEAN BY DEF Engaged
<1>13. share(r + 1, p) = a + IF Engaged(r + 1, p) THEN Most ELSE 0 BY DEF share
<1>14. share(r + 1, p)' = b + Most BY <1>7 DEF share, Most, Depth
<1> HIDE DEF a, b
<1> QED BY <1>9, <1>10, <1>11, <1>12, <1>13, <1>14

\* The hashes of other rounds that are in the race stay in it.
OthersIn(r) ==
  \A q \in Rounds : \A j \in Indices(q) :
     q # r /\ ~Gone(q, j) => submissionAt(q, j) \notin Out'

\* All accounts after a move.
LEMMA MoveFits ==
  ASSUME Dispute, Race, TypeOK', NEW r \in PlayableRounds, NEW o \in Indices(r), Held(r, o), ~Gone(r, o),
         progress(r, o), submission' = submission, jrhConfirmed' = jrhConfirmed,
         NEW f \in [Submissions -> Nat], NEW g \in [Submissions -> Nat],
         NEW D, Settles(f, g, D), submissionAt(r, o) \notin Out', OthersIn(r),
         Brings(g[submissionAt(r, o)], r, o)
  PROVE  Fits(g)'
<1>0. PICK n : n = Len(disputeRounds[r + 1]) OBVIOUS
<1>1. Progressed(r, o, n) /\ HashMoved(r, o, n) BY <1>0, MoveView
<1>2. r \in Rounds /\ r + 1 \in Rounds /\ r # r + 1 BY RoundFacts
<1>3. \A s \in Submissions : g[s] \in Nat /\ f[s] \in Nat /\ g[s] <= f[s]
  BY DropFacts DEF Settles, Dropped
<1>4. ASSUME NEW q \in Rounds, NEW j \in Indices(q)', Held(q, j)'
      PROVE  g[submissionAt(q, j)'] <= share(q, j)'
  <2>1. CASE q = r + 1 /\ j = n
    <3>1. submissionAt(q, j)' = submissionAt(r, o) BY <1>1, <2>1 DEF HashMoved
    <3>2. submissionAt(r, o) \in Submissions BY <1>2, HeldFacts DEF Dispute, Struct
    <3> QED BY <1>0, <1>1, <1>3, <2>1, <3>1, <3>2, MovedFits
  <2>2. CASE ~(q = r + 1 /\ j = n)
    <3>1. j \in Indices(q) BY <1>1, <2>2 DEF HashMoved
    <3>2. ~(q = r /\ j = o) /\ submissionAt(q, j)' = submissionAt(q, j)
      BY <1>1, <1>4, <3>1 DEF HashMoved, Held
    <3>3. Held(q, j) /\ submissionAt(q, j) \in Submissions
      BY <1>4, <3>1, <3>2, HeldFacts DEF Held, Dispute, Struct
    <3>4. CASE q = r + 1 /\ n % 2 = 1 /\ j = n - 1
      <4>1. f[submissionAt(q, j)] <= share(q, j) BY <3>1, <3>3 DEF Settles, Fits
      <4>2. ~Gone(q, j) => submissionAt(q, j) \notin Out' BY <1>2, <3>1, <3>4 DEF OthersIn
      <4>3. f[submissionAt(q, j)] <= share(q, j)'
        BY <1>0, <1>1, <1>3, <3>3, <3>4, <4>1, <4>2, PartnerFits
      <4>4. share(q, j)' \in Nat
        <5>1. answersGiven(q, j)' \in Nat /\ Most \in Nat
          BY <1>4, AnswersNatNext, DepthFacts DEF Most
        <5>2. Engaged(q, j)' \in BOOLEAN BY DEF Engaged
        <5>3. share(q, j)' = answersGiven(q, j)' + IF Engaged(q, j)' THEN Most ELSE 0
          BY DEF share, Most, Depth
        <5> QED BY <5>1, <5>2, <5>3
      <4>5. g[submissionAt(q, j)] <= f[submissionAt(q, j)] BY <1>3, <3>3
      <4>6. g[submissionAt(q, j)] \in Nat /\ f[submissionAt(q, j)] \in Nat BY <1>3, <3>3
      <4> QED BY <3>2, <4>3, <4>4, <4>5, <4>6
    <3>5. CASE ~(q = r + 1 /\ n % 2 = 1 /\ j = n - 1)
      <4>1. entryAt(q, j)' = entryAt(q, j)
        BY <1>1, <3>1, <3>2, <3>5 DEF Progressed, Apart
      <4>2. InRound(q, getOpponentIdx(j)) => InRound(q, getOpponentIdx(j))'
        BY <1>1 DEF HashMoved, InRound
      <4>3. g[submissionAt(q, j)] <= share(q, j)' BY <3>1, <3>2, <3>3, <4>1, <4>2, KeptFits
      <4> QED BY <3>2, <4>3
    <3> QED BY <3>4, <3>5
  <2> QED BY <2>1, <2>2
<1>5. ASSUME NEW s \in Submissions PROVE g[s] <= Most \/ Placed(s)'
  <2>1. f[s] <= Most \/ Placed(s) BY DEF Settles, Fits
  <2>2. CASE f[s] <= Most
    <3>1. Most \in Nat BY DepthFacts DEF Most
    <3> QED BY <1>3, <2>2, <3>1
  <2>3. CASE Placed(s)
    <3>1. PICK q \in Rounds : \E j \in Indices(q) : submissionAt(q, j) = s BY <2>3 DEF Placed
    <3>2. PICK j \in Indices(q) : submissionAt(q, j) = s BY <3>1
    <3>3. CASE q = r /\ j = o
      <4>1. n \in Indices(r + 1)' /\ submissionAt(r + 1, n)' = s
        BY <1>1, <1>2, <3>2, <3>3 DEF HashMoved
      <4> QED BY <1>2, <4>1 DEF Placed
    <3>4. CASE ~(q = r /\ j = o)
      <4>1. j \in Indices(q)' /\ submissionAt(q, j)' = s BY <1>1, <3>2, <3>4 DEF HashMoved
      <4> QED BY <4>1 DEF Placed
    <3> QED BY <3>3, <3>4
  <2> QED BY <2>1, <2>2, <2>3
<1> QED BY <1>4, <1>5 DEF Fits, Most, Depth

\* One more in the set than in its part.
LEMMA OneLeft ==
  ASSUME NEW S, IsFiniteSet(S), NEW O, O \subseteq S, Cardinality(S) - Cardinality(O) = 1
  PROVE  \E x \in S : S \ O = {x}
<1>1. IsFiniteSet(O) /\ IsFiniteSet(S \ O) BY FS_Subset
<1>2. Cardinality(S \ O) = Cardinality(S) - Cardinality(S \cap O) BY FS_Difference
<1>3. S \cap O = O OBVIOUS
<1>4. Cardinality(S \ O) = 1 BY <1>2, <1>3
<1>5. \E x : S \ O = {x} BY <1>1, <1>4, FS_Singleton
<1> QED BY <1>5

\* When one hash is left, it is the one that is not out.
LEMMA SoleHash ==
  ASSUME Dispute', Race', Submitted' = Submitted, Sole'
  PROVE  \E x \in Submissions : Submitted \ Out' = {x}
<1>1. /\ nUniqueSubmittedHashes' = Cardinality(Submitted) /\ nInvalidatedHashes' = Cardinality(Out')
      /\ Out' \subseteq Submitted
  BY DEF Dispute, Struct, Numbered, Race, Counted, Known
<1>2. Cardinality(Submitted) - Cardinality(Out') = 1 BY <1>1 DEF Sole
<1>3. \E x \in Submitted : Submitted \ Out' = {x} BY <1>1, <1>2, FiniteSets_, OneLeft
<1> QED BY <1>3 DEF Submitted

\* Byes stay given: nothing is pushed on a round with a bye, since all of the rounds
\* before it are through.
LEMMA MoveByes ==
  ASSUME Dispute, Race, NEW r \in PlayableRounds, NEW o \in Indices(r), ~Gone(r, o),
         NEW n, HashMoved(r, o, n), Out \subseteq Out'
  PROVE  Byes \subseteq Byes'
<1>1. r \in Rounds /\ r + 1 \in Rounds /\ r < r + 1
  <2>1. r \in Rounds /\ r + 1 \in Rounds /\ r \in Nat BY RoundFacts
  <2> QED BY <2>1
<1> SUFFICES ASSUME NEW q \in Byes PROVE q \in Byes' OBVIOUS
<1>2. q \in Rounds BY DEF Byes
<1>3. PICK j \in Indices(q) : Gone(q, j) /\ ~InRound(q, getOpponentIdx(j)) BY DEF Byes
<1>4. q # r + 1
  <2> SUFFICES ASSUME q = r + 1 PROVE FALSE OBVIOUS
  <2>1. AllGone(r) BY <1>1, <1>2, <1>3 DEF Race, LoneEntries
  <2> QED BY <2>1 DEF AllGone
<1>5. j \in Indices(q)' BY <1>2 DEF HashMoved
<1>6. ~InRound(q, getOpponentIdx(j))' BY <1>2, <1>3, <1>4 DEF HashMoved, InRound
<1>7. submissionAt(q, j)' \in {submissionAt(q, j), NoSubmission} BY <1>2 DEF HashMoved
<1>8. Gone(q, j)' BY <1>3, <1>7, StaysGone
<1> QED BY <1>2, <1>5, <1>6, <1>8 DEF Byes

\* Byes stay given when nobody moves.
LEMMA LevelByes ==
  ASSUME SamePlaces, Out \subseteq Out'
  PROVE  Byes \subseteq Byes'
<1> SUFFICES ASSUME NEW q \in Byes PROVE q \in Byes' OBVIOUS
<1>1. q \in Rounds BY DEF Byes
<1>2. PICK j \in Indices(q) : Gone(q, j) /\ ~InRound(q, getOpponentIdx(j)) BY DEF Byes
<1>3. j \in Indices(q)' /\ ~InRound(q, getOpponentIdx(j))' BY <1>1, <1>2, SameIndices DEF InRound
<1>4. Gone(q, j)' BY <1>1, <1>2, StaysGone DEF SamePlaces
<1> QED BY <1>1, <1>3, <1>4 DEF Byes

\* Two hashes are through, or one with a bye, for one more entry in the next round.
LEMMA FunnelNext ==
  ASSUME TypeOK, Funnel, NEW r \in PlayableRounds, Byes \subseteq Byes',
         NEW c \in {1, 2}, c = 1 => r \in Byes' /\ r \notin Byes,
         nHashesCompletedChallengeRound' =
           [nHashesCompletedChallengeRound EXCEPT ![r] = nHashesCompletedChallengeRound[r] + c],
         \A q \in Rounds :
            /\ Len(disputeRounds'[q]) \in Nat
            /\ Len(disputeRounds'[q]) <= IF q = r + 1 THEN Len(disputeRounds[q]) + 1
                                                      ELSE Len(disputeRounds[q])
  PROVE  Funnel'
<1> SUFFICES ASSUME NEW q \in PlayableRounds
             PROVE  2 * Len(disputeRounds'[q + 1])
                      <= nHashesCompletedChallengeRound'[q] + byeOf(q)'
  BY DEF Funnel
<1>1. q \in Rounds /\ q + 1 \in Rounds /\ q \in Nat /\ r \in Rounds /\ r \in Nat BY RoundFacts
<1> DEFINE x == Len(disputeRounds[q + 1])
           y == Len(disputeRounds'[q + 1])
           h == nHashesCompletedChallengeRound[q]
<1>2. x \in Nat /\ y \in Nat /\ h \in Nat BY <1>1, IndexFacts DEF TypeOK
<1>3. 2 * x <= h + byeOf(q) BY DEF Funnel
<1>4. y <= IF q + 1 = r + 1 THEN x + 1 ELSE x BY <1>1
<1>5. nHashesCompletedChallengeRound'[q] = IF q = r THEN h + c ELSE h BY <1>1 DEF TypeOK
<1>6. byeOf(q) \in {0, 1} /\ byeOf(q)' \in {0, 1} /\ byeOf(q) <= byeOf(q)' BY DEF byeOf
<1>7. q = r /\ c = 1 => byeOf(q) = 0 /\ byeOf(q)' = 1 BY DEF byeOf
<1> HIDE DEF x, y, h
<1>8. CASE q = r
  <2>1. y <= x + 1 BY <1>4, <1>8
  <2>2. nHashesCompletedChallengeRound'[q] = h + c BY <1>5, <1>8
  <2>3. c = 1 \/ c = 2 OBVIOUS
  <2>4. 2 * y <= h + c + byeOf(q)' BY <1>2, <1>3, <1>6, <1>7, <1>8, <2>1, <2>3
  <2> QED BY <2>2, <2>4 DEF y
<1>9. CASE q # r
  <2>1. y <= x BY <1>1, <1>4, <1>9
  <2>2. nHashesCompletedChallengeRound'[q] = h BY <1>5, <1>9
  <2>3. 2 * y <= h + byeOf(q)' BY <1>2, <1>3, <1>6, <2>1
  <2> QED BY <2>2, <2>3 DEF y
<1> QED BY <1>8, <1>9

\* Byes only become more, by the new one if there is one.
LEMMA MoreByes ==
  ASSUME Byes \subseteq Byes'
  PROVE  /\ Cardinality(Byes') \in Nat
         /\ Cardinality(Byes') >= Cardinality(Byes) + 0
         /\ \A r : r \in Byes' /\ r \notin Byes => Cardinality(Byes') >= Cardinality(Byes) + 1
<1>1. IsFiniteSet(Rounds) /\ IsFiniteSet(Byes) /\ Cardinality(Byes) \in Nat BY ByesFinite
<1>2. Byes' \subseteq Rounds BY DEF Byes
<1>3. IsFiniteSet(Byes') /\ Cardinality(Byes') \in Nat BY <1>1, <1>2, FS_Subset, FS_CardinalityType
<1>4. Cardinality(Byes) <= Cardinality(Byes') BY <1>3, FS_Subset
<1>5. ASSUME NEW r, r \in Byes', r \notin Byes
      PROVE  Cardinality(Byes') >= Cardinality(Byes) + 1
  <2>1. IsFiniteSet(Byes \cup {r}) /\ Cardinality(Byes \cup {r}) = Cardinality(Byes) + 1
    BY <1>1, <1>5, FS_AddElement
  <2>2. Byes \cup {r} \subseteq Byes' BY <1>5
  <2>3. Cardinality(Byes \cup {r}) <= Cardinality(Byes') BY <1>3, <2>2, FS_Subset
  <2> QED BY <1>1, <1>3, <2>1, <2>3
<1> QED BY <1>1, <1>3, <1>4, <1>5

\* How long the rounds are after a move.
LEMMA MovedLengths ==
  ASSUME TypeOK, NEW r \in PlayableRounds, NEW o, NEW n, n = Len(disputeRounds[r + 1]),
         Progressed(r, o, n)
  PROVE  \A q \in Rounds :
            /\ Len(disputeRounds'[q]) \in Nat
            /\ Len(disputeRounds'[q]) <= IF q = r + 1 THEN Len(disputeRounds[q]) + 1
                                                      ELSE Len(disputeRounds[q])
<1> SUFFICES ASSUME NEW q \in Rounds
             PROVE  /\ Len(disputeRounds'[q]) \in Nat
                    /\ Len(disputeRounds'[q]) <= IF q = r + 1 THEN Len(disputeRounds[q]) + 1
                                                              ELSE Len(disputeRounds[q])
  OBVIOUS
<1>1. Len(disputeRounds[q]) \in Nat BY IndexFacts
<1>2. Len(disputeRounds'[q]) = IF q = r + 1 THEN n + 1 ELSE Len(disputeRounds[q]) BY DEF Progressed
<1>3. CASE q = r + 1 BY <1>1, <1>2, <1>3
<1>4. CASE q # r + 1 BY <1>1, <1>2, <1>4
<1> QED BY <1>3, <1>4

\* All accounts when nobody moves.
LEMMA QuietFits ==
  ASSUME Dispute, NEW f \in [Submissions -> Nat], NEW g \in [Submissions -> Nat],
         NEW D, Settles(f, g, D), SamePlaces,
         \A q \in Rounds : \A j \in Indices(q) : entryAt(q, j)' = entryAt(q, j)
  PROVE  Fits(g)'
<1>1. ASSUME NEW q \in Rounds, NEW j \in Indices(q)', Held(q, j)'
      PROVE  g[submissionAt(q, j)'] <= share(q, j)'
  <2>1. j \in Indices(q) BY SameIndices
  <2>2. submissionAt(q, j)' = submissionAt(q, j) BY <2>1 DEF SamePlaces
  <2>3. Held(q, j) BY <1>1, <2>2 DEF Held
  <2>4. InRound(q, getOpponentIdx(j)) => InRound(q, getOpponentIdx(j))'
    BY SameIndices DEF InRound
  <2>5. g[submissionAt(q, j)] <= share(q, j)' BY <2>1, <2>2, <2>3, <2>4, KeptFits
  <2> QED BY <2>2, <2>5
<1>2. ASSUME NEW s \in Submissions PROVE g[s] <= Most \/ Placed(s)'
  <2>1. f[s] <= Most \/ Placed(s) BY DEF Settles, Fits
  <2>2. g[s] \in Nat /\ f[s] \in Nat /\ g[s] <= f[s] BY DropFacts DEF Settles, Dropped
  <2>3. Placed(s) => Placed(s)' BY SameIndices DEF Placed, SamePlaces
  <2>4. Most \in Nat BY DepthFacts DEF Most
  <2>5. CASE f[s] <= Most BY <2>2, <2>4, <2>5
  <2> QED BY <2>1, <2>3, <2>5
<1> QED BY <1>1, <1>2 DEF Fits, Most, Depth

\* The stake that is lost.
Lost(r, i, o) ==
  stakeLost' = stakeLost + stakeOf(submissionAt(r, i))
                 + IF Level(r, i, o) THEN stakeOf(submissionAt(r, o)) ELSE 0

\* A hash that somebody submitted has a stake.
LEMMA StakeAtLeast ==
  ASSUME TypeOK, NEW s \in Submitted
  PROVE  stakeOf(s) \in Nat /\ stakeOf(s) >= MinStake
<1>1. s \in Submissions /\ submittedHashes[s] # <<>> BY DEF Submitted
<1>2. submittedHashes[s] \in Seq(Miners) BY <1>1 DEF TypeOK
<1> DEFINE n == Len(submittedHashes[s])
<1>3. n \in Nat /\ n >= 1 BY <1>1, <1>2
<1>4. MinStake \in Nat BY SubmissionAssumption
<1> HIDE DEF n
<1>5. n * MinStake \in Nat /\ n * MinStake >= MinStake
  <2>1. n - 1 \in Nat /\ (n - 1) * MinStake \in Nat BY <1>3, <1>4, Products
  <2>2. n * MinStake = (n - 1) * MinStake + MinStake BY <1>3, <1>4
  <2> DEFINE z == (n - 1) * MinStake
  <2>3. z \in Nat /\ n * MinStake = z + MinStake BY <2>1, <2>2
  <2> HIDE DEF z
  <2> QED BY <1>4, <2>3
<1> QED BY <1>5 DEF stakeOf, n

\* Every invalidation loses the stake of one submitter at least.
LEMMA SettleBurns ==
  ASSUME Dispute, Burnt, NEW r \in Rounds, NEW i \in Indices(r), NEW o, Settled(r, i, o),
         Lost(r, i, o)
  PROVE  Burnt'
<1> DEFINE a == stakeOf(submissionAt(r, i))
           b == stakeOf(submissionAt(r, o))
           v == nInvalidatedHashes
           x == MinStake * v
<1>1. submissionAt(r, i) \in Submitted /\ submissionAt(r, o) \in Submitted
  BY HeldFacts DEF Settled, Dispute, Struct
<1>2. a \in Nat /\ b \in Nat /\ a >= MinStake /\ b >= MinStake
  BY <1>1, StakeAtLeast DEF Dispute
<1>3. MinStake \in Nat /\ v \in Nat /\ stakeLost \in Nat
  BY SubmissionAssumption DEF Dispute, TypeOK
<1>4. stakeLost >= x /\ x \in Nat BY <1>3, Products DEF Burnt
<1>5. stakeLost' = stakeLost + a + IF Level(r, i, o) THEN b ELSE 0 BY DEF Lost
<1>6. nInvalidatedHashes' = v + IF Level(r, i, o) THEN 2 ELSE 1 BY DEF Settled
<1> HIDE DEF a, b, v
<1>7. MinStake * (v + 1) = x + MinStake /\ MinStake * (v + 2) = x + 2 * MinStake BY <1>3
<1> HIDE DEF x
<1>8. CASE Level(r, i, o)
  <2>1. stakeLost' = stakeLost + a + b /\ nInvalidatedHashes' = v + 2 BY <1>5, <1>6, <1>8
  <2>2. stakeLost + a + b >= x + 2 * MinStake BY <1>2, <1>3, <1>4
  <2> QED BY <1>7, <2>1, <2>2 DEF Burnt
<1>9. CASE ~Level(r, i, o)
  <2>1. stakeLost' = stakeLost + a /\ nInvalidatedHashes' = v + 1 BY <1>2, <1>3, <1>5, <1>6, <1>9
  <2>2. stakeLost + a >= x + MinStake BY <1>2, <1>3, <1>4
  <2> QED BY <1>7, <2>1, <2>2 DEF Burnt
<1> QED BY <1>8, <1>9

\* Nobody is overdue before the window has closed.
LEMMA OverdueClosed ==
  ASSUME TypeOK, Unopened, NEW r \in Rounds, NEW i \in Indices(r), timedOut(entryAt(r, i))
  PROVE  submissionWindowClosed
<1> SUFFICES ASSUME ~submissionWindowClosed PROVE FALSE OBVIOUS
<1>1. entryAt(r, i).age = 0 BY DEF Unopened
<1>2. ResponseWindow \in Nat /\ ResponseWindow >= 1
  <2>1. ResponseWindow \in Nat /\ AllEntriesAllowed \in Nat /\ ResponseWindow > AllEntriesAllowed
    BY WindowAssumption
  <2> QED BY <2>1
<1>3. entryAt(r, i).age >= ResponseWindow BY DEF timedOut
<1> QED BY <1>1, <1>2, <1>3

\* The accounts of two hashes can be settled, and with them that of a third.
LEMMA DropTwo ==
  ASSUME NEW f \in [Submissions -> Nat], NEW s \in Submissions, NEW t \in Submissions, s # t
  PROVE  \E g \in [Submissions -> Nat] :
            Dropped(f, g, {s, t}) /\ total(f) <= total(g) + 2 * Most
<1>1. Dropped(f, f, {}) BY DEF Dropped
<1>2. PICK h \in [Submissions -> Nat] : Dropped(f, h, {} \cup {s}) /\ total(f) <= total(h) + Most
  BY <1>1, DropMore
<1>3. Dropped(f, h, {s}) BY <1>2 DEF Dropped
<1>4. PICK g \in [Submissions -> Nat] :
        Dropped(f, g, {s} \cup {t}) /\ total(h) <= total(g) + Most
  BY <1>3, DropMore
<1>5. Dropped(f, g, {s, t}) BY <1>4 DEF Dropped
<1>6. total(f) \in Nat /\ total(g) \in Nat /\ total(h) \in Nat /\ Most \in Nat
  BY TotalNat, DepthFacts DEF Most
<1>7. total(f) <= total(g) + 2 * Most
  <2> HIDE DEF total
  <2> QED BY <1>2, <1>4, <1>6
<1> QED BY <1>5, <1>7

\* ... whether or not the third is one of the two.
LEMMA DropThree ==
  ASSUME NEW f \in [Submissions -> Nat], NEW s \in Submissions, NEW t \in Submissions, s # t,
         NEW x \in Submissions
  PROVE  \E g \in [Submissions -> Nat] :
            Dropped(f, g, {s, t, x}) /\ total(f) <= total(g) + 3 * Most
<1>1. PICK h \in [Submissions -> Nat] :
        Dropped(f, h, {s, t}) /\ total(f) <= total(h) + 2 * Most
  BY DropTwo
<1>2. total(f) \in Nat /\ total(h) \in Nat /\ Most \in Nat BY TotalNat, DepthFacts DEF Most
<1>3. CASE x \in {s, t}
  <2>1. Dropped(f, h, {s, t, x}) BY <1>1, <1>3 DEF Dropped
  <2>2. total(f) <= total(h) + 3 * Most BY <1>1, <1>2
  <2> QED BY <2>1, <2>2
<1>4. CASE x \notin {s, t}
  <2>1. PICK g \in [Submissions -> Nat] :
          Dropped(f, g, {s, t} \cup {x}) /\ total(h) <= total(g) + Most
    BY <1>1, <1>4, DropMore
  <2>2. Dropped(f, g, {s, t, x}) BY <2>1 DEF Dropped
  <2>3. total(g) \in Nat BY TotalNat
  <2>4. total(f) <= total(g) + 3 * Most BY <1>1, <1>2, <2>1, <2>3
  <2> QED BY <2>2, <2>4
<1> QED BY <1>3, <1>4

\* What settling a pair is, as far as rewards go.
LEMMA SettleRewards ==
  ASSUME Dispute, Rewarded, NEW r \in PlayableRounds, NEW i \in Indices(r), invalidateHash(r, i),
         NEW o, o = getOpponentIdx(i)
  PROVE  /\ Settled(r, i, o) /\ SettleFrame /\ rewardResponder
         /\ Early' /\ (Contested' <=> Contested) /\ Burnt'
         /\ Out \subseteq Out'
         /\ submissionAt(r, i) \in Submissions /\ submissionAt(r, o) \in Submissions
         /\ submissionAt(r, i) # submissionAt(r, o)
<1>1. Settled(r, i, o) /\ SettleFrame BY SettleFacts
<1>2. rewardResponder /\ Lost(r, i, o) BY DEF invalidateHash, Lost, Level
<1>3. r \in Rounds /\ TypeOK /\ Early /\ Burnt BY RoundFacts DEF Dispute, Rewarded
<1>4. submissionWindowClosed BY <1>1, <1>3, OverdueClosed DEF Settled, Early
<1>5. Early' /\ (Contested' <=> Contested) BY <1>1, <1>2, <1>3, <1>4, EarlyNext DEF SettleFrame
<1>6. Burnt' BY <1>1, <1>2, <1>3, SettleBurns
<1>7. Out \subseteq Out'
  <2>1. Out \subseteq Submissions BY DEF Out
  <2>2. \A s \in Submissions : s \in Out => s \in Out' BY <1>1 DEF Settled
  <2> QED BY <2>1, <2>2
<1>8. /\ o \in Indices(r) /\ o # i /\ Held(r, i) /\ Held(r, o) BY <1>1 DEF Settled
<1>9. submissionAt(r, i) \in Submissions /\ submissionAt(r, o) \in Submissions
  BY <1>3, <1>8, HeldFacts DEF Dispute, Struct
<1>10. submissionAt(r, i) # submissionAt(r, o)
  BY <1>3, <1>8 DEF Dispute, Struct, OnePlace
<1> QED BY <1>1, <1>2, <1>5, <1>6, <1>7, <1>9, <1>10

\* Invalidating both keeps the books,
LEMMA LevelRewarded ==
  ASSUME Dispute, Race', Rewarded, NEW r \in PlayableRounds, NEW i \in Indices(r), invalidateHash(r, i),
         NEW o, o = getOpponentIdx(i), Level(r, i, o)
  PROVE  Rewarded'
<1>1. /\ Settled(r, i, o) /\ SettleFrame /\ rewardResponder
      /\ Early' /\ (Contested' <=> Contested) /\ Burnt'
      /\ Out \subseteq Out'
      /\ submissionAt(r, i) \in Submissions /\ submissionAt(r, o) \in Submissions
      /\ submissionAt(r, i) # submissionAt(r, o)
  BY SettleRewards
<1>2. Dispute' BY LevelDispute
<1>3. /\ disputeRounds' = disputeRounds
      /\ nInvalidatedHashes' = nInvalidatedHashes + 2
      /\ \A s \in Submissions :
           s \in Out' <=> s \in Out \/ s \in {submissionAt(r, i), submissionAt(r, o)}
      /\ nHashesCompletedChallengeRound' =
           [nHashesCompletedChallengeRound EXCEPT ![r] = nHashesCompletedChallengeRound[r] + 2]
      /\ submission' = submission /\ Submitted' = Submitted
      /\ nUniqueSubmittedHashes' = nUniqueSubmittedHashes
  BY <1>1 DEF Settled, SettleFrame
<1>4. \A q \in Rounds : \A j \in Indices(q) :
        entryAt(q, j)' = entryAt(q, j) /\ submissionAt(q, j)' = submissionAt(q, j)
  BY <1>3 DEF entryAt, submissionAt, submissionOf
<1>5. SamePlaces BY <1>3, <1>4 DEF SamePlaces
<1>6. Byes \subseteq Byes' BY <1>1, <1>5, LevelByes
<1>7. Funnel'
  <2>1. \A q \in Rounds :
            /\ Len(disputeRounds'[q]) \in Nat
            /\ Len(disputeRounds'[q]) <= IF q = r + 1 THEN Len(disputeRounds[q]) + 1
                                                      ELSE Len(disputeRounds[q])
    BY <1>3, IndexFacts DEF Dispute
  <2>2. TypeOK /\ Funnel BY DEF Dispute, Rewarded
  <2>3. 2 \in {1, 2} /\ 2 # 1 OBVIOUS
  <2> QED BY <1>3, <1>6, <2>1, <2>2, <2>3, FunnelNext
<1>8. Booked'
  <2> SUFFICES ASSUME Contested
               PROVE  \E g \in [Submissions -> Nat] : \E n \in Nat : Fits(g)' /\ Covers(g, n)'
    BY <1>1 DEF Booked
  <2>1. PICK f \in [Submissions -> Nat] : \E n \in Nat : Fits(f) /\ Covers(f, n)
    BY DEF Rewarded, Booked
  <2>2. PICK n \in Nat : Fits(f) /\ Covers(f, n) BY <2>1
  <2>3. PICK s \in Submissions : s = submissionAt(r, i) BY <1>1
  <2>4. PICK t \in Submissions : t = submissionAt(r, o) BY <1>1
  <2>5. PICK x \in Submissions : Sole' => Submitted \ Out' = {x}
    <3>1. CASE Sole' BY <1>2, <1>3, <3>1, SoleHash
    <3>2. CASE ~Sole' BY <2>3, <3>2
    <3> QED BY <3>1, <3>2
  <2>6. PICK g \in [Submissions -> Nat] :
          Dropped(f, g, {s, t, x}) /\ total(f) <= total(g) + 3 * Most
    BY <1>1, <2>3, <2>4, DropThree
  <2>7. Settles(f, g, {s, t, x})
    <3>1. Out' \subseteq Out \cup {s, t, x}
      <4>1. Out' \subseteq Submissions BY DEF Out
      <4> QED BY <1>3, <2>3, <2>4, <4>1
    <3>2. Sole' => Submitted \ Out' \subseteq {s, t, x} BY <2>5
    <3> QED BY <2>2, <2>6, <3>1, <3>2 DEF Settles
  <2>8. Fits(g)' BY <1>4, <1>5, <2>7, QuietFits
  <2>9. Covers(g, n + 1)'
    <3>1. Cardinality(Byes') >= Cardinality(Byes) + 0 /\ Cardinality(Byes') \in Nat
      BY <1>6, MoreByes
    <3>2. 3 * Most \in Int /\ 3 * Most + 1 <= 0 + Loss * 2 BY DepthFacts DEF Loss, Most
    <3> QED BY <1>1, <1>3, <2>2, <2>6, <3>1, <3>2, CoversNext DEF Dispute
  <2> QED BY <2>8, <2>9
<1> QED BY <1>1, <1>7, <1>8 DEF Rewarded

\* and so does invalidating the one that is behind.
LEMMA AheadRewarded ==
  ASSUME Dispute, Race, Race', settledAgain' = 0, Rewarded, NEW r \in PlayableRounds, NEW i \in Indices(r), invalidateHash(r, i),
         NEW o, o = getOpponentIdx(i), ~Level(r, i, o)
  PROVE  Rewarded'
<1>1. /\ Settled(r, i, o) /\ SettleFrame /\ rewardResponder
      /\ Early' /\ (Contested' <=> Contested) /\ Burnt'
      /\ Out \subseteq Out'
      /\ submissionAt(r, i) \in Submissions /\ submissionAt(r, o) \in Submissions
      /\ submissionAt(r, i) # submissionAt(r, o)
  BY SettleRewards
<1>2. Dispute' BY AheadDispute
<1>3. /\ progress(r, o) /\ o \in Indices(r) /\ Held(r, o) /\ ~Gone(r, o)
      /\ nInvalidatedHashes' = nInvalidatedHashes + 1
      /\ \A s \in Submissions : s \in Out' <=> s \in Out \/ s = submissionAt(r, i)
      /\ nHashesCompletedChallengeRound' =
           [nHashesCompletedChallengeRound EXCEPT ![r] = nHashesCompletedChallengeRound[r] + 2]
      /\ submission' = submission /\ Submitted' = Submitted /\ jrhConfirmed' = jrhConfirmed
      /\ nUniqueSubmittedHashes' = nUniqueSubmittedHashes
  BY <1>1 DEF Settled, SettleFrame
<1>0. r \in Rounds BY RoundFacts
<1>4. PICK l : l = Len(disputeRounds[r + 1]) OBVIOUS
<1>5. Progressed(r, o, l) /\ HashMoved(r, o, l) BY <1>3, <1>4, MoveView
<1>6. Byes \subseteq Byes' BY <1>1, <1>3, <1>5, MoveByes
<1>7. Funnel'
  <2>1. \A q \in Rounds :
            /\ Len(disputeRounds'[q]) \in Nat
            /\ Len(disputeRounds'[q]) <= IF q = r + 1 THEN Len(disputeRounds[q]) + 1
                                                      ELSE Len(disputeRounds[q])
    BY <1>4, <1>5, MovedLengths DEF Dispute
  <2>2. TypeOK /\ Funnel BY DEF Dispute, Rewarded
  <2>3. 2 \in {1, 2} /\ 2 # 1 OBVIOUS
  <2> QED BY <1>3, <1>6, <2>1, <2>2, <2>3, FunnelNext
<1>8. submissionAt(r, o) \in Submitted \ Out'
  <2>1. submissionAt(r, o) \in Submitted BY <1>0, <1>3, HeldFacts DEF Dispute, Struct
  <2>2. submissionAt(r, o) \notin Out BY <1>3 DEF Gone
  <2> QED BY <1>1, <1>3, <2>1, <2>2
<1>9. OthersIn(r)
  <2> SUFFICES ASSUME NEW q \in Rounds, NEW j \in Indices(q), q # r, ~Gone(q, j),
                      submissionAt(q, j) \in Out'
               PROVE  FALSE
    BY DEF OthersIn
  <2>1. Held(q, j) /\ submissionAt(q, j) \notin Out BY DEF Gone, Held
  <2>2. submissionAt(q, j) \in Submissions BY <2>1, HeldFacts DEF Dispute, Struct
  <2>3. submissionAt(q, j) = submissionAt(r, i) BY <1>3, <2>1, <2>2
  <2> QED BY <1>0, <2>1, <2>3 DEF Dispute, Struct, OnePlace
<1>10. Booked'
  <2> SUFFICES ASSUME Contested
               PROVE  \E g \in [Submissions -> Nat] : \E n \in Nat : Fits(g)' /\ Covers(g, n)'
    BY <1>1 DEF Booked
  <2>1. PICK f \in [Submissions -> Nat] : \E n \in Nat : Fits(f) /\ Covers(f, n)
    BY DEF Rewarded, Booked
  <2>2. PICK n \in Nat : Fits(f) /\ Covers(f, n) BY <2>1
  <2>3. PICK s \in Submissions : s = submissionAt(r, i) BY <1>1
  <2>4. PICK t \in Submissions : t = submissionAt(r, o) BY <1>1
  <2>5. Sole' => Submitted \ Out' = {t} BY <1>2, <1>3, <1>8, <2>4, SoleHash
  <2>6. PICK g \in [Submissions -> Nat] :
          Dropped(f, g, {s, t}) /\ total(f) <= total(g) + 2 * Most
    BY <1>1, <2>3, <2>4, DropTwo
  <2>7. Settles(f, g, {s, t})
    <3>1. Out' \subseteq Out \cup {s, t}
      <4>1. Out' \subseteq Submissions BY DEF Out
      <4> QED BY <1>3, <2>3, <2>4, <4>1
    <3>2. Sole' => Submitted \ Out' \subseteq {s, t} BY <2>5
    <3> QED BY <2>2, <2>6, <3>1, <3>2 DEF Settles
  <2>8. Brings(g[t], r, o)
    <3> DEFINE a == answersGiven(r, o)
    <3>1. a \in Nat /\ Most \in Nat BY <1>0, <1>3, AnswersNat, DepthFacts DEF Dispute, Most
    <3>2. f[t] <= share(r, o) BY <1>0, <1>3, <2>2, <2>4 DEF Fits
    <3>3. f[t] \in Nat /\ f[t] <= a + Most
      <4>1. Engaged(r, o) \in BOOLEAN BY DEF Engaged
      <4>2. share(r, o) = a + IF Engaged(r, o) THEN Most ELSE 0 BY DEF share
      <4> QED BY <3>1, <3>2, <4>1, <4>2
    <3>4. g[t] = drop(f[t]) BY <2>6 DEF Dropped
    <3>5. g[t] \in Nat /\ g[t] <= a BY <3>1, <3>3, <3>4, DropFacts
    <3> HIDE DEF a
    <3>6. (a <= 1 /\ ~Sole') \in BOOLEAN BY <3>1 DEF Sole
    <3>7. g[t] <= a + IF a <= 1 /\ ~Sole' THEN Most ELSE 0 BY <3>1, <3>5, <3>6
    <3> QED BY <3>7 DEF Brings, a
  <2>9. Fits(g)'
    <3>1. TypeOK' BY <1>2 DEF Dispute
    <3> QED BY <1>3, <1>8, <1>9, <2>4, <2>7, <2>8, <3>1, MoveFits
  <2>10. Covers(g, n + 1)'
    <3>1. Cardinality(Byes') >= Cardinality(Byes) + 0 /\ Cardinality(Byes') \in Nat
      BY <1>6, MoreByes
    <3>2. 2 * Most \in Int /\ 2 * Most + 1 <= 0 + Loss * 1 BY DepthFacts DEF Loss, Most
    <3> QED BY <1>1, <1>3, <2>2, <2>6, <3>1, <3>2, CoversNext DEF Dispute
  <2> QED BY <2>9, <2>10
<1> QED BY <1>1, <1>7, <1>10 DEF Rewarded

\* Only the last entry of a round can be without opponent.
LEMMA LoneIsLast ==
  ASSUME TypeOK, NEW q \in Rounds, NEW i \in Indices(q), ~InRound(q, getOpponentIdx(i))
  PROVE  i = Len(disputeRounds[q]) - 1
<1> DEFINE l == Len(disputeRounds[q])
<1>1. l \in Nat /\ i \in Nat /\ i < l BY IndexFacts
<1>2. PICK o : o = getOpponentIdx(i) OBVIOUS
<1>3. ~(o \in Nat /\ o < l) BY <1>2, IndexFacts
<1> HIDE DEF l
<1>4. CASE i % 2 = 0
  <2>1. o = i + 1 BY <1>1, <1>2, <1>4, OpponentFacts
  <2>2. i = l - 1 BY <1>1, <1>3, <2>1
  <2> QED BY <2>2 DEF l
<1>5. CASE i % 2 = 1
  <2>1. o = i - 1 BY <1>1, <1>2, <1>5, OpponentFacts
  <2>2. i >= 1 BY <1>1, <1>5, Parity
  <2> QED BY <1>1, <1>3, <2>1, <2>2
<1> QED BY <1>1, <1>4, <1>5, Parity

\* A bye keeps the books: it is paid for once in its round.
LEMMA ByeRewarded ==
  ASSUME Dispute, Race, settledAgain' = 0, Rewarded, NEW r \in PlayableRounds, giveBye(r)
  PROVE  Rewarded'
<1>1. PICK o : o = Len(disputeRounds[r]) - 1 OBVIOUS
<1>2. Bye(r, o) /\ SettleFrame BY <1>1, ByeFacts
<1>3. /\ o \in Indices(r) /\ Held(r, o) /\ ~Gone(r, o) /\ ~InRound(r, getOpponentIdx(o))
      /\ progress(r, o) /\ submissionWindowClosed
      /\ nHashesCompletedChallengeRound' =
           [nHashesCompletedChallengeRound EXCEPT ![r] = nHashesCompletedChallengeRound[r] + 1]
      /\ stakeLost' = stakeLost /\ timesInvalidated' = timesInvalidated
      /\ nInvalidatedHashes' = nInvalidatedHashes
  BY <1>2 DEF Bye
<1>4. /\ submission' = submission /\ jrhConfirmed' = jrhConfirmed /\ Submitted' = Submitted
      /\ nUniqueSubmittedHashes' = nUniqueSubmittedHashes /\ windowAge' = windowAge
  BY <1>2 DEF SettleFrame
<1>5. rewardResponder BY DEF giveBye
<1>6. TypeOK /\ Early /\ Burnt /\ Funnel /\ r \in Rounds /\ r + 1 \in Rounds /\ r # r + 1
  BY RoundFacts DEF Dispute, Rewarded
<1>7. TypeOK' BY ByeDispute DEF Dispute
<1>8. Early' /\ (Contested' <=> Contested) BY <1>3, <1>4, <1>5, <1>6, EarlyNext
<1>9. Burnt' BY <1>3, <1>6 DEF Burnt
<1>10. Out' = Out BY <1>3 DEF Out
<1>11. PICK l : l = Len(disputeRounds[r + 1]) OBVIOUS
<1>12. Progressed(r, o, l) /\ HashMoved(r, o, l) BY <1>3, <1>4, <1>11, MoveView
<1>13. Byes \subseteq Byes' BY <1>3, <1>10, <1>12, MoveByes
<1>14. r \notin Byes
  <2> SUFFICES ASSUME r \in Byes PROVE FALSE OBVIOUS
  <2>1. PICK i \in Indices(r) : Gone(r, i) /\ ~InRound(r, getOpponentIdx(i)) BY DEF Byes
  <2>2. i = o BY <1>1, <1>6, <2>1, LoneIsLast
  <2> QED BY <1>3, <2>1, <2>2
<1>15. r \in Byes'
  <2>1. o \in Indices(r)' /\ submissionAt(r, o)' = NoSubmission
    BY <1>3, <1>6, <1>12 DEF HashMoved
  <2>2. ~InRound(r, getOpponentIdx(o))'
    BY <1>3, <1>6, <1>12 DEF HashMoved, InRound
  <2>3. Gone(r, o)' BY <2>1 DEF Gone
  <2> QED BY <1>6, <2>1, <2>2, <2>3 DEF Byes
<1>16. Funnel'
  <2>1. \A q \in Rounds :
            /\ Len(disputeRounds'[q]) \in Nat
            /\ Len(disputeRounds'[q]) <= IF q = r + 1 THEN Len(disputeRounds[q]) + 1
                                                      ELSE Len(disputeRounds[q])
    BY <1>6, <1>11, <1>12, MovedLengths
  <2>2. 1 \in {1, 2} OBVIOUS
  <2> QED BY <1>3, <1>6, <1>13, <1>14, <1>15, <2>1, <2>2, FunnelNext
<1>17. OthersIn(r)
  <2> SUFFICES ASSUME NEW q \in Rounds, NEW j \in Indices(q), q # r, ~Gone(q, j),
                      submissionAt(q, j) \in Out'
               PROVE  FALSE
    BY DEF OthersIn
  <2> QED BY <1>10 DEF Gone
<1>18. submissionAt(r, o) \notin Out' BY <1>3, <1>10 DEF Gone
<1>19. Sole' <=> Sole BY <1>3, <1>4 DEF Sole
<1>20. Booked'
  <2> SUFFICES ASSUME Contested
               PROVE  \E g \in [Submissions -> Nat] : \E n \in Nat : Fits(g)' /\ Covers(g, n)'
    BY <1>8 DEF Booked
  <2>1. PICK f \in [Submissions -> Nat] : \E n \in Nat : Fits(f) /\ Covers(f, n)
    BY DEF Rewarded, Booked
  <2>2. PICK n \in Nat : Fits(f) /\ Covers(f, n) BY <2>1
  <2>3. Settles(f, f, {})
    <3>1. Dropped(f, f, {}) BY DEF Dropped
    <3> QED BY <1>10, <1>19, <2>2, <3>1 DEF Settles
  <2>4. PICK t \in Submissions : t = submissionAt(r, o)
    BY <1>3, <1>6, HeldFacts DEF Dispute, Struct
  <2>5. Brings(f[t], r, o)
    <3> DEFINE a == answersGiven(r, o)
    <3>1. f[t] <= share(r, o) BY <1>3, <1>6, <2>2, <2>4 DEF Fits
    <3>2. Engaged(r, o) => a <= 1 /\ ~Sole' BY <1>3, <1>19 DEF Engaged
    <3>3. a \in Nat /\ Most \in Nat BY <1>3, <1>6, AnswersNat, DepthFacts DEF Most
    <3>4. f[t] \in Nat OBVIOUS
    <3>5. Engaged(r, o) \in BOOLEAN BY DEF Engaged
    <3>6. share(r, o) = a + IF Engaged(r, o) THEN Most ELSE 0 BY DEF share
    <3>7. (a <= 1 /\ ~Sole') \in BOOLEAN BY <3>3 DEF Sole
    <3> HIDE DEF a
    <3>8. f[t] <= a + IF a <= 1 /\ ~Sole' THEN Most ELSE 0
      BY <3>1, <3>2, <3>3, <3>4, <3>5, <3>6, <3>7
    <3> QED BY <3>8 DEF Brings, a
  <2>6. Fits(f)'
    BY <1>3, <1>4, <1>7, <1>17, <1>18, <2>3, <2>4, <2>5, MoveFits
  <2>7. Covers(f, n + 1)'
    <3>1. Cardinality(Byes') >= Cardinality(Byes) + 1 /\ Cardinality(Byes') \in Nat
      BY <1>13, <1>14, <1>15, MoreByes
    <3>2. 0 + 1 <= 1 + Loss * 0 BY DepthFacts DEF Loss, Most
    <3>3. total(f) <= total(f) + 0 BY TotalNat
    <3>4. nInvalidatedHashes' = nInvalidatedHashes + 0 BY <1>3, <1>6 DEF TypeOK
    <3> QED BY <1>4, <1>5, <1>6, <2>2, <3>1, <3>2, <3>3, <3>4, CoversNext
  <2> QED BY <2>6, <2>7
<1> QED BY <1>8, <1>9, <1>16, <1>20 DEF Rewarded

\* A step that pays nothing and settles nothing.
BooksKept ==
  /\ rewardsPaidOut' = rewardsPaidOut /\ stakeLost' = stakeLost
  /\ nInvalidatedHashes' = nInvalidatedHashes /\ timesInvalidated' = timesInvalidated
  /\ nHashesCompletedChallengeRound' = nHashesCompletedChallengeRound

\* Byes are given after the window, in rounds with entries.
LEMMA NoByes ==
  ASSUME Dispute, Race, ~submissionWindowClosed \/ nUniqueSubmittedHashes = 0
  PROVE  Byes = {}
<1> SUFFICES ASSUME NEW q \in Byes PROVE FALSE OBVIOUS
<1>1. q \in Rounds BY DEF Byes
<1>2. PICK j \in Indices(q) : Gone(q, j) /\ ~InRound(q, getOpponentIdx(j)) BY DEF Byes
<1>3. Len(disputeRounds[q]) > 1 /\ submissionWindowClosed
  BY <1>1, <1>2 DEF Race, LoneEntries
<1>4. Len(disputeRounds[q]) \in Nat BY <1>1, IndexFacts DEF Dispute
<1>5. Len(disputeRounds[q]) > 0 BY <1>3, <1>4
<1>6. nUniqueSubmittedHashes > 0 BY <1>1, <1>5 DEF Race, RoundsBehind
<1> QED BY <1>3, <1>6

\* The funnel of a step that settles nothing.
LEMMA FunnelKept ==
  ASSUME TypeOK, Funnel, BooksKept, Byes \subseteq Byes',
         \A q \in PlayableRounds : Len(disputeRounds'[q + 1]) = Len(disputeRounds[q + 1])
  PROVE  Funnel'
<1> SUFFICES ASSUME NEW q \in PlayableRounds
             PROVE  2 * Len(disputeRounds'[q + 1])
                      <= nHashesCompletedChallengeRound'[q] + byeOf(q)'
  BY DEF Funnel
<1>1. byeOf(q) \in {0, 1} /\ byeOf(q)' \in {0, 1} /\ byeOf(q) <= byeOf(q)' BY DEF byeOf
<1>2. 2 * Len(disputeRounds[q + 1]) <= nHashesCompletedChallengeRound[q] + byeOf(q)
  BY DEF Funnel
<1>3. q \in Rounds /\ q + 1 \in Rounds BY RoundFacts
<1>4. nHashesCompletedChallengeRound[q] \in Nat /\ Len(disputeRounds[q + 1]) \in Nat
  BY <1>3, IndexFacts DEF TypeOK
<1>5. /\ nHashesCompletedChallengeRound'[q] = nHashesCompletedChallengeRound[q]
      /\ Len(disputeRounds'[q + 1]) = Len(disputeRounds[q + 1])
  BY DEF BooksKept
<1> QED BY <1>1, <1>2, <1>4, <1>5

\* The accounts of a step that pays nothing and moves nobody.
LEMMA BookedKept ==
  ASSUME Dispute, Booked, BooksKept, SamePlaces, Contested' => Contested,
         nUniqueSubmittedHashes' = nUniqueSubmittedHashes,
         \A q \in Rounds : \A j \in Indices(q) : answersGiven(q, j)' = answersGiven(q, j)
  PROVE  Booked'
<1> SUFFICES ASSUME Contested
             PROVE  \E g \in [Submissions -> Nat] : \E n \in Nat : Fits(g)' /\ Covers(g, n)'
  BY DEF Booked
<1>1. PICK f \in [Submissions -> Nat] : \E n \in Nat : Fits(f) /\ Covers(f, n) BY DEF Booked
<1>2. PICK n \in Nat : Fits(f) /\ Covers(f, n) BY <1>1
<1>3. Out' = Out /\ (Sole' <=> Sole) BY DEF BooksKept, Out, Sole
<1>4. Unmoved BY <1>3, SameByes
<1>5. Fits(f)'
  <2>1. ASSUME NEW q \in Rounds, NEW j \in Indices(q)', Held(q, j)'
        PROVE  f[submissionAt(q, j)'] <= share(q, j)'
    <3>1. j \in Indices(q) /\ (InRound(q, getOpponentIdx(j))' <=> InRound(q, getOpponentIdx(j)))
      <4>1. j \in Indices(q) BY SameIndices
      <4>2. Indices(q)' = Indices(q) BY SameIndices
      <4> QED BY <4>1, <4>2 DEF InRound
    <3>2. submissionAt(q, j)' = submissionAt(q, j) BY <3>1 DEF SamePlaces
    <3>3. Held(q, j) BY <2>1, <3>2 DEF Held
    <3>4. f[submissionAt(q, j)] <= share(q, j) BY <1>2, <3>1, <3>3 DEF Fits
    <3>5. Gone(q, j)' <=> Gone(q, j) BY <1>4, <3>1 DEF Unmoved
    <3>6. answersGiven(q, j)' = answersGiven(q, j) BY <3>1
    <3>7. Engaged(q, j)' <=> Engaged(q, j) BY <1>3, <3>1, <3>5, <3>6 DEF Engaged
    <3>8. Most' = Most BY DEF Most, Depth
    <3>9. share(q, j)' = share(q, j)
      <4>1. CASE Engaged(q, j) BY <3>6, <3>7, <3>8, <4>1 DEF share
      <4>2. CASE ~Engaged(q, j) BY <3>6, <3>7, <3>8, <4>2 DEF share
      <4> QED BY <4>1, <4>2
    <3> QED BY <3>2, <3>4, <3>9
  <2>2. ASSUME NEW s \in Submissions PROVE f[s] <= Most \/ Placed(s)'
    BY <1>2, <1>4 DEF Fits, Unmoved
  <2> QED BY <2>1, <2>2 DEF Fits, Most, Depth
<1>6. Covers(f, n)'
  <2>1. disputeRewardSize' = disputeRewardSize BY SameReward
  <2>2. total(startAccounts)' = total(startAccounts) /\ total(f)' = total(f) /\ Loss' = Loss
    BY DEF total, startAccounts, Most, Depth, Loss
  <2>3. Cardinality(Byes') = Cardinality(Byes) BY <1>4 DEF Unmoved
  <2> QED BY <1>2, <2>1, <2>2, <2>3 DEF Covers, BooksKept
<1> QED BY <1>5, <1>6

\* Submissions are made while nothing is paid.
LEMMA SubmitRewarded ==
  ASSUME Dispute, Race, Rewarded, NEW m \in Miners, NEW s \in Proposes[m], NEW x \in 1 .. Entries[m],
         submitRootHash(m, s, x)
  PROVE  Rewarded'
<1>1. TypeOK /\ Early /\ Burnt /\ Funnel BY DEF Dispute, Rewarded
<1>2. BooksKept /\ windowAge' = windowAge /\ (~submissionWindowClosed \/ nUniqueSubmittedHashes = 0)
  BY DEF submitRootHash, BooksKept, outcomeVars, submissionPossible
<1>3. Out' = Out /\ (submissionWindowClosed' <=> submissionWindowClosed)
  BY <1>2 DEF BooksKept, Out, submissionWindowClosed
<1>4. nUniqueSubmittedHashes' \in {nUniqueSubmittedHashes, nUniqueSubmittedHashes + 1}
  BY DEF submitRootHash
<1>5. ~Contested' /\ ~Contested BY <1>2, <1>3, <1>4 DEF Contested
<1>6. Byes \subseteq Byes' BY <1>2, NoByes
<1>7. /\ \A q \in PlayableRounds : Len(disputeRounds'[q + 1]) = Len(disputeRounds[q + 1])
      /\ ~submissionWindowClosed =>
           \A q \in Rounds : \A j \in Indices(q)' : entryAt(q, j)'.age = 0
  <2>1. CASE newHash(s)
    <3>0. PICK n : n = Len(disputeRounds[0]) OBVIOUS
    <3>1. /\ \A q \in Rounds : \A j \in Indices(q) : entryAt(q, j)' = entryAt(q, j)
          /\ entryAt(0, n)' = newEntry(m)
          /\ \A q \in Rounds :
               Len(disputeRounds'[q]) = IF q = 0 THEN n + 1 ELSE Len(disputeRounds[q])
          /\ \A q \in Rounds : \A j :
               j \in Indices(q)' <=> j \in Indices(q) \/ (q = 0 /\ j = n)
      BY <2>1, <3>0, SubmitNewView
    <3>2. ASSUME NEW q \in PlayableRounds PROVE q + 1 \in Rounds /\ q + 1 # 0
      <4>1. q \in Nat /\ q + 1 \in Rounds BY RoundFacts
      <4> QED BY <4>1
    <3>3. ~submissionWindowClosed => newEntry(m).age = 0 BY DEF newEntry, DeletedEntry
    <3> QED BY <1>1, <3>1, <3>2, <3>3 DEF Early, Unopened
  <2>2. CASE ~newHash(s)
    <3>1. disputeRounds' = disputeRounds BY <2>2 DEF submitRootHash
    <3>2. \A q \in Rounds : Indices(q)' = Indices(q) /\ \A j : entryAt(q, j)' = entryAt(q, j)
      BY <3>1 DEF entryAt, Indices
    <3> QED BY <1>1, <3>1, <3>2 DEF Early, Unopened
  <2> QED BY <2>1, <2>2
<1>8. Funnel' BY <1>1, <1>2, <1>6, <1>7, FunnelKept
<1>9. Unopened' BY <1>3, <1>7 DEF Unopened
<1>10. Early' BY <1>1, <1>2, <1>3, <1>5, <1>9 DEF Early, BooksKept
<1>11. Burnt' BY <1>1, <1>2 DEF Burnt, BooksKept
<1> QED BY <1>5, <1>8, <1>10, <1>11 DEF Rewarded, Booked

\* Steps that change the outcome only keep the books.
LEMMA SameRewarded ==
  ASSUME Dispute, Rewarded, Same
  PROVE  Rewarded'
<1>1. BooksKept /\ disputeRounds' = disputeRounds /\ submission' = submission
      /\ nUniqueSubmittedHashes' = nUniqueSubmittedHashes /\ windowAge' = windowAge
  BY DEF Same, BooksKept
<1>2. \A q \in Rounds : \A j : entryAt(q, j)' = entryAt(q, j) /\ submissionAt(q, j)' = submissionAt(q, j)
  BY <1>1 DEF entryAt, submissionAt, submissionOf
<1>3. SamePlaces BY <1>1, <1>2 DEF SamePlaces
<1>4. Out' = Out /\ (submissionWindowClosed' <=> submissionWindowClosed)
  BY <1>1 DEF BooksKept, Out, submissionWindowClosed
<1>5. Contested' <=> Contested BY <1>1, <1>4 DEF Contested
<1>6. Byes' = Byes BY <1>3, <1>4, SameByes DEF Unmoved
<1>7. Funnel'
  <2>1. TypeOK /\ Funnel BY DEF Dispute, Rewarded
  <2>2. Byes \subseteq Byes' BY <1>6
  <2>3. \A q \in PlayableRounds : Len(disputeRounds'[q + 1]) = Len(disputeRounds[q + 1]) BY <1>1
  <2> QED BY <1>1, <2>1, <2>2, <2>3, FunnelKept
<1>8. Booked'
  <2>1. \A q \in Rounds : \A j \in Indices(q) : answersGiven(q, j)' = answersGiven(q, j)
    BY <1>2 DEF answersGiven
  <2>2. Booked BY DEF Rewarded
  <2> QED BY <1>1, <1>3, <1>5, <2>1, <2>2, BookedKept
<1>9. Unopened' BY <1>2, <1>3, <1>4, SameIndices DEF Unopened, Rewarded, Early
<1>10. Early' BY <1>1, <1>4, <1>5, <1>9 DEF Early, Rewarded, BooksKept
<1>11. Burnt' BY <1>1 DEF Burnt, BooksKept, Rewarded
<1> QED BY <1>7, <1>8, <1>10, <1>11 DEF Rewarded

\* When the window closes on two hashes or more, every account is opened.
LEMMA WindowCloses ==
  ASSUME Dispute, Dispute', Race, Early, SamePlaces, BooksKept, ~submissionWindowClosed,
         nUniqueSubmittedHashes' = nUniqueSubmittedHashes, jrhConfirmed' = jrhConfirmed,
         Submitted' = Submitted,
         \A q \in Rounds : \A j \in Indices(q) : entryAt(q, j)' = entryAt(q, j)
  PROVE  Booked'
<1> SUFFICES ASSUME Contested'
             PROVE  \E g \in [Submissions -> Nat] : \E n \in Nat : Fits(g)' /\ Covers(g, n)'
  BY DEF Booked
<1>1. TypeOK /\ Known /\ Shaped BY DEF Dispute, Struct
<1>2. jrhConfirmed = {} /\ Out = {} BY <1>1 DEF Known, Early
<1>3. Out' = Out /\ rewardsPaidOut' = 0
  BY DEF BooksKept, Out, Early, Contested
<1>4. ~Sole'
  <2>1. nInvalidatedHashes = Cardinality(Out) BY DEF Race, Counted
  <2>2. nInvalidatedHashes = 0 BY <1>2, <2>1, FS_EmptySet
  <2>3. nUniqueSubmittedHashes >= 2 /\ nUniqueSubmittedHashes \in Nat
    BY <1>1 DEF Contested, TypeOK
  <2> QED BY <2>2, <2>3 DEF Sole, BooksKept
<1>5. PICK f \in [Submissions -> Nat] : f = startAccounts BY StartTotal
<1>6. \A x \in Submissions : f[x] = Most BY <1>5 DEF startAccounts
<1>7. Most \in Nat BY DepthFacts DEF Most
<1>8. Fits(f)'
  <2>1. ASSUME NEW q \in Rounds, NEW j \in Indices(q)', Held(q, j)'
        PROVE  f[submissionAt(q, j)'] <= share(q, j)'
    <3>1. j \in Indices(q) BY SameIndices
    <3>2. entryAt(q, j).challengeStepCompleted = 0
      <4>1. Shape(entryAt(q, j), submissionAt(q, j), jrhConfirmed)
        BY <1>1, <3>1 DEF Shaped, PlaceOK
      <4> QED BY <1>2, <4>1 DEF Shape
    <3>3. answersGiven(q, j)' = 0
      <4>1. answersGiven(q, j)' = given(0) BY <3>1, <3>2 DEF answersGiven
      <4> QED BY <4>1, GivenFacts
    <3>4. submissionAt(q, j)' = submissionAt(q, j) BY <3>1 DEF SamePlaces
    <3>5. Held(q, j) BY <2>1, <3>4 DEF Held
    <3>6. submissionAt(q, j) \in Submissions /\ submissionAt(q, j) # NoSubmission
      BY <1>1, <3>1, <3>5, HeldFacts
    <3>7. ~Gone(q, j)' BY <1>2, <1>3, <3>4, <3>6 DEF Gone
    <3>8. Engaged(q, j)' BY <1>4, <3>3, <3>7 DEF Engaged
    <3>9. share(q, j)' = 0 + Most BY <3>3, <3>8 DEF share, Most, Depth
    <3>10. f[submissionAt(q, j)] = Most BY <1>6, <3>6
    <3> QED BY <1>7, <3>4, <3>9, <3>10
  <2>2. ASSUME NEW s \in Submissions PROVE f[s] <= Most BY <1>6, <1>7
  <2> QED BY <2>1, <2>2 DEF Fits, Most, Depth
<1>9. Covers(f, 0)'
  <2>1. disputeRewardSize' \in Nat
    <3>1. disputeRewardSize' = disputeRewardSize BY SameReward
    <3> QED BY <1>1, <3>1, RewardNat
  <2>2. rewardsPaidOut' <= disputeRewardSize' * 0
    <3>1. PICK v \in Nat : v = disputeRewardSize' BY <2>1
    <3>2. v * 0 = 0 OBVIOUS
    <3>3. disputeRewardSize' * 0 = 0 BY <3>1, <3>2
    <3> QED BY <1>3, <3>3
  <2>3. total(startAccounts)' = total(startAccounts) /\ total(f)' = total(f) /\ Loss' = Loss
    BY DEF total, startAccounts, Most, Depth, Loss
  <2>4. total(f) = total(startAccounts) BY <1>5
  <2>5. Cardinality(Byes') \in Nat
    <3>1. IsFiniteSet(Rounds) /\ Byes' \subseteq Rounds BY ByesFinite DEF Byes
    <3> QED BY <3>1, FS_Subset, FS_CardinalityType
  <2>6. Loss * nInvalidatedHashes' \in Nat
    <3>1. Loss \in Nat BY DepthFacts DEF Loss, Most
    <3>2. nInvalidatedHashes' \in Nat BY DEF Dispute, TypeOK
    <3> QED BY <3>1, <3>2, Products
  <2>7. total(startAccounts) \in Nat BY StartTotal
  <2>8. 0 + total(startAccounts) <= Cardinality(Byes') + Loss * nInvalidatedHashes' + total(f)
    BY <2>4, <2>5, <2>6, <2>7
  <2> QED BY <2>2, <2>3, <2>8 DEF Covers
<1> QED BY <1>8, <1>9

\* Time keeps the books.
LEMMA TickRewarded ==
  ASSUME Dispute, Race, Rewarded, Tick
  PROVE  Rewarded'
<1>1. Dispute' /\ SamePlaces BY TickDispute
<1>2. TypeOK /\ Early /\ Burnt /\ Funnel /\ Booked BY DEF Dispute, Rewarded
<1>3. /\ BooksKept /\ nUniqueSubmittedHashes' = nUniqueSubmittedHashes
      /\ jrhConfirmed' = jrhConfirmed /\ submittedHashes' = submittedHashes
      /\ windowAge' = IF windowAge <= MiningWindow THEN windowAge + 1 ELSE windowAge
  BY DEF Tick, submitVars, outcomeVars, BooksKept
<1>4. submissionWindowClosed => submissionWindowClosed'
  <2>1. windowAge \in Nat /\ MiningWindow \in Nat BY <1>2, WindowAssumption DEF TypeOK
  <2> QED BY <1>3, <2>1 DEF submissionWindowClosed
<1>5. Out' = Out /\ Submitted' = Submitted BY <1>3 DEF BooksKept, Out, Submitted
<1>6. \A q \in Rounds : \A j \in Indices(q) :
        entryAt(q, j)' = IF submissionWindowClosed THEN older(entryAt(q, j)) ELSE entryAt(q, j)
  BY <1>2, TickView
<1>7. Byes' = Byes BY <1>1, <1>5, SameByes DEF Unmoved
<1>8. Funnel'
  <2>1. Byes \subseteq Byes' BY <1>7
  <2>2. \A q \in PlayableRounds : Len(disputeRounds'[q + 1]) = Len(disputeRounds[q + 1])
    BY <1>1, RoundFacts DEF SamePlaces
  <2> QED BY <1>2, <1>3, <2>1, <2>2, FunnelKept
<1>9. Booked'
  <2>1. CASE submissionWindowClosed
    <3>1. Contested' => Contested BY <1>3, <2>1 DEF Contested
    <3>2. \A q \in Rounds : \A j \in Indices(q) : answersGiven(q, j)' = answersGiven(q, j)
      <4> SUFFICES ASSUME NEW q \in Rounds, NEW j \in Indices(q)
                   PROVE  answersGiven(q, j)' = answersGiven(q, j)
        OBVIOUS
      <4>1. entryAt(q, j) \in EntryType BY <1>2, EntryFacts
      <4>2. older(entryAt(q, j)).challengeStepCompleted = entryAt(q, j).challengeStepCompleted
        BY <4>1, OlderFacts DEF Alike
      <4>3. entryAt(q, j)' = older(entryAt(q, j)) BY <1>6, <2>1
      <4> QED BY <4>2, <4>3 DEF answersGiven
    <3> QED BY <1>1, <1>2, <1>3, <3>1, <3>2, BookedKept
  <2>2. CASE ~submissionWindowClosed
    <3>1. \A q \in Rounds : \A j \in Indices(q) : entryAt(q, j)' = entryAt(q, j)
      BY <1>6, <2>2
    <3> QED BY <1>1, <1>2, <1>3, <1>5, <2>2, <3>1, WindowCloses
  <2> QED BY <2>1, <2>2
<1>10. Unopened'
  <2> SUFFICES ASSUME ~submissionWindowClosed', NEW q \in Rounds, NEW j \in Indices(q)'
               PROVE  entryAt(q, j)'.age = 0
    BY DEF Unopened
  <2>1. ~submissionWindowClosed /\ j \in Indices(q) BY <1>1, <1>4, SameIndices
  <2> QED BY <1>2, <1>6, <2>1 DEF Early, Unopened
<1>11. ~Contested' => rewardsPaidOut' = 0
  <2>1. Contested => Contested' BY <1>3, <1>4 DEF Contested
  <2> QED BY <1>2, <1>3, <2>1 DEF Early, BooksKept
<1>12. Early' BY <1>2, <1>4, <1>5, <1>10, <1>11 DEF Early
<1>13. Burnt' BY <1>2, <1>3 DEF Burnt, BooksKept
<1> QED BY <1>8, <1>9, <1>12, <1>13 DEF Rewarded

\* The books are in order before the first submission,
LEMMA InitRewarded ==
  ASSUME Init
  PROVE  Rewarded
<1>1. \A r \in Rounds : Len(disputeRounds[r]) = 0 BY DEF Init
<1>2. \A r \in Rounds : Indices(r) = {} BY <1>1 DEF Indices
<1>3. Out = {} BY DEF Init, Out
<1>4. ~Contested BY DEF Init, Contested
<1>5. Early BY <1>2, <1>3 DEF Init, Early, Unopened
<1>6. Burnt
  <2>1. MinStake \in Nat BY SubmissionAssumption
  <2> QED BY <2>1 DEF Init, Burnt
<1>7. Funnel
  <2> SUFFICES ASSUME NEW r \in PlayableRounds
               PROVE  2 * Len(disputeRounds[r + 1])
                        <= nHashesCompletedChallengeRound[r] + byeOf(r)
    BY DEF Funnel
  <2>1. r \in Rounds /\ r + 1 \in Rounds BY RoundFacts
  <2>2. Len(disputeRounds[r + 1]) = 0 /\ nHashesCompletedChallengeRound[r] = 0
    BY <1>1, <2>1 DEF Init
  <2>3. byeOf(r) \in {0, 1} BY DEF byeOf
  <2> QED BY <2>2, <2>3
<1> QED BY <1>4, <1>5, <1>6, <1>7 DEF Rewarded, Booked

\* what was settled again stays so,
LEMMA NotAgain ==
  ASSUME Dispute, [Next]_cycleVars, settledAgain' = 0
  PROVE  settledAgain = 0 /\ Race /\ Race'
<1>1. settledAgain = 0
  <2>1. ASSUME NEW m \in Miners, NEW s \in Proposes[m], NEW x \in 1 .. Entries[m],
               submitRootHash(m, s, x)
        PROVE  settledAgain' = settledAgain
    BY <2>1 DEF submitRootHash, outcomeVars
  <2>2. ASSUME NEW r \in Rounds, NEW i \in Indices(r), AnswerAt(r, i)
        PROVE  settledAgain' = settledAgain
    BY <2>2 DEF AnswerAt, confirmJustificationRootHash, respondToBinarySearchForChallenge,
                confirmBinarySearchResult, respondToChallenge, outcomeVars
  <2>3. ASSUME NEW r \in PlayableRounds, giveBye(r) PROVE settledAgain = 0
    BY <2>3, ByeFacts DEF Bye
  <2>4. ASSUME NEW r \in PlayableRounds, NEW i \in Indices(r), invalidateHash(r, i)
        PROVE  settledAgain = 0
    BY <2>4, SettleFacts DEF Settled
  <2>5. ASSUME NEW r \in Rounds, confirmNewHash(r) PROVE settledAgain' = settledAgain
    BY <2>5 DEF confirmNewHash, outcomeVars
  <2>6. Tick => settledAgain' = settledAgain BY DEF Tick, outcomeVars
  <2>7. Same => settledAgain' = settledAgain BY DEF Same
  <2> QED BY <2>1, <2>2, <2>3, <2>4, <2>5, <2>6, <2>7, Steps
<1> QED BY <1>1, NextDispute DEF Dispute, Struct

\* and every step keeps them, unless it settles something again.
LEMMA NextRewarded ==
  ASSUME Dispute, settledAgain = 0 => Rewarded, [Next]_cycleVars
  PROVE  (settledAgain = 0 => Rewarded)'
<1> SUFFICES ASSUME settledAgain' = 0 PROVE Rewarded' OBVIOUS
<1>0. Rewarded /\ Race /\ Race' BY NotAgain
<1>1. ASSUME NEW m \in Miners, NEW s \in Proposes[m], NEW x \in 1 .. Entries[m],
             submitRootHash(m, s, x)
      PROVE  Rewarded'
  BY <1>0, <1>1, SubmitRewarded
<1>2. ASSUME NEW r \in Rounds, NEW i \in Indices(r), AnswerAt(r, i) PROVE Rewarded'
  BY <1>0, <1>2, AnswerRewarded
<1>3. ASSUME NEW r \in PlayableRounds, giveBye(r) PROVE Rewarded'
  BY <1>0, <1>3, ByeRewarded
<1>4. ASSUME NEW r \in PlayableRounds, NEW i \in Indices(r), invalidateHash(r, i) PROVE Rewarded'
  <2>1. PICK o : o = getOpponentIdx(i) OBVIOUS
  <2>2. CASE Level(r, i, o) BY <1>0, <1>4, <2>1, <2>2, LevelRewarded
  <2>3. CASE ~Level(r, i, o) BY <1>0, <1>4, <2>1, <2>3, AheadRewarded
  <2> QED BY <2>2, <2>3
<1>5. ASSUME NEW r \in Rounds, confirmNewHash(r) PROVE Rewarded'
  <2>1. Same BY <1>5, ConfirmDispute
  <2> QED BY <1>0, <2>1, SameRewarded
<1>6. ASSUME Tick PROVE Rewarded' BY <1>0, <1>6, TickRewarded
<1>7. ASSUME Same PROVE Rewarded' BY <1>0, <1>7, SameRewarded
<1> QED BY <1>1, <1>2, <1>3, <1>4, <1>5, <1>6, <1>7, Steps

\* Every round has half as many entries as the one before it, rounded up.
LEMMA RoundsHalve ==
  ASSUME Dispute, settledAgain = 0, Funnel, nUniqueSubmittedHashes >= 1,
         NEW m \in Nat, pow2[m] >= nUniqueSubmittedHashes, NEW r \in Rounds
  PROVE  /\ r <= m => Len(disputeRounds[r]) <= pow2[m - r]
         /\ r >= m => Len(disputeRounds[r]) <= 1
<1> DEFINE Fine(q) == /\ q <= m => Len(disputeRounds[q]) <= pow2[m - q]
                      /\ q >= m => Len(disputeRounds[q]) <= 1
           Bad == {q \in Rounds : ~Fine(q)}
<1>1. ASSUME Bad # {} PROVE FALSE
  <2>1. PICK q \in Bad : \A p \in Bad : q <= p
    <3>1. Bad \subseteq Nat BY RoundFacts
    <3> HIDE DEF Bad
    <3> QED BY <1>1, <3>1, LeastNatural
  <2>2. q \in Rounds /\ q \in Nat /\ Len(disputeRounds[q]) \in Nat /\ ~Fine(q)
    BY <2>1, RoundFacts, IndexFacts DEF Dispute
  <2>3. q # 0
    <3> SUFFICES ASSUME q = 0 PROVE Fine(q) BY <2>2
    <3>1. Len(disputeRounds[0]) = nUniqueSubmittedHashes BY DEF Dispute, Struct, Numbered
    <3>2. m - 0 = m /\ (0 >= m => m = 0) OBVIOUS
    <3>3. pow2[0] = 1 BY Pow2Def
    <3>4. nUniqueSubmittedHashes \in Nat /\ pow2[m] \in Nat BY Pow2Def DEF Dispute, TypeOK
    <3>5. 0 >= m => nUniqueSubmittedHashes <= 1 BY <3>2, <3>3, <3>4
    <3> QED BY <3>1, <3>2, <3>4, <3>5
  <2>4. q - 1 \in PlayableRounds /\ q - 1 \in Rounds /\ q - 1 \in Nat /\ q - 1 < q
        /\ (q - 1) + 1 = q
    <3>1. Cardinality(Submissions) \in Nat BY FiniteSets_, FS_CardinalityType
    <3> QED BY <2>2, <2>3, <3>1 DEF Rounds, PlayableRounds
  <2>5. Fine(q - 1)
    <3>1. ~(q <= q - 1) BY <2>2
    <3> QED BY <2>1, <2>4, <3>1
  <2> DEFINE l == Len(disputeRounds[q])
             k == Len(disputeRounds[q - 1])
  <2>6. l \in Nat /\ k \in Nat BY <2>2, <2>4, IndexFacts DEF Dispute
  <2>7. 2 * l <= k + 1
    <3>1. 2 * Len(disputeRounds[(q - 1) + 1])
            <= nHashesCompletedChallengeRound[q - 1] + byeOf(q - 1)
      BY <2>4 DEF Funnel
    <3>2. nHashesCompletedChallengeRound[q - 1] <= k
      BY <2>4, CompletedFollows DEF CompletedWithinRound
    <3>3. nHashesCompletedChallengeRound[q - 1] \in Nat BY <2>4 DEF Dispute, TypeOK
    <3>4. byeOf(q - 1) \in {0, 1} BY DEF byeOf
    <3>5. 2 * l <= nHashesCompletedChallengeRound[q - 1] + byeOf(q - 1) BY <2>4, <3>1
    <3> HIDE DEF l, k
    <3> QED BY <2>6, <3>2, <3>3, <3>4, <3>5
  <2>8. CASE q <= m
    <3>1. m - q \in Nat /\ m - (q - 1) = (m - q) + 1 /\ q - 1 <= m BY <2>2, <2>8
    <3>2. k <= pow2[(m - q) + 1] BY <2>5, <3>1
    <3>3. pow2[(m - q) + 1] = 2 * pow2[m - q] /\ pow2[m - q] \in Nat BY <3>1, Pow2Def
    <3>4. l <= pow2[m - q]
      <4> DEFINE x == pow2[m - q]
      <4>1. x \in Nat /\ k <= 2 * x BY <3>2, <3>3
      <4> HIDE DEF x, l, k
      <4>2. l <= x BY <2>6, <2>7, <4>1
      <4> QED BY <4>2 DEF x
    <3>5. q >= m => l <= 1
      <4> SUFFICES ASSUME q >= m PROVE l <= 1 OBVIOUS
      <4>1. m - q = 0 BY <2>2, <2>8
      <4> QED BY <3>4, <4>1, Pow2Def
    <3> QED BY <2>2, <3>4, <3>5
  <2>9. CASE ~(q <= m)
    <3>1. q - 1 >= m BY <2>2, <2>9
    <3>2. k <= 1 BY <2>5, <3>1
    <3>3. l <= 1
      <4> HIDE DEF l, k
      <4> QED BY <2>6, <2>7, <3>2
    <3> QED BY <2>2, <2>9, <3>3
  <2> QED BY <2>8, <2>9
<1> QED BY <1>1

\* So there are as many byes as the logarithm of the number of hashes says.
LEMMA FewByes ==
  ASSUME Dispute, settledAgain = 0, Funnel, nUniqueSubmittedHashes >= 1,
         NEW m \in Nat, pow2[m] >= nUniqueSubmittedHashes
  PROVE  Cardinality(Byes) <= m /\ Cardinality(Byes) \in Nat
<1>1. ASSUME NEW q \in Byes PROVE q \in 0 .. m - 1
  <2>1. q \in Rounds /\ q \in Nat BY RoundFacts DEF Byes
  <2>2. PICK j \in Indices(q) : Gone(q, j) /\ ~InRound(q, getOpponentIdx(j)) BY <1>1 DEF Byes
  <2>3. Len(disputeRounds[q]) > 1 BY <2>1, <2>2 DEF Dispute, Struct, Race, LoneEntries
  <2>4. Len(disputeRounds[q]) \in Nat BY <2>1, IndexFacts DEF Dispute
  <2>5. ~(q >= m)
    <3> SUFFICES ASSUME q >= m PROVE FALSE OBVIOUS
    <3>1. Len(disputeRounds[q]) <= 1 BY <2>1, RoundsHalve
    <3> QED BY <2>3, <2>4, <3>1
  <2> QED BY <2>1, <2>5
<1>2. Byes \subseteq 0 .. m - 1 BY <1>1
<1>3. 0 \in Int /\ m - 1 \in Int OBVIOUS
<1>4. IsFiniteSet(0 .. m - 1) /\ Cardinality(0 .. m - 1) = m
  <2>1. IsFiniteSet(0 .. m - 1)
        /\ Cardinality(0 .. m - 1) = IF 0 > m - 1 THEN 0 ELSE (m - 1) - 0 + 1
    BY <1>3, FS_Interval
  <2> QED BY <2>1
<1>5. Cardinality(Byes) <= Cardinality(0 .. m - 1) BY <1>2, <1>4, FS_Subset
<1> QED BY <1>4, <1>5, ByesFinite

\* When one hash is left no pair is live, and every account is back where it started.
LEMMA SoleAccounts ==
  ASSUME Dispute, Race, Sole, NEW f \in [Submissions -> Nat], Fits(f)
  PROVE  total(f) <= total(startAccounts)
<1>1. Most \in Nat BY DepthFacts DEF Most
<1>2. ASSUME NEW s \in Submissions PROVE f[s] <= Most
  <2>1. CASE Placed(s)
    <3>1. PICK r \in Rounds : \E i \in Indices(r) : submissionAt(r, i) = s BY <2>1 DEF Placed
    <3>2. PICK i \in Indices(r) : submissionAt(r, i) = s BY <3>1
    <3>3. Held(r, i) BY <3>2, NoHash DEF Held
    <3>4. f[s] <= share(r, i) BY <3>2, <3>3 DEF Fits
    <3>5. ~Engaged(r, i)
      <4> SUFFICES ASSUME Engaged(r, i) PROVE FALSE OBVIOUS
      <4>1. PICK o : o = getOpponentIdx(i) OBVIOUS
      <4>2. InRound(r, o) /\ ~Gone(r, i) BY <4>1 DEF Engaged
      <4>3. i \in Nat /\ o \in Indices(r) BY <4>2, IndexFacts DEF Dispute
      <4>4. ~Gone(r, o) BY <4>1, <4>2 DEF Race, PairsTogether
      <4>5. Held(r, o) BY <4>4 DEF Gone, Held
      <4>6. submissionAt(r, i) \in Submitted \ Out BY <3>3, <4>2, HeldFacts DEF Gone, Dispute, Struct
      <4>7. submissionAt(r, o) \in Submitted \ Out
        BY <4>3, <4>4, <4>5, HeldFacts DEF Gone, Dispute, Struct
      <4>8. /\ Cardinality(Submitted) - Cardinality(Out) = 1 /\ Out \subseteq Submitted
        BY DEF Dispute, Struct, Numbered, Race, Counted, Known, Sole
      <4>9. \E x \in Submitted : Submitted \ Out = {x} BY <4>8, FiniteSets_, OneLeft
      <4>10. submissionAt(r, i) = submissionAt(r, o) BY <4>6, <4>7, <4>9
      <4>11. i = o BY <3>3, <4>3, <4>10 DEF Dispute, Struct, OnePlace
      <4> QED BY <4>1, <4>3, <4>11, OpponentFacts
    <3>6. share(r, i) = answersGiven(r, i) + 0 BY <3>5 DEF share
    <3>7. answersGiven(r, i) \in Nat /\ answersGiven(r, i) <= Most BY AnswersNat DEF Dispute
    <3>8. f[s] \in Nat OBVIOUS
    <3> QED BY <1>1, <3>4, <3>6, <3>7, <3>8
  <2>2. CASE ~Placed(s) BY <2>2 DEF Fits
  <2> QED BY <2>1, <2>2
<1>3. startAccounts \in [Submissions -> Nat] BY StartTotal
<1>4. \A s \in Submissions : f[s] \in Int /\ startAccounts[s] \in Int /\ f[s] <= startAccounts[s]
  <2> SUFFICES ASSUME NEW s \in Submissions
               PROVE  f[s] \in Int /\ startAccounts[s] \in Int /\ f[s] <= startAccounts[s]
    OBVIOUS
  <2>1. startAccounts[s] = Most BY DEF startAccounts
  <2>2. f[s] \in Nat OBVIOUS
  <2> QED BY <1>1, <1>2, <2>1, <2>2
<1> QED BY <1>4, FiniteSets_, SumMonotone DEF total

\* Dividing and multiplying again gives no more than there was.
LEMMA DivideBack ==
  ASSUME NEW u \in Nat, NEW d \in Nat, d > 0, NEW n \in Nat, n <= d
  PROVE  (u \div d) * n <= u
<1> DEFINE w == u \div d
<1>1. w \in Nat /\ d * w <= u
  <2>1. w \in Int /\ u = d * w + (u % d) /\ u % d \in 0 .. d - 1 OBVIOUS
  <2> QED OBVIOUS
<1> HIDE DEF w
<1>2. PICK k \in Nat : d = n + k
  <2>1. d - n \in Nat /\ d = n + (d - n) OBVIOUS
  <2> QED BY <2>1
<1>3. d * w = n * w + k * w /\ n * w \in Nat /\ k * w \in Nat /\ n * w = w * n BY <1>1, <1>2, Products
<1> DEFINE a == n * w
           b == k * w
<1>4. a \in Nat /\ b \in Nat /\ a + b <= u BY <1>1, <1>3
<1>5. a <= u
  <2> HIDE DEF a, b
  <2> QED BY <1>4
<1> QED BY <1>3, <1>5 DEF w

\* The invariant implies RewardsCovered.
LEMMA RewardsCoveredFollows ==
  ASSUME Dispute, settledAgain = 0, Rewarded
  PROVE  RewardsCovered
<1> SUFFICES ASSUME Sole PROVE rewardsPaidOut <= stakeLost BY DEF RewardsCovered, Sole
<1> DEFINE u == nUniqueSubmittedHashes
           v == nInvalidatedHashes
<1>1. TypeOK /\ Early /\ Burnt /\ Funnel /\ Booked BY DEF Dispute, Rewarded
<1>2. u \in Nat /\ v \in Nat /\ u - v = 1 /\ u >= 1 /\ v = u - 1 BY <1>1 DEF TypeOK, Sole
<1>3. MinStake \in Nat /\ MinStake * v \in Nat BY <1>2, SubmissionAssumption, Products
<1>4. stakeLost \in Nat /\ stakeLost >= MinStake * v BY <1>1 DEF TypeOK, Burnt
<1>5. CASE ~Contested
  <2>1. rewardsPaidOut = 0 BY <1>1, <1>5 DEF Early
  <2> QED BY <1>4, <2>1
<1>6. CASE Contested
  <2>1. PICK f \in [Submissions -> Nat] : \E n \in Nat : Fits(f) /\ Covers(f, n)
    BY <1>1, <1>6 DEF Booked
  <2>2. PICK n \in Nat : Fits(f) /\ Covers(f, n) BY <2>1
  <2>3. PICK m \in Nat : m = log2Ceiling(u) /\ pow2[m] >= u BY <1>2, Log2
  <2>4. Cardinality(Byes) <= m /\ Cardinality(Byes) \in Nat BY <1>1, <1>2, <2>3, FewByes
  <2>5. total(f) <= total(startAccounts) BY <2>2, SoleAccounts DEF Dispute, Struct
  <2>6. total(f) \in Nat /\ total(startAccounts) \in Nat BY TotalNat, StartTotal
  <2>7. Loss \in Nat /\ Loss * v \in Nat /\ v * Loss = Loss * v
    <3>1. Loss \in Nat BY DepthFacts DEF Loss, Most
    <3> QED BY <1>2, <3>1, Products
  <2> DEFINE d == m + Loss * v
  <2>8. d \in Nat BY <2>7
  <2>9. n <= d
    <3>1. n + total(startAccounts) <= Cardinality(Byes) + Loss * v + total(f)
      BY <2>2 DEF Covers
    <3> DEFINE c == Cardinality(Byes)
               x == total(startAccounts)
               y == total(f)
               z == Loss * v
    <3>2. /\ c <= m /\ c \in Nat /\ y <= x /\ x \in Nat /\ y \in Nat /\ z \in Nat
          /\ n + x <= c + z + y
      BY <2>4, <2>5, <2>6, <2>7, <3>1
    <3> HIDE DEF c, x, y, z
    <3>3. n <= m + z BY <3>2
    <3> QED BY <3>3 DEF z
  <2>10. rewardDenominator = d
    <3>1. 2 * (3 + log2Ceiling(NLeaves)) + 1 = Loss BY DEF Loss, Most, Depth
    <3>2. rewardDenominator = m + (u - 1) * Loss BY <2>3, <3>1 DEF rewardDenominator
    <3>3. (u - 1) * Loss = Loss * v BY <1>2, <2>7
    <3> QED BY <3>2, <3>3
  <2>11. disputeRewardSize = (MinStake * v) \div d
    <3>1. ~(u <= 1) BY <1>2, <1>6 DEF Contested
    <3> QED BY <1>2, <2>10, <3>1 DEF disputeRewardSize
  <2>12. d > 0
    <3>1. m > 0 BY <1>2, <1>6, <2>3, Log2 DEF Contested
    <3> QED BY <2>7, <3>1
  <2> HIDE DEF d
  <2>13. ((MinStake * v) \div d) * n <= MinStake * v
    <3> DEFINE y == MinStake * v
    <3>1. y \in Nat BY <1>3
    <3> HIDE DEF y
    <3>2. (y \div d) * n <= y BY <2>8, <2>9, <2>12, <3>1, DivideBack
    <3> QED BY <3>2 DEF y
  <2>14. rewardsPaidOut <= disputeRewardSize * n BY <2>2 DEF Covers
  <2>15. disputeRewardSize * n <= MinStake * v BY <2>11, <2>13
  <2>16. disputeRewardSize * n \in Nat BY <1>1, RewardNat, Products
  <2>17. rewardsPaidOut \in Nat BY <1>1 DEF TypeOK
  <2> DEFINE a == disputeRewardSize * n
             b == MinStake * v
  <2>18. a \in Nat /\ b \in Nat /\ rewardsPaidOut <= a /\ a <= b /\ stakeLost >= b
    BY <1>3, <1>4, <2>14, <2>15, <2>16
  <2> HIDE DEF a, b
  <2> QED BY <1>4, <2>17, <2>18
<1> QED BY <1>5, <1>6

(***************************************************************************)
(* When one hash is left and nothing was settled again, the rewards that   *)
(* were paid are no more than the stake that was lost, whatever the number *)
(* of hashes and of leaves and even where both sides of a pair answer: the *)
(* subtraction in confirmNewHash does not revert.                          *)
(***************************************************************************)
THEOREM RewardsCoveredHolds == Spec => []RewardsCovered
<1>1. Init => Dispute /\ (settledAgain = 0 => Rewarded) BY InitDispute, InitRewarded
<1>2. Dispute /\ (settledAgain = 0 => Rewarded) /\ [Next]_cycleVars
        => (Dispute /\ (settledAgain = 0 => Rewarded))'
  BY NextDispute, NextRewarded
<1>3. Dispute /\ (settledAgain = 0 => Rewarded) => RewardsCovered
  BY RewardsCoveredFollows DEF RewardsCovered
<1> QED BY <1>1, <1>2, <1>3, PTL DEF Spec
=============================================================================
