------------------------------ MODULE SetLemmas ------------------------------
(***************************************************************************)
(* What the proofs about several components need of numbers and finite     *)
(* sets, stated about sets where the library's induction theorems take an  *)
(* operator.                                                               *)
(***************************************************************************)
EXTENDS Integers, FiniteSets, FiniteSetsExt, FiniteSetTheorems, WellFoundedInduction, TLAPS

(* Every nonempty set of naturals has a least element: of the intervals    *)
(* that end below its members, one has no strict subset among the others.  *)
LEMMA LeastNatural ==
  ASSUME NEW T, T \subseteq Nat, T # {}
  PROVE  \E x \in T : \A y \in T : x <= y
<1> DEFINE below(x) == 0 .. (x - 1)
           B == {below(x) : x \in T}
<1>1. B \subseteq FiniteSubsetsOf(Nat) /\ B # {}
  <2>1. \A x \in T : IsFiniteSet(below(x)) /\ below(x) \subseteq Nat
    BY FS_Interval
  <2> QED BY <2>1 DEF FiniteSubsetsOf
<1>2. \E b \in B : \A c \in B : ~ (<<c, b>> \in StrictSubsetOrdering(Nat))
  <2> HIDE DEF B
  <2> QED BY <1>1, FS_StrictSubsetOrderingWellFounded, WFMin
<1>3. PICK x \in T :
        \A c \in B : ~ (<<c, below(x)>> \in StrictSubsetOrdering(Nat))
  BY <1>2
<1>4. ASSUME NEW y \in T, y < x PROVE FALSE
  <2>1. below(y) \in SUBSET below(x) /\ below(y) # below(x)
    <3>1. y \in below(x) /\ y \notin below(y) BY <1>4
    <3>2. below(y) \subseteq below(x) BY <1>4
    <3> QED BY <3>1, <3>2
  <2>2. <<below(y), below(x)>> \in StrictSubsetOrdering(Nat)
    BY <2>1 DEF StrictSubsetOrdering
  <2> QED BY <2>2, <1>3
<1> QED BY <1>4

(* A nonempty set of numbers up to n has a greatest element. *)
LEMMA GreatestUpTo ==
  ASSUME NEW n \in Nat, NEW T, T \subseteq 0 .. n, T # {}
  PROVE  \E x \in T : \A y \in T : x >= y
<1> DEFINE U == {n - x : x \in T}
<1>1. U \subseteq Nat /\ U # {}
  <2>1. \A x \in T : n - x \in Nat OBVIOUS
  <2> QED BY <2>1
<1>2. PICK u \in U : \A v \in U : u <= v
  <2> HIDE DEF U
  <2> QED BY <1>1, LeastNatural
<1>3. PICK x \in T : u = n - x OBVIOUS
<1>4. ASSUME NEW y \in T PROVE x >= y
  <2>1. n - x <= n - y BY <1>2, <1>3
  <2> QED BY <2>1
<1> QED BY <1>4

(* Max and Min are what their names say of such sets. *)
LEMMA MaxUpTo ==
  ASSUME NEW n \in Nat, NEW T, T \subseteq 0 .. n, T # {}
  PROVE  Max(T) \in T /\ \A y \in T : Max(T) >= y
BY GreatestUpTo, Zenon DEF Max

\* The smaller end of a set of naturals needs no bound.
LEMMA MinNatural ==
  ASSUME NEW T, T \subseteq Nat, T # {}
  PROVE  Min(T) \in T /\ \A y \in T : Min(T) <= y
BY LeastNatural, Zenon DEF Min

(***************************************************************************)
(* Sums over finite sets (SumFunctionOnSet of the community modules).      *)
(***************************************************************************)

\* What holds of a set if it holds of its strict subsets holds of every finite
\* set: of the sets it fails for, one has no other among its subsets.
LEMMA SmallestSubset ==
  ASSUME NEW S, IsFiniteSet(S), NEW Bad, Bad \subseteq SUBSET S, Bad # {}
  PROVE  \E T \in Bad : \A U \in Bad : U \subseteq T => U = T
<1>1. Bad \subseteq FiniteSubsetsOf(S)
  BY FS_Subset DEF FiniteSubsetsOf
<1>2. PICK T \in Bad : \A U \in Bad : ~ (<<U, T>> \in StrictSubsetOrdering(S))
  BY <1>1, FS_StrictSubsetOrderingWellFounded, WFMin
<1>3. ASSUME NEW U \in Bad, U \subseteq T, U # T PROVE FALSE
  <2>1. <<U, T>> \in StrictSubsetOrdering(S) BY <1>3 DEF StrictSubsetOrdering
  <2> QED BY <1>2, <2>1
<1> QED BY <1>3

\* The element that a sum takes first.
first(T) == CHOOSE x \in T : TRUE

\* What the sum over each subset of S is worked out in.
SumTable(f, S, h) ==
  h = [T \in SUBSET S |-> IF T = {} THEN 0 ELSE f[first(T)] + h[T \ {first(T)}]]

\* The sum over a set is the entry of its table.
LEMMA SumOfTable ==
  ASSUME NEW f, NEW S, NEW h, SumTable(f, S, h)
  PROVE  \E g : SumTable(f, S, g) /\ SumFunctionOnSet(f, S) = g[S]
BY DEF SumFunctionOnSet, FoldFunctionOnSet, MapThenFoldSet, first, SumTable

\* There is but one table.
LEMMA OneTable ==
  ASSUME NEW f, NEW S, IsFiniteSet(S), NEW g, SumTable(f, S, g), NEW h, SumTable(f, S, h)
  PROVE  g = h
<1> DEFINE Bad == {T \in SUBSET S : g[T] # h[T]}
<1>1. \A T \in SUBSET S : /\ g[T] = IF T = {} THEN 0 ELSE f[first(T)] + g[T \ {first(T)}]
                          /\ h[T] = IF T = {} THEN 0 ELSE f[first(T)] + h[T \ {first(T)}]
  BY DEF SumTable
<1>2. ASSUME Bad # {} PROVE FALSE
  <2>1. PICK T \in Bad : \A U \in Bad : U \subseteq T => U = T
    <3> HIDE DEF Bad
    <3>1. Bad \subseteq SUBSET S BY DEF Bad
    <3> QED BY <1>2, <3>1, SmallestSubset
  <2>2. T # {} BY <1>1, <2>1
  <2>3. first(T) \in T BY <2>2 DEF first
  <2>4. T \ {first(T)} \notin Bad BY <2>1, <2>3
  <2>5. g[T \ {first(T)}] = h[T \ {first(T)}] BY <2>1, <2>4
  <2>6. g[T] = h[T] BY <1>1, <2>1, <2>5
  <2> QED BY <2>1, <2>6
<1>3. \A T \in SUBSET S : g[T] = h[T] BY <1>2
<1>4. /\ g = [T \in SUBSET S |-> g[T]] /\ h = [T \in SUBSET S |-> h[T]]
  BY DEF SumTable
<1> QED BY <1>3, <1>4

\* The sum as the fold works it out.
LEMMA SumStep ==
  ASSUME NEW f, NEW S, IsFiniteSet(S)
  PROVE  SumFunctionOnSet(f, S)
           = IF S = {} THEN 0 ELSE f[first(S)] + SumFunctionOnSet(f, S \ {first(S)})
<1> DEFINE sum(T) == SumFunctionOnSet(f, T)
           rest(T) == T \ {first(T)}
           step(T) == IF T = {} THEN 0 ELSE f[first(T)] + sum(rest(T))
           Bad == {T \in SUBSET S : sum(T) # step(T)}
<1>1. ASSUME Bad # {} PROVE FALSE
  <2>1. PICK T \in Bad : \A U \in Bad : U \subseteq T => U = T
    <3> HIDE DEF Bad
    <3>1. Bad \subseteq SUBSET S BY DEF Bad
    <3> QED BY <1>1, <3>1, SmallestSubset
  <2>2. \A U \in SUBSET T : U # T => sum(U) = step(U) BY <2>1
  <2> DEFINE h == [U \in SUBSET T |-> IF U = T THEN step(T) ELSE sum(U)]
  <2>3. \A U \in SUBSET T : U # {} => first(U) \in U BY DEF first
  <2>4. ASSUME NEW U \in SUBSET T
        PROVE  h[U] = IF U = {} THEN 0 ELSE f[first(U)] + h[rest(U)]
    <3>1. h[U] = step(U) BY <2>2
    <3>2. U # {} => rest(U) \in SUBSET T /\ rest(U) # T BY <2>3
    <3>3. U # {} => h[rest(U)] = sum(rest(U)) BY <3>2
    <3> QED BY <3>1, <3>3
  <2>5. SumTable(f, T, h)
    <3>1. h = [U \in SUBSET T |-> h[U]] OBVIOUS
    <3> HIDE DEF h
    <3>2. h = [U \in SUBSET T |-> IF U = {} THEN 0 ELSE f[first(U)] + h[rest(U)]]
      BY <2>4, <3>1
    <3> QED BY <3>2 DEF SumTable
  <2>6. PICK g : SumTable(f, T, g) /\ sum(T) = g[T]
    <3> HIDE DEF h
    <3> QED BY <2>5, SumOfTable
  <2>7. IsFiniteSet(T) BY <2>1, FS_Subset
  <2>8. g = h
    <3> HIDE DEF h
    <3> QED BY <2>5, <2>6, <2>7, OneTable
  <2>9. sum(T) = step(T) BY <2>6, <2>8
  <2> QED BY <2>1, <2>9
<1>2. S \notin Bad BY <1>1
<1> QED BY <1>2

\* Nothing sums to zero.
LEMMA SumEmpty == ASSUME NEW f PROVE SumFunctionOnSet(f, {}) = 0
BY SumStep, FS_EmptySet

\* A sum of integers is an integer.
LEMMA SumInt ==
  ASSUME NEW f, NEW S, IsFiniteSet(S), \A x \in S : f[x] \in Int
  PROVE  SumFunctionOnSet(f, S) \in Int
<1> DEFINE sum(T) == SumFunctionOnSet(f, T)
           Bad == {T \in SUBSET S : sum(T) \notin Int}
<1>1. ASSUME Bad # {} PROVE FALSE
  <2>1. PICK T \in Bad : \A U \in Bad : U \subseteq T => U = T
    <3> HIDE DEF Bad
    <3>1. Bad \subseteq SUBSET S BY DEF Bad
    <3> QED BY <1>1, <3>1, SmallestSubset
  <2>2. IsFiniteSet(T) BY <2>1, FS_Subset
  <2>3. T # {} BY <2>1, SumEmpty, SMTT(30)
  <2>4. first(T) \in T BY <2>3 DEF first
  <2>5. sum(T \ {first(T)}) \in Int BY <2>1, <2>4
  <2>6. sum(T) = f[first(T)] + sum(T \ {first(T)}) BY <2>2, <2>3, SumStep
  <2>7. f[first(T)] \in Int BY <2>1, <2>4
  <2>8. sum(T) \in Int
    <3> HIDE DEF sum
    <3> QED BY <2>5, <2>6, <2>7
  <2> QED BY <2>1, <2>8
<1>2. S \notin Bad BY <1>1
<1> QED BY <1>2

\* Any element can be the first.
LEMMA SumRemove ==
  ASSUME NEW f, NEW S, IsFiniteSet(S), \A x \in S : f[x] \in Int, NEW a \in S
  PROVE  SumFunctionOnSet(f, S) = f[a] + SumFunctionOnSet(f, S \ {a})
<1> DEFINE sum(T) == SumFunctionOnSet(f, T)
           Bad == {T \in SUBSET S : \E x \in T : sum(T) # f[x] + sum(T \ {x})}
<1>1. ASSUME Bad # {} PROVE FALSE
  <2>1. PICK T \in Bad : \A U \in Bad : U \subseteq T => U = T
    <3> HIDE DEF Bad
    <3>1. Bad \subseteq SUBSET S BY DEF Bad
    <3> QED BY <1>1, <3>1, SmallestSubset
  <2>2. PICK x \in T : sum(T) # f[x] + sum(T \ {x}) BY <2>1
  <2> DEFINE c == first(T)
             R == (T \ {c}) \ {x}
  <2>3. IsFiniteSet(T) /\ T \subseteq S BY <2>1, FS_Subset
  <2>4. c \in T BY DEF first
  <2>5. sum(T) = f[c] + sum(T \ {c}) BY <2>2, <2>3, SumStep
  <2>6. x # c BY <2>2, <2>5
  <2>7. sum(T \ {c}) = f[x] + sum(R)
    <3>1. T \ {c} \in SUBSET S /\ T \ {c} \notin Bad /\ x \in T \ {c} BY <2>1, <2>3, <2>4, <2>6
    <3> QED BY <3>1
  <2>8. sum(T \ {x}) = f[c] + sum(R)
    <3>1. T \ {x} \in SUBSET S /\ T \ {x} \notin Bad /\ c \in T \ {x} BY <2>1, <2>3, <2>4, <2>6
    <3>2. (T \ {x}) \ {c} = R OBVIOUS
    <3> QED BY <3>1, <3>2
  <2>9. sum(R) \in Int /\ f[c] \in Int /\ f[x] \in Int
    <3>1. IsFiniteSet(R) BY <2>3, FS_Subset
    <3>2. \A y \in R : f[y] \in Int BY <2>3
    <3> QED BY <2>3, <2>4, <3>1, <3>2, SumInt
  <2>10. sum(T) = f[x] + sum(T \ {x})
    <3> HIDE DEF sum, R, c
    <3> QED BY <2>5, <2>7, <2>8, <2>9
  <2> QED BY <2>2, <2>10
<1>2. S \notin Bad BY <1>1
<1> QED BY <1>2

\* An element that joins a set adds its term.
LEMMA SumAdd ==
  ASSUME NEW f, NEW S, IsFiniteSet(S), NEW a, a \notin S, \A x \in S \cup {a} : f[x] \in Int
  PROVE  SumFunctionOnSet(f, S \cup {a}) = f[a] + SumFunctionOnSet(f, S)
<1>1. IsFiniteSet(S \cup {a}) BY FS_AddElement
<1>2. (S \cup {a}) \ {a} = S OBVIOUS
<1> QED BY <1>1, <1>2, SumRemove

\* A sum is at most another if each of its terms is.
LEMMA SumMonotone ==
  ASSUME NEW f, NEW g, NEW S, IsFiniteSet(S),
         \A x \in S : f[x] \in Int /\ g[x] \in Int /\ f[x] <= g[x]
  PROVE  SumFunctionOnSet(f, S) <= SumFunctionOnSet(g, S)
<1> DEFINE F(T) == SumFunctionOnSet(f, T)
           G(T) == SumFunctionOnSet(g, T)
           Bad == {T \in SUBSET S : ~ (F(T) <= G(T))}
<1>1. ASSUME Bad # {} PROVE FALSE
  <2>1. PICK T \in Bad : \A U \in Bad : U \subseteq T => U = T
    <3> HIDE DEF Bad
    <3>1. Bad \subseteq SUBSET S BY DEF Bad
    <3> QED BY <1>1, <3>1, SmallestSubset
  <2>2. IsFiniteSet(T) BY <2>1, FS_Subset
  <2>3. T # {}
    <3>1. F({}) = 0 /\ G({}) = 0 BY SumEmpty
    <3>2. F({}) <= G({})
      <4> HIDE DEF F, G
      <4> QED BY <3>1
    <3> QED BY <2>1, <3>2
  <2> DEFINE c == first(T)
             R == T \ {c}
  <2>4. c \in T /\ c \in S BY <2>1, <2>3 DEF first
  <2>5. F(R) <= G(R) BY <2>1, <2>4
  <2>6. F(T) = f[c] + F(R) /\ G(T) = g[c] + G(R) BY <2>2, <2>3, SumStep
  <2>7. F(R) \in Int /\ G(R) \in Int
    <3>1. IsFiniteSet(R) BY <2>2, FS_Subset
    <3>2. \A x \in R : f[x] \in Int /\ g[x] \in Int BY <2>1
    <3> QED BY <3>1, <3>2, SumInt
  <2>8. f[c] \in Int /\ g[c] \in Int /\ f[c] <= g[c] BY <2>4
  <2>9. F(T) <= G(T)
    <3> HIDE DEF F, G, R, c
    <3> QED BY <2>5, <2>6, <2>7, <2>8
  <2> QED BY <2>1, <2>9
<1>2. S \notin Bad BY <1>1
<1> QED BY <1>2

\* Equal terms have equal sums.
LEMMA SumSame ==
  ASSUME NEW f, NEW g, NEW S, IsFiniteSet(S), \A x \in S : f[x] \in Int /\ f[x] = g[x]
  PROVE  SumFunctionOnSet(f, S) = SumFunctionOnSet(g, S)
<1>1. \A x \in S : /\ f[x] \in Int /\ g[x] \in Int /\ f[x] <= g[x] /\ g[x] <= f[x] OBVIOUS
<1>2. /\ SumFunctionOnSet(f, S) <= SumFunctionOnSet(g, S)
      /\ SumFunctionOnSet(g, S) <= SumFunctionOnSet(f, S)
  BY <1>1, SumMonotone
<1>3. SumFunctionOnSet(f, S) \in Int /\ SumFunctionOnSet(g, S) \in Int BY <1>1, SumInt
<1> QED BY <1>2, <1>3

\* One term changes, and the sum by as much.
LEMMA SumChange ==
  ASSUME NEW f, NEW g, NEW S, IsFiniteSet(S), NEW a \in S,
         \A x \in S : f[x] \in Int /\ g[x] \in Int,
         \A x \in S : x # a => g[x] = f[x]
  PROVE  SumFunctionOnSet(g, S) = SumFunctionOnSet(f, S) - f[a] + g[a]
<1> DEFINE R == S \ {a}
<1>1. IsFiniteSet(R) BY FS_RemoveElement
<1>2. SumFunctionOnSet(f, R) = SumFunctionOnSet(g, R) BY <1>1, SumSame
<1>3. SumFunctionOnSet(f, S) = f[a] + SumFunctionOnSet(f, R) BY SumRemove
<1>4. SumFunctionOnSet(g, S) = g[a] + SumFunctionOnSet(g, R) BY SumRemove
<1>5. SumFunctionOnSet(f, R) \in Int BY <1>1, SumInt
<1> HIDE DEF R
<1> QED BY <1>2, <1>3, <1>4, <1>5

\* Two terms change.
LEMMA SumChangeTwo ==
  ASSUME NEW f, NEW g, NEW S, IsFiniteSet(S), NEW a \in S, NEW b \in S, a # b,
         \A x \in S : f[x] \in Int /\ g[x] \in Int,
         \A x \in S : x \notin {a, b} => g[x] = f[x]
  PROVE  SumFunctionOnSet(g, S) = SumFunctionOnSet(f, S) - f[a] - f[b] + g[a] + g[b]
<1> DEFINE h == [x \in S |-> IF x = a THEN g[a] ELSE f[x]]
<1>1. SumFunctionOnSet(h, S) = SumFunctionOnSet(f, S) - f[a] + g[a]
  <2>1. \A x \in S : h[x] \in Int /\ (x # a => h[x] = f[x]) OBVIOUS
  <2>2. h[a] = g[a] OBVIOUS
  <2> HIDE DEF h
  <2> QED BY <2>1, <2>2, SumChange
<1>2. SumFunctionOnSet(g, S) = SumFunctionOnSet(h, S) - f[b] + g[b]
  <2>1. \A x \in S : h[x] \in Int /\ (x # b => g[x] = h[x]) OBVIOUS
  <2>2. h[b] = f[b] OBVIOUS
  <2> HIDE DEF h
  <2> QED BY <2>1, <2>2, SumChange
<1>3. SumFunctionOnSet(f, S) \in Int BY SumInt
<1> QED BY <1>1, <1>2, <1>3

\* The sum over two disjoint sets is that of their sums.
LEMMA SumUnion ==
  ASSUME NEW f, NEW A, NEW B, IsFiniteSet(A), IsFiniteSet(B), A \cap B = {},
         \A x \in A \cup B : f[x] \in Int
  PROVE  SumFunctionOnSet(f, A \cup B) = SumFunctionOnSet(f, A) + SumFunctionOnSet(f, B)
<1> DEFINE sum(T) == SumFunctionOnSet(f, T)
           Bad == {T \in SUBSET A : sum(T \cup B) # sum(T) + sum(B)}
<1>1. ASSUME Bad # {} PROVE FALSE
  <2>1. PICK T \in Bad : \A U \in Bad : U \subseteq T => U = T
    <3> HIDE DEF Bad
    <3>1. Bad \subseteq SUBSET A BY DEF Bad
    <3> QED BY <1>1, <3>1, SmallestSubset
  <2>2. IsFiniteSet(T) BY <2>1, FS_Subset
  <2>3. sum(B) \in Int BY SumInt
  <2>4. PICK x \in T : TRUE
    <3>1. CASE T = {}
      <4>1. sum({}) = 0 /\ {} \cup B = B BY SumEmpty
      <4>2. sum({} \cup B) = sum({}) + sum(B)
        <5> HIDE DEF sum
        <5> QED BY <2>3, <4>1
      <4> QED BY <2>1, <3>1, <4>2
    <3> QED BY <3>1
  <2> DEFINE R == T \ {x}
  <2>5. IsFiniteSet(R) /\ IsFiniteSet(R \cup B) BY <2>2, FS_RemoveElement, FS_Union
  <2>6. sum(R \cup B) = sum(R) + sum(B)
    <3>1. R \in SUBSET A /\ R \notin Bad BY <2>1, <2>4
    <3> QED BY <3>1
  <2>7. R \cup {x} = T /\ x \notin R /\ (R \cup B) \cup {x} = T \cup B /\ x \notin R \cup B
    BY <2>1, <2>4
  <2>8. \A y \in (R \cup B) \cup {x} : f[y] \in Int BY <2>1, <2>7
  <2>9. sum(T) = f[x] + sum(R) /\ sum(T \cup B) = f[x] + sum(R \cup B)
    <3>1. sum(R \cup {x}) = f[x] + sum(R)
      <4>1. \A y \in R \cup {x} : f[y] \in Int BY <2>8
      <4> QED BY <2>5, <2>7, <4>1, SumAdd
    <3>2. sum((R \cup B) \cup {x}) = f[x] + sum(R \cup B) BY <2>5, <2>7, <2>8, SumAdd
    <3> QED BY <2>7, <3>1, <3>2
  <2>10. sum(R) \in Int /\ f[x] \in Int
    <3>1. \A y \in R : f[y] \in Int BY <2>8
    <3> QED BY <2>5, <2>8, <3>1, SumInt
  <2>11. sum(T \cup B) = sum(T) + sum(B)
    <3> HIDE DEF sum, R
    <3> QED BY <2>3, <2>6, <2>9, <2>10
  <2> QED BY <2>1, <2>11
<1>2. A \notin Bad BY <1>1
<1> QED BY <1>2

\* A sum of naturals is one, and grows with the set.
LEMMA SumNat ==
  ASSUME NEW f, NEW S, IsFiniteSet(S), \A x \in S : f[x] \in Nat
  PROVE  SumFunctionOnSet(f, S) \in Nat
<1> DEFINE Bad == {T \in SUBSET S : SumFunctionOnSet(f, T) \notin Nat}
<1>1. ASSUME Bad # {} PROVE FALSE
  <2>1. PICK T \in Bad : \A U \in Bad : U \subseteq T => U = T
    <3> HIDE DEF Bad
    <3>1. Bad \subseteq SUBSET S BY DEF Bad
    <3> QED BY <1>1, <3>1, SmallestSubset
  <2>2. IsFiniteSet(T) BY <2>1, FS_Subset
  <2>3. T # {}
    <3>1. SumFunctionOnSet(f, {}) = 0 BY SumEmpty
    <3>2. SumFunctionOnSet(f, {}) \in Nat BY <3>1
    <3> QED BY <2>1, <3>2
  <2>4. first(T) \in T BY <2>3 DEF first
  <2>5. SumFunctionOnSet(f, T \ {first(T)}) \in Nat BY <2>1, <2>4
  <2>6. SumFunctionOnSet(f, T) = f[first(T)] + SumFunctionOnSet(f, T \ {first(T)})
    BY <2>2, <2>3, SumStep
  <2>7. f[first(T)] \in Nat BY <2>1, <2>4
  <2> QED BY <2>1, <2>5, <2>6, <2>7
<1>2. S \notin Bad BY <1>1
<1> QED BY <1>2

\* Zeros sum to zero.
LEMMA SumZero ==
  ASSUME NEW f, NEW S, IsFiniteSet(S), \A x \in S : f[x] = 0
  PROVE  SumFunctionOnSet(f, S) = 0
<1> DEFINE Bad == {T \in SUBSET S : SumFunctionOnSet(f, T) # 0}
<1>1. ASSUME Bad # {} PROVE FALSE
  <2>1. PICK T \in Bad : \A U \in Bad : U \subseteq T => U = T
    <3> HIDE DEF Bad
    <3>1. Bad \subseteq SUBSET S BY DEF Bad
    <3> QED BY <1>1, <3>1, SmallestSubset
  <2>2. IsFiniteSet(T) BY <2>1, FS_Subset
  <2>3. T # {} BY <2>1, SumEmpty
  <2>4. first(T) \in T BY <2>3 DEF first
  <2>5. SumFunctionOnSet(f, T \ {first(T)}) = 0 BY <2>1, <2>4
  <2>6. SumFunctionOnSet(f, T) = f[first(T)] + SumFunctionOnSet(f, T \ {first(T)})
    BY <2>2, <2>3, SumStep
  <2>7. f[first(T)] = 0 BY <2>1, <2>4
  <2> QED BY <2>1, <2>5, <2>6, <2>7
<1>2. S \notin Bad BY <1>1
<1> QED BY <1>2

\* No term is more than a sum of naturals.
LEMMA SumTermAtMost ==
  ASSUME NEW f, NEW S, IsFiniteSet(S), \A x \in S : f[x] \in Nat, NEW a \in S
  PROVE  f[a] <= SumFunctionOnSet(f, S)
<1>1. SumFunctionOnSet(f, S \ {a}) \in Nat
  <2>1. IsFiniteSet(S \ {a}) BY FS_RemoveElement
  <2> QED BY <2>1, SumNat
<1>2. SumFunctionOnSet(f, S) = f[a] + SumFunctionOnSet(f, S \ {a})
  <2>1. \A x \in S : f[x] \in Int OBVIOUS
  <2> QED BY <2>1, SumRemove
<1> QED BY <1>1, <1>2

\* The sum of an affine function of terms.
LEMMA SumAffine ==
  ASSUME NEW f, NEW h, NEW S, NEW c, NEW d, IsFiniteSet(S), c \in Int, d \in Int,
         \A x \in S : f[x] \in Int, \A x \in S : h[x] = c * f[x] + d
  PROVE  SumFunctionOnSet(h, S) = c * SumFunctionOnSet(f, S) + d * Cardinality(S)
<1> DEFINE F(T) == SumFunctionOnSet(f, T)
           H(T) == SumFunctionOnSet(h, T)
           N(T) == Cardinality(T)
           Bad == {T \in SUBSET S : ~ (H(T) = c * F(T) + d * N(T))}
<1>1. ASSUME Bad # {} PROVE FALSE
  <2>1. PICK T \in Bad : \A U \in Bad : U \subseteq T => U = T
    <3> HIDE DEF Bad
    <3>1. Bad \subseteq SUBSET S BY DEF Bad
    <3> QED BY <1>1, <3>1, SmallestSubset
  <2>2. IsFiniteSet(T) BY <2>1, FS_Subset
  <2>3. T # {}
    <3>1. F({}) = 0 /\ H({}) = 0 BY SumEmpty
    <3>2. N({}) = 0 BY FS_EmptySet
    <3>3. H({}) = c * F({}) + d * N({})
      <4> HIDE DEF F, H, N
      <4> QED BY <3>1, <3>2, SMT
    <3> QED BY <2>1, <3>3
  <2> DEFINE e == first(T)
             R == T \ {e}
  <2>4. e \in T /\ e \in S BY <2>1, <2>3 DEF first
  <2>5. H(R) = c * F(R) + d * N(R) BY <2>1, <2>4
  <2>6. F(T) = f[e] + F(R) /\ H(T) = h[e] + H(R) BY <2>2, <2>3, SumStep
  <2>7. IsFiniteSet(R) BY <2>2, FS_Subset
  <2>8. F(R) \in Int
    <3>1. \A x \in R : f[x] \in Int BY <2>1
    <3> QED BY <2>7, <3>1, SumInt
  <2>9. N(R) \in Nat /\ N(T) \in Nat /\ N(R) = N(T) - 1
    BY <2>2, <2>4, <2>7, FS_CardinalityType, FS_RemoveElement
  <2>10. f[e] \in Int /\ h[e] = c * f[e] + d BY <2>4
  <2>11. H(T) = c * F(T) + d * N(T)
    <3> HIDE DEF F, H, N, R, e
    <3> DEFINE p == f[e]
               q == F(R)
               n == N(R)
    <3>1. p \in Int /\ q \in Int /\ n \in Int /\ N(T) = n + 1 /\ F(T) = p + q
          /\ H(T) = (c * p + d) + (c * q + d * n)
      BY <2>5, <2>6, <2>8, <2>9, <2>10
    <3> HIDE DEF p, q, n
    <3>2. c * (p + q) = c * p + c * q /\ d * (n + 1) = d * n + d BY <3>1, SMT
    <3>3. c * p \in Int /\ c * q \in Int /\ d * n \in Int BY <3>1, SMT
    <3>4. (c * p + d) + (c * q + d * n) = (c * p + c * q) + (d * n + d) BY <3>3, SMT
    <3> QED BY <3>1, <3>2, <3>4
  <2> QED BY <2>1, <2>11
<1>2. S \notin Bad BY <1>1
<1> QED BY <1>2

\* The sum of two functions.
LEMMA SumPlus ==
  ASSUME NEW f, NEW g, NEW h, NEW S, IsFiniteSet(S),
         \A x \in S : f[x] \in Int /\ g[x] \in Int, \A x \in S : h[x] = f[x] + g[x]
  PROVE  SumFunctionOnSet(h, S) = SumFunctionOnSet(f, S) + SumFunctionOnSet(g, S)
<1> DEFINE F(T) == SumFunctionOnSet(f, T)
           G(T) == SumFunctionOnSet(g, T)
           H(T) == SumFunctionOnSet(h, T)
           Bad == {T \in SUBSET S : ~ (H(T) = F(T) + G(T))}
<1>1. ASSUME Bad # {} PROVE FALSE
  <2>1. PICK T \in Bad : \A U \in Bad : U \subseteq T => U = T
    <3> HIDE DEF Bad
    <3>1. Bad \subseteq SUBSET S BY DEF Bad
    <3> QED BY <1>1, <3>1, SmallestSubset
  <2>2. IsFiniteSet(T) BY <2>1, FS_Subset
  <2>3. T # {}
    <3>1. F({}) = 0 /\ G({}) = 0 /\ H({}) = 0 BY SumEmpty
    <3>2. H({}) = F({}) + G({})
      <4> HIDE DEF F, G, H
      <4> QED BY <3>1
    <3> QED BY <2>1, <3>2
  <2> DEFINE c == first(T)
             R == T \ {c}
  <2>4. c \in T /\ c \in S BY <2>1, <2>3 DEF first
  <2>5. H(R) = F(R) + G(R) BY <2>1, <2>4
  <2>6. F(T) = f[c] + F(R) /\ G(T) = g[c] + G(R) /\ H(T) = h[c] + H(R)
    BY <2>2, <2>3, SumStep
  <2>7. F(R) \in Int /\ G(R) \in Int
    <3>1. IsFiniteSet(R) BY <2>2, FS_Subset
    <3>2. \A x \in R : f[x] \in Int /\ g[x] \in Int BY <2>1
    <3> QED BY <3>1, <3>2, SumInt
  <2>8. f[c] \in Int /\ g[c] \in Int /\ h[c] = f[c] + g[c] BY <2>4
  <2>9. H(T) = F(T) + G(T)
    <3> HIDE DEF F, G, H, R, c
    <3> QED BY <2>5, <2>6, <2>7, <2>8
  <2> QED BY <2>1, <2>9
<1>2. S \notin Bad BY <1>1
<1> QED BY <1>2
=============================================================================
