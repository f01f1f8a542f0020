------------------------------- MODULE Recursion -------------------------------
(***************************************************************************)
(* What functions defined by recursion compute: a step that is taken n     *)
(* times, and SumFunctionOnSet and SumFunction of module Functions.  These *)
(* add up the values of a function by taking one member after the other    *)
(* from its domain; what they make of one member more or less does not     *)
(* depend on the one they take first.  Each fact is proved from a least    *)
(* number or a smallest set for which it would fail.                       *)
(***************************************************************************)
EXTENDS Integers, Functions, FiniteSetTheorems, WellFoundedInduction, TLAPS

\* Among natural numbers there is a least.
LEMMA LeastExists ==
    ASSUME NEW D \in SUBSET Nat, D # {}
    PROVE  \E m \in D : \A d \in D : m <= d
<1>1. IsWellFoundedOn(OpToRel(<, Nat), Nat)
  BY NatLessThanWellFounded
<1>2. PICK m \in D : \A d \in D : ~(<<d, m>> \in OpToRel(<, Nat))
  BY <1>1, WFMin
<1>3. ASSUME NEW d \in D PROVE m <= d
  <2>1. ~(<<d, m>> \in OpToRel(<, Nat))
    BY <1>2
  <2>2. ~(d < m)
    BY <2>1 DEF OpToRel
  <2> QED BY <2>2
<1> QED BY <1>3

\* What holds for 0, and for k if it holds for k - 1, holds for all.
LEMMA UpwardsTo ==
    ASSUME NEW N \in Nat, NEW Good, 0 \in Good,
           \A k \in 1 .. N : k - 1 \in Good => k \in Good
    PROVE  \A k \in 0 .. N : k \in Good
<1> DEFINE Bad == {k \in 0 .. N : k \notin Good}
<1> SUFFICES ASSUME Bad # {} PROVE FALSE
  OBVIOUS
<1>1. Bad \in SUBSET Nat
  OBVIOUS
<1>2. PICK m \in Bad : \A d \in Bad : m <= d
  <2> HIDE DEF Bad
  <2> QED BY <1>1, LeastExists
<1>3. m \in 0 .. N /\ m \notin Good /\ m # 0
  OBVIOUS
<1>4. m \in 1 .. N /\ m - 1 \in 0 .. N /\ ~(m <= m - 1)
  BY <1>3
<1>5. m - 1 \in Good
  BY <1>2, <1>4
<1> QED BY <1>3, <1>4, <1>5

\* There is a function that takes the steps one after the other.
Iterates(r, start, step, N) == r[0] = start /\ \A k \in 1 .. N : r[k] = step[k][r[k - 1]]

LEMMA IterationExists ==
    ASSUME NEW St, NEW start \in St, NEW N \in Nat, NEW step \in [1 .. N -> [St -> St]]
    PROVE  \E r \in [0 .. N -> St] : Iterates(r, start, step, N)
<1> DEFINE Reaches(n, r) ==
              /\ r \in [0 .. n -> St] /\ r[0] = start
              /\ \A k \in 1 .. n : r[k] = step[k][r[k - 1]]
           Good == {n \in 0 .. N : \E r : Reaches(n, r)}
<1>1. 0 \in Good
  <2> DEFINE r == [k \in 0 .. 0 |-> start]
  <2>1. Reaches(0, r)
    OBVIOUS
  <2>2. 0 \in 0 .. N
    OBVIOUS
  <2> HIDE DEF r
  <2> QED BY <2>1, <2>2
<1>2. ASSUME NEW m \in 1 .. N, m - 1 \in Good PROVE m \in Good
  <2>1. PICK r : Reaches(m - 1, r)
    BY <1>2
  <2> DEFINE t == [k \in 0 .. m |-> IF k = m THEN step[m][r[m - 1]] ELSE r[k]]
  <2>2. m \in Nat /\ m - 1 \in 0 .. m - 1 /\ 0 \in 0 .. m - 1
    OBVIOUS
  <2>3. step[m] \in [St -> St] /\ r[m - 1] \in St
    BY <2>1, <2>2
  <2>4. \A k \in 0 .. m : k = m \/ k \in 0 .. m - 1
    BY <2>2
  <2>5. t \in [0 .. m -> St]
    BY <2>1, <2>3, <2>4
  <2>6. t[0] = start
    BY <2>1, <2>2
  <2>7. ASSUME NEW k \in 1 .. m PROVE t[k] = step[k][t[k - 1]]
    <3>1. k - 1 \in 0 .. m - 1 /\ k - 1 # m /\ k - 1 \in 0 .. m
      BY <2>2
    <3>2. t[k - 1] = r[k - 1]
      BY <3>1
    <3>3. CASE k = m
      BY <3>2, <3>3
    <3>4. CASE k # m
      <4>1. k \in 1 .. m - 1 /\ k \in 0 .. m
        BY <2>2, <3>4
      <4> QED BY <2>1, <3>2, <3>4, <4>1
    <3> QED BY <3>3, <3>4
  <2> HIDE DEF t
  <2>8. Reaches(m, t)
    BY <2>5, <2>6, <2>7
  <2>9. m \in 0 .. N
    OBVIOUS
  <2> QED BY <2>8, <2>9
<1> HIDE DEF Good
<1>3. N \in Good
  <2>1. \A k \in 0 .. N : k \in Good
    BY <1>1, <1>2, UpwardsTo
  <2> QED BY <2>1
<1> QED BY <1>3 DEF Good, Iterates

-----------------------------------------------------------------------------
(***************************************************************************)
(* Sums                                                                    *)
(***************************************************************************)

\* The member that is taken first, and the function that adds up.
First(s) == CHOOSE x \in s : TRUE
Adds(f, a, s) == a[s] = IF s = {} THEN 0 ELSE f[First(s)] + a[s \ {First(s)}]
IsAdder(f, a, S) == a \in [SUBSET S -> Int] /\ \A s \in SUBSET S : Adds(f, a, s)
Summable(f, S) == IsFiniteSet(S) /\ \A x \in S : f[x] \in Int

\* Among sets of finite sets there is a smallest, from which nothing can be taken.
LEMMA SmallestExists ==
    ASSUME NEW S, IsFiniteSet(S), NEW B \in SUBSET SUBSET S, B # {}
    PROVE  \E s \in B : \A x \in s : s \ {x} \notin B
<1> DEFINE D == {Cardinality(s) : s \in B}
<1>1. \A s \in SUBSET S : IsFiniteSet(s) /\ Cardinality(s) \in Nat
  BY FS_Subset, FS_CardinalityType
<1>2. D \in SUBSET Nat /\ D # {}
  BY <1>1
<1>3. PICK m \in D : \A d \in D : m <= d
  <2> HIDE DEF D
  <2> QED BY <1>2, LeastExists
<1>4. PICK s \in B : m = Cardinality(s)
  OBVIOUS
<1>5. ASSUME NEW x \in s, s \ {x} \in B PROVE FALSE
  <2>1. Cardinality(s \ {x}) = Cardinality(s) - 1
    BY <1>1, FS_RemoveElement
  <2>2. m <= Cardinality(s \ {x})
    BY <1>3, <1>5
  <2>3. m \in Nat
    BY <1>1, <1>4
  <2> QED BY <1>4, <2>1, <2>2, <2>3
<1> QED BY <1>5

\* There is a function that adds up.  It is built for the sets of at most n
\* members, one n after the other.
LEMMA AdderExists ==
    ASSUME NEW f, NEW S, Summable(f, S)
    PROVE  \E g : IsAdder(f, g, S)
<1> DEFINE Small(n) == {s \in SUBSET S : Cardinality(s) <= n}
           UpTo(n, g) == g \in [Small(n) -> Int] /\ \A s \in Small(n) : Adds(f, g, s)
           Bad == {n \in Nat : ~\E g : UpTo(n, g)}
<1>1. \A s \in SUBSET S : IsFiniteSet(s) /\ Cardinality(s) \in Nat
  BY FS_Subset, FS_CardinalityType DEF Summable
<1>2. \A s \in SUBSET S : s # {} => /\ First(s) \in s /\ f[First(s)] \in Int
                                    /\ s \ {First(s)} \in SUBSET S
                                    /\ Cardinality(s \ {First(s)}) = Cardinality(s) - 1
  <2> SUFFICES ASSUME NEW s \in SUBSET S, s # {}
               PROVE  /\ First(s) \in s /\ f[First(s)] \in Int
                      /\ s \ {First(s)} \in SUBSET S
                      /\ Cardinality(s \ {First(s)}) = Cardinality(s) - 1
    OBVIOUS
  <2>1. First(s) \in s
    BY DEF First
  <2>2. Cardinality(s \ {First(s)}) = Cardinality(s) - 1
    BY <1>1, <2>1, FS_RemoveElement
  <2> QED BY <2>1, <2>2 DEF Summable
<1>3. 0 \notin Bad
  <2> DEFINE g == [s \in Small(0) |-> 0]
  <2>1. \A s \in Small(0) : s = {}
    <3> SUFFICES ASSUME NEW s \in SUBSET S, Cardinality(s) <= 0 PROVE s = {}
      OBVIOUS
    <3>1. Cardinality(s) = 0
      BY <1>1
    <3> QED BY <1>1, <3>1, FS_EmptySet
  <2>2. UpTo(0, g)
    BY <2>1 DEF Adds
  <2> QED BY <2>2
<1>4. ASSUME NEW m \in Nat, m # 0, m - 1 \notin Bad PROVE m \notin Bad
  <2>1. m - 1 \in Nat
    BY <1>4
  <2>2. PICK g : UpTo(m - 1, g)
    BY <1>4, <2>1
  <2> DEFINE h == [s \in Small(m) |->
                      IF s = {} THEN 0 ELSE f[First(s)] + g[s \ {First(s)}]]
  <2>3. ASSUME NEW s \in Small(m), s # {} PROVE s \ {First(s)} \in Small(m - 1)
    <3>1. s \in SUBSET S /\ Cardinality(s) <= m
      OBVIOUS
    <3>2. /\ s \ {First(s)} \in SUBSET S
          /\ Cardinality(s \ {First(s)}) = Cardinality(s) - 1 /\ Cardinality(s) \in Nat
      BY <1>1, <1>2, <2>3, <3>1
    <3>3. Cardinality(s \ {First(s)}) <= m - 1
      BY <3>1, <3>2
    <3> QED BY <3>2, <3>3
  <2>4. \A s \in Small(m - 1) : s \in Small(m)
    <3> SUFFICES ASSUME NEW s \in SUBSET S, Cardinality(s) <= m - 1
                 PROVE  Cardinality(s) <= m
      OBVIOUS
    <3> QED BY <1>1
  <2>5. \A s \in Small(m) : s # {} => f[First(s)] \in Int
    BY <1>2
  <2>6. /\ \A s \in Small(m - 1) : g[s] \in Int
        /\ \A s \in Small(m - 1) :
              g[s] = IF s = {} THEN 0 ELSE f[First(s)] + g[s \ {First(s)}]
    BY <2>2 DEF Adds
  <2> HIDE DEF Small
  <2>7. h \in [Small(m) -> Int]
    BY <2>3, <2>5, <2>6
  <2>8. \A s \in Small(m - 1) : h[s] = g[s]
    BY <2>4, <2>6
  <2>9. ASSUME NEW s \in Small(m) PROVE Adds(f, h, s)
    <3>1. s # {} => h[s \ {First(s)}] = g[s \ {First(s)}]
      BY <2>3, <2>8
    <3>2. h[s] = IF s = {} THEN 0 ELSE f[First(s)] + g[s \ {First(s)}]
      OBVIOUS
    <3> HIDE DEF h
    <3> QED BY <3>1, <3>2 DEF Adds
  <2>10. UpTo(m, h)
    BY <2>7, <2>9
  <2> QED BY <2>10
<1>5. Bad = {}
  <2> SUFFICES ASSUME Bad # {} PROVE FALSE
    OBVIOUS
  <2>1. Bad \in SUBSET Nat
    OBVIOUS
  <2> HIDE DEF Bad
  <2>2. PICK m \in Bad : \A d \in Bad : m <= d
    BY <2>1, LeastExists
  <2>3. m \in Nat /\ m # 0
    BY <1>3, <2>1
  <2>4. m - 1 \notin Bad
    BY <2>1, <2>2, <2>3
  <2> QED BY <1>4, <2>3, <2>4
<1>6. Cardinality(S) \in Nat
  BY <1>1
<1>7. PICK g : UpTo(Cardinality(S), g)
  BY <1>5, <1>6
<1>8. Small(Cardinality(S)) = SUBSET S
  <2>1. \A s \in SUBSET S : Cardinality(s) <= Cardinality(S)
    BY FS_Subset DEF Summable
  <2> QED BY <2>1
<1> QED BY <1>7, <1>8 DEF IsAdder

\* There is only one.
LEMMA AddersAgree ==
    ASSUME NEW f, NEW T, Summable(f, T), NEW a, IsAdder(f, a, T), NEW S \in SUBSET T,
           NEW g, \A s \in SUBSET S : Adds(f, g, s)
    PROVE  \A s \in SUBSET S : g[s] = a[s]
<1> DEFINE B == {s \in SUBSET S : g[s] # a[s]}
<1> SUFFICES ASSUME B # {} PROVE FALSE
  OBVIOUS
<1>1. IsFiniteSet(S)
  BY FS_Subset DEF Summable
<1>2. B \in SUBSET SUBSET S
  OBVIOUS
<1>3. PICK s \in B : \A x \in s : s \ {x} \notin B
  <2> HIDE DEF B
  <2> QED BY <1>1, <1>2, SmallestExists
<1>4. Adds(f, g, s) /\ Adds(f, a, s) /\ s \in SUBSET S
  BY <1>3 DEF IsAdder
<1>5. s # {} => g[s \ {First(s)}] = a[s \ {First(s)}]
  <2> HAVE s # {}
  <2>1. First(s) \in s
    BY DEF First
  <2> QED BY <1>3, <1>4, <2>1
<1> QED BY <1>3, <1>4, <1>5 DEF Adds

\* It is the one that SumFunctionOnSet uses.
LEMMA SumAdds ==
    ASSUME NEW f, NEW S, Summable(f, S)
    PROVE  \E g : IsAdder(f, g, S) /\ SumFunctionOnSet(f, S) = g[S]
<1> DEFINE Body(g) == [s \in SUBSET S |->
                          IF s = {} THEN 0 ELSE f[First(s)] + g[s \ {First(s)}]]
           g == CHOOSE g : g = Body(g)
<1>1. PICK a : IsAdder(f, a, S)
  BY AdderExists
<1>2. a = Body(a)
  BY <1>1 DEF IsAdder, Adds
<1>3. g = Body(g)
  <2> HIDE DEF Body
  <2> QED BY <1>2
<1>4. SumFunctionOnSet(f, S) = g[S]
  BY Zenon DEF SumFunctionOnSet, FoldFunctionOnSet, MapThenFoldSet, First
<1> HIDE DEF g
<1>5. \A s \in SUBSET S : Adds(f, g, s)
  BY <1>3 DEF Adds
<1>6. \A s \in SUBSET S : g[s] = a[s]
  BY <1>1, <1>5, AddersAgree
<1>7. SumFunctionOnSet(f, S) = a[S]
  BY <1>4, <1>6
<1> QED BY <1>1, <1>7

\* Which member is taken first makes no difference.
LEMMA AnyFirst ==
    ASSUME NEW f, NEW S, Summable(f, S), NEW g, IsAdder(f, g, S)
    PROVE  \A s \in SUBSET S : \A x \in s : g[s] = f[x] + g[s \ {x}]
<1> DEFINE B == {s \in SUBSET S : \E x \in s : g[s] # f[x] + g[s \ {x}]}
<1> SUFFICES ASSUME B # {} PROVE FALSE
  OBVIOUS
<1>1. B \in SUBSET SUBSET S /\ IsFiniteSet(S)
  BY DEF Summable
<1>2. PICK s \in B : \A x \in s : s \ {x} \notin B
  <2> HIDE DEF B
  <2> QED BY <1>1, SmallestExists
<1>3. PICK x \in s : g[s] # f[x] + g[s \ {x}]
  OBVIOUS
<1> DEFINE c == First(s)
<1>4. s \in SUBSET S /\ c \in s
  BY DEF First
<1>5. g[s] = f[c] + g[s \ {c}]
  BY <1>4 DEF IsAdder, Adds
<1> HIDE DEF c
<1>6. x # c
  BY <1>3, <1>5
<1>7. g[s \ {c}] = f[x] + g[(s \ {c}) \ {x}]
  BY <1>2, <1>4, <1>6
<1>8. g[s \ {x}] = f[c] + g[(s \ {x}) \ {c}]
  BY <1>2, <1>4, <1>6
<1>9. (s \ {c}) \ {x} = (s \ {x}) \ {c}
  OBVIOUS
<1>10. /\ f[x] \in Int /\ f[c] \in Int
       /\ g[(s \ {x}) \ {c}] \in Int
  BY <1>4 DEF Summable, IsAdder
<1> HIDE DEF B
<1>11. g[s] = f[x] + g[s \ {x}]
  <2>1. PICK i \in Int, j \in Int, k \in Int :
           i = f[x] /\ j = f[c] /\ k = g[(s \ {x}) \ {c}]
    BY <1>10
  <2>2. g[s \ {c}] = i + k
    BY <1>7, <1>9, <2>1
  <2>3. g[s] = j + (i + k) /\ g[s \ {x}] = j + k
    BY <1>5, <1>8, <2>1, <2>2
  <2>4. j + (i + k) = i + (j + k)
    OBVIOUS
  <2> QED BY <2>1, <2>3, <2>4
<1> QED BY <1>3, <1>11

-----------------------------------------------------------------------------
(***************************************************************************)
(* The facts other modules use: the sum of nothing, of one more, of one    *)
(* less, and of a function that changes where it is not looked at.         *)
(***************************************************************************)
LEMMA SumOfNone == \A f : SumFunctionOnSet(f, {}) = 0 /\ Summable(f, {})
<1> SUFFICES ASSUME NEW f PROVE SumFunctionOnSet(f, {}) = 0 /\ Summable(f, {})
  OBVIOUS
<1>1. Summable(f, {})
  BY FS_EmptySet DEF Summable
<1>2. PICK a : IsAdder(f, a, {}) /\ SumFunctionOnSet(f, {}) = a[{}]
  BY <1>1, SumAdds
<1>3. Adds(f, a, {})
  BY <1>2 DEF IsAdder
<1> QED BY <1>1, <1>2, <1>3 DEF Adds

LEMMA SumOfZeros ==
    ASSUME NEW f, NEW S, IsFiniteSet(S), \A x \in S : f[x] = 0
    PROVE  SumFunctionOnSet(f, S) = 0
<1> DEFINE zero == [s \in SUBSET S |-> 0]
<1>1. Summable(f, S)
  BY DEF Summable
<1>2. PICK a : IsAdder(f, a, S) /\ SumFunctionOnSet(f, S) = a[S]
  BY <1>1, SumAdds
<1>3. ASSUME NEW s \in SUBSET S PROVE Adds(f, zero, s)
  <2>1. s # {} => First(s) \in S
    BY DEF First
  <2> QED BY <2>1 DEF Adds
<1>4. S \in SUBSET S /\ zero[S] = 0
  OBVIOUS
<1>5. \A s \in SUBSET S : zero[s] = a[s]
  <2> HIDE DEF zero
  <2> QED BY <1>1, <1>2, <1>3, AddersAgree
<1> QED BY <1>2, <1>4, <1>5

LEMMA SumIsNumber ==
    ASSUME NEW f, NEW S, Summable(f, S)
    PROVE  SumFunctionOnSet(f, S) \in Int
<1>1. PICK a : IsAdder(f, a, S) /\ SumFunctionOnSet(f, S) = a[S]
  BY SumAdds
<1> QED BY <1>1 DEF IsAdder

LEMMA SumWithout ==
    ASSUME NEW f, NEW S, Summable(f, S), NEW x \in S
    PROVE  /\ Summable(f, S \ {x})
           /\ SumFunctionOnSet(f, S \ {x}) = SumFunctionOnSet(f, S) - f[x]
<1> DEFINE R == S \ {x}
<1>1. Summable(f, R) /\ f[x] \in Int
  BY FS_RemoveElement DEF Summable
<1>2. PICK a : IsAdder(f, a, S) /\ SumFunctionOnSet(f, S) = a[S]
  BY SumAdds
<1>3. PICK b : IsAdder(f, b, R) /\ SumFunctionOnSet(f, R) = b[R]
  BY <1>1, SumAdds
<1>4. R \in SUBSET S /\ R \in SUBSET R /\ S \in SUBSET S
  OBVIOUS
<1>5. a[S] = f[x] + a[R]
  BY <1>2, <1>4, AnyFirst
<1>6. b[R] = a[R] /\ b[R] \in Int
  <2> HIDE DEF R
  <2>1. \A s \in SUBSET R : Adds(f, b, s)
    BY <1>3 DEF IsAdder
  <2>2. IsAdder(f, a, S) /\ R \in SUBSET S
    BY <1>2, <1>4
  <2>3. \A s \in SUBSET R : b[s] = a[s]
    BY <2>1, <2>2, AddersAgree
  <2> QED BY <1>3, <1>4, <2>3 DEF IsAdder
<1> HIDE DEF R
<1>7. b[R] = a[S] - f[x]
  <2>1. PICK i \in Int, j \in Int : i = f[x] /\ j = b[R]
    BY <1>1, <1>6
  <2>2. a[S] = i + j
    BY <1>5, <1>6, <2>1
  <2> QED BY <2>1, <2>2
<1> QED BY <1>1, <1>2, <1>3, <1>7 DEF R

LEMMA SumWith ==
    ASSUME NEW f, NEW S, Summable(f, S), NEW x, x \notin S, f[x] \in Int
    PROVE  /\ Summable(f, S \cup {x})
           /\ SumFunctionOnSet(f, S \cup {x}) = SumFunctionOnSet(f, S) + f[x]
<1> DEFINE T == S \cup {x}
<1>1. Summable(f, T) /\ x \in T /\ T \ {x} = S
  BY FS_AddElement DEF Summable
<1> HIDE DEF T
<1>2. /\ SumFunctionOnSet(f, S) = SumFunctionOnSet(f, T) - f[x]
      /\ SumFunctionOnSet(f, T) \in Int
  BY <1>1, SumWithout, SumIsNumber
<1>3. SumFunctionOnSet(f, T) = SumFunctionOnSet(f, S) + f[x]
  BY <1>2
<1> QED BY <1>1, <1>3 DEF T

LEMMA SumAgrees ==
    ASSUME NEW f, NEW g, NEW S, Summable(f, S), \A x \in S : f[x] = g[x]
    PROVE  SumFunctionOnSet(g, S) = SumFunctionOnSet(f, S) /\ Summable(g, S)
<1>1. Summable(g, S)
  BY DEF Summable
<1>2. PICK a : IsAdder(f, a, S) /\ SumFunctionOnSet(f, S) = a[S]
  BY SumAdds
<1>3. PICK b : IsAdder(g, b, S) /\ SumFunctionOnSet(g, S) = b[S]
  BY <1>1, SumAdds
<1>4. ASSUME NEW s \in SUBSET S PROVE Adds(f, b, s)
  <2>1. Adds(g, b, s)
    BY <1>3 DEF IsAdder
  <2>2. s # {} => f[First(s)] = g[First(s)]
    BY DEF First
  <2> QED BY <2>1, <2>2 DEF Adds
<1>5. S \in SUBSET S
  OBVIOUS
<1> QED BY <1>1, <1>2, <1>3, <1>4, <1>5, AddersAgree

\* One value of a function changes.
LEMMA SumChanges ==
    ASSUME NEW f, NEW g, NEW S, Summable(f, S), NEW x \in S, g[x] \in Int,
           \A y \in S : y # x => f[y] = g[y]
    PROVE  /\ Summable(g, S)
           /\ SumFunctionOnSet(g, S) = SumFunctionOnSet(f, S) - f[x] + g[x]
<1> DEFINE R == S \ {x}
<1>1. /\ Summable(f, R) /\ SumFunctionOnSet(f, R) = SumFunctionOnSet(f, S) - f[x]
      /\ x \notin R /\ R \cup {x} = S
  BY SumWithout
<1>2. \A y \in R : f[y] = g[y]
  OBVIOUS
<1> HIDE DEF R
<1>3. SumFunctionOnSet(g, R) = SumFunctionOnSet(f, R) /\ Summable(g, R)
  BY <1>1, <1>2, SumAgrees
<1>4. /\ Summable(g, R \cup {x})
      /\ SumFunctionOnSet(g, R \cup {x}) = SumFunctionOnSet(g, R) + g[x]
  BY <1>1, <1>3, SumWith
<1> QED BY <1>1, <1>3, <1>4

\* A function of a domain one larger.
LEMMA SumGrows ==
    ASSUME NEW f, NEW S, Summable(f, S), DOMAIN f = S, NEW x, x \notin S,
           NEW g, DOMAIN g = S \cup {x}, g[x] \in Int, \A y \in S : g[y] = f[y]
    PROVE  /\ Summable(g, DOMAIN g)
           /\ SumFunction(g) = SumFunction(f) + g[x]
<1>1. SumFunctionOnSet(g, S) = SumFunctionOnSet(f, S) /\ Summable(g, S)
  BY SumAgrees
<1>2. /\ Summable(g, S \cup {x})
      /\ SumFunctionOnSet(g, S \cup {x}) = SumFunctionOnSet(g, S) + g[x]
  BY <1>1, SumWith
<1> QED BY <1>1, <1>2 DEF SumFunction

\* No value is negative.
LEMMA SumNotNegative ==
    ASSUME NEW f, NEW S, Summable(f, S), \A x \in S : 0 <= f[x]
    PROVE  0 <= SumFunctionOnSet(f, S)
<1>1. PICK a : IsAdder(f, a, S) /\ SumFunctionOnSet(f, S) = a[S]
  BY SumAdds
<1> DEFINE B == {T \in SUBSET S : ~(0 <= a[T])}
<1> SUFFICES ASSUME B # {} PROVE FALSE
  BY <1>1
<1>2. B \in SUBSET SUBSET S /\ IsFiniteSet(S)
  BY DEF Summable
<1>3. PICK T \in B : \A x \in T : T \ {x} \notin B
  <2> HIDE DEF B
  <2> QED BY <1>2, SmallestExists
<1>4. T \in SUBSET S /\ ~(0 <= a[T])
  OBVIOUS
<1>5. Adds(f, a, T) /\ a \in [SUBSET S -> Int]
  BY <1>1, <1>4 DEF IsAdder
<1>6. CASE T = {}
  BY <1>4, <1>5, <1>6 DEF Adds
<1>7. CASE T # {}
  <2>1. First(T) \in T
    BY <1>7 DEF First
  <2>2. 0 <= a[T \ {First(T)}] /\ T \ {First(T)} \in SUBSET S
    BY <1>3, <1>4, <2>1
  <2>3. 0 <= f[First(T)] /\ f[First(T)] \in Int /\ a[T \ {First(T)}] \in Int
    BY <1>4, <1>5, <2>1, <2>2 DEF Summable
  <2> QED BY <1>4, <1>5, <1>7, <2>2, <2>3 DEF Adds
<1> QED BY <1>6, <1>7

\* All values are the same.
LEMMA SumOfSame ==
    ASSUME NEW f, NEW S, IsFiniteSet(S), NEW c \in Int, \A x \in S : f[x] = c
    PROVE  SumFunctionOnSet(f, S) = Cardinality(S) * c
<1> DEFINE B == {T \in SUBSET S : SumFunctionOnSet(f, T) # Cardinality(T) * c}
<1> SUFFICES ASSUME B # {} PROVE FALSE
  OBVIOUS
<1>1. B \in SUBSET SUBSET S
  OBVIOUS
<1>2. PICK T \in B : \A x \in T : T \ {x} \notin B
  <2> HIDE DEF B
  <2> QED BY <1>1, SmallestExists
<1>3. T \in SUBSET S /\ SumFunctionOnSet(f, T) # Cardinality(T) * c
  OBVIOUS
<1>4. CASE T = {}
  <2>1. SumFunctionOnSet(f, T) = 0 /\ Cardinality(T) = 0
    BY <1>4, SumOfNone, FS_EmptySet
  <2> QED BY <1>3, <2>1
<1>5. CASE T # {}
  <2>1. PICK x \in T : TRUE
    BY <1>5
  <2>2. SumFunctionOnSet(f, T \ {x}) = Cardinality(T \ {x}) * c
    BY <1>2, <1>3, <2>1
  <2>3. IsFiniteSet(T) /\ Summable(f, T)
    BY <1>3, FS_Subset DEF Summable
  <2>4. Cardinality(T \ {x}) = Cardinality(T) - 1 /\ Cardinality(T) \in Nat
    BY <2>1, <2>3, FS_RemoveElement, FS_CardinalityType
  <2>5. SumFunctionOnSet(f, T \ {x}) = SumFunctionOnSet(f, T) - c /\ SumFunctionOnSet(f, T) \in Int
    BY <1>3, <2>1, <2>3, SumWithout, SumIsNumber
  <2>6. \A n \in Nat : n * c = (n - 1) * c + c
    OBVIOUS
  <2> QED BY <1>3, <2>2, <2>4, <2>5, <2>6
<1> QED BY <1>4, <1>5

\* The members of sets that have none in common.
LEMMA SumOfSizes ==
    ASSUME NEW f, NEW S, IsFiniteSet(S), NEW F,
           \A x \in S : IsFiniteSet(F[x]) /\ f[x] = Cardinality(F[x]),
           \A x, y \in S : x # y => F[x] \cap F[y] = {}
    PROVE  SumFunctionOnSet(f, S) = Cardinality(UNION {F[x] : x \in S})
<1> DEFINE All(T) == UNION {F[x] : x \in T}
           Holds(T) == IsFiniteSet(All(T)) /\ SumFunctionOnSet(f, T) = Cardinality(All(T))
           B == {T \in SUBSET S : ~Holds(T)}
<1> SUFFICES ASSUME B # {} PROVE FALSE
  OBVIOUS
<1>1. B \in SUBSET SUBSET S
  OBVIOUS
<1>2. PICK T \in B : \A x \in T : T \ {x} \notin B
  <2> HIDE DEF B
  <2> QED BY <1>1, SmallestExists
<1>3. T \in SUBSET S /\ ~Holds(T)
  OBVIOUS
<1>4. CASE T = {}
  <2>1. All(T) = {}
    BY <1>4
  <2>2. SumFunctionOnSet(f, T) = 0
    BY <1>4, SumOfNone
  <2> HIDE DEF All
  <2> QED BY <1>3, <2>1, <2>2, FS_EmptySet
<1>5. CASE T # {}
  <2>1. PICK x \in T : TRUE
    BY <1>5
  <2> DEFINE R == All(T \ {x})
  <2>2. Holds(T \ {x})
    <3> HIDE DEF Holds
    <3> QED BY <1>2, <1>3, <2>1
  <2>3. IsFiniteSet(F[x]) /\ f[x] = Cardinality(F[x]) /\ Cardinality(F[x]) \in Nat
    BY <1>3, <2>1, FS_CardinalityType
  <2>4. All(T) = R \cup F[x] /\ R \cap F[x] = {}
    BY <1>3, <2>1
  <2>5. IsFiniteSet(T) /\ Summable(f, T)
    <3>1. \A y \in T : f[y] \in Int
      BY <1>3, FS_CardinalityType
    <3> QED BY <1>3, <3>1, FS_Subset DEF Summable
  <2>6. /\ SumFunctionOnSet(f, T \ {x}) = SumFunctionOnSet(f, T) - f[x]
        /\ SumFunctionOnSet(f, T) \in Int
    BY <2>1, <2>5, SumWithout, SumIsNumber
  <2>7. IsFiniteSet(R) /\ SumFunctionOnSet(f, T \ {x}) = Cardinality(R)
    BY <2>2
  <2> HIDE DEF R, All
  <2>8. /\ IsFiniteSet(R \cup F[x])
        /\ Cardinality(R \cup F[x]) = Cardinality(R) + Cardinality(F[x])
    <3>1. Cardinality(R \cap F[x]) = 0
      BY <2>4, FS_EmptySet
    <3>2. Cardinality(R) \in Nat
      BY <2>7, FS_CardinalityType
    <3> DEFINE X == F[x]
    <3>3. IsFiniteSet(X) /\ Cardinality(X) \in Nat /\ Cardinality(R \cap X) = 0
      BY <2>3, <3>1
    <3> HIDE DEF X
    <3>4. /\ IsFiniteSet(R \cup X)
          /\ Cardinality(R \cup X) = Cardinality(R) + Cardinality(X) - Cardinality(R \cap X)
      BY <2>7, <3>3, FS_Union
    <3>5. Cardinality(R \cup X) = Cardinality(R) + Cardinality(X)
      BY <3>2, <3>3, <3>4
    <3> QED BY <3>4, <3>5 DEF X
  <2>9. Cardinality(R) \in Nat
    BY <2>7, FS_CardinalityType
  <2> QED BY <1>3, <2>3, <2>4, <2>6, <2>7, <2>8, <2>9
<1> QED BY <1>4, <1>5
===============================================================================
