----------------------------- MODULE DataLemmas -----------------------------
(***************************************************************************)
(* Facts about data that the proofs of several components need: the least  *)
(* and the i-th element of a set of numbers, finite sums, and sequences of *)
(* sequences, flattened.  What one would prove by induction is proved by a *)
(* minimal counterexample here: the set of the numbers at which the claim  *)
(* fails has no least element, so it is empty.                             *)
(***************************************************************************)
EXTENDS Integers, SequencesExt, FiniteSetTheorems, SequenceTheorems, WellFoundedInduction, TLAPS

\* A set of numbers has a least element.
LEMMA LeastOf ==
    ASSUME NEW T, T \subseteq Nat, T # {}
    PROVE  \E x \in T : \A y \in T : x <= y
<1> DEFINE R == OpToRel(<, Nat)
<1>1. IsWellFoundedOn(R, Nat)
  BY NatLessThanWellFounded
<1>2. \A x, y \in Nat : x < y => <<x, y>> \in R
  BY DEF OpToRel
<1> HIDE DEF R
<1>3. PICK x \in T : \A y \in T : ~ (<<y, x>> \in R)
  BY <1>1, WFMin
<1>4. \A y \in T : x <= y
  <2> TAKE y \in T
  <2>1. x \in Nat /\ y \in Nat /\ ~ (y < x)
    BY <1>2, <1>3
  <2> QED
    BY <2>1
<1> QED
  BY <1>4

\* A bounded set of numbers has a greatest element.
LEMMA GreatestOf ==
    ASSUME NEW L \in Nat, NEW T, T \subseteq 0 .. L, T # {}
    PROVE  \E x \in T : \A y \in T : y <= x
<1> DEFINE U == {L - y : y \in T}
<1>1. U \subseteq Nat /\ U # {}
  <2>1. \A y \in T : L - y \in Nat
    OBVIOUS
  <2> QED
    BY <2>1
<1>2. PICK u \in U : \A w \in U : u <= w
  BY <1>1, LeastOf
<1>3. PICK x \in T : u = L - x
  BY <1>2
<1>4. ASSUME NEW y \in T PROVE y <= x
  <2>1. L - x <= L - y
    BY <1>2, <1>3
  <2> QED
    BY <2>1
<1> QED
  BY <1>4

UpTo(S, f) == {g \in S : g <= f}

\* A bounded set of numbers has an i-th element, in their order, for each i up to their number.
LEMMA NthOf ==
    ASSUME NEW L \in Nat, NEW S, S \subseteq 1 .. L, NEW i \in 1 .. Cardinality(S)
    PROVE  /\ Cardinality(S) \in Nat
           /\ \E f \in S : Cardinality(UpTo(S, f)) = i
<1> DEFINE T == {f \in S : Cardinality(UpTo(S, f)) >= i}
<1>1. IsFiniteSet(S) /\ \A f \in S : IsFiniteSet(UpTo(S, f))
  <2>1. 1 \in Int /\ L \in Int
    OBVIOUS
  <2>2. IsFiniteSet(1 .. L)
    BY <2>1, FS_Interval
  <2>3. \A f \in S : UpTo(S, f) \subseteq 1 .. L
    BY DEF UpTo
  <2> QED
    BY <2>2, <2>3, FS_Subset
<1>2. Cardinality(S) \in Nat /\ \A f \in S : Cardinality(UpTo(S, f)) \in Nat
  BY <1>1, FS_CardinalityType
<1>3. S # {}
  BY <1>2, FS_EmptySet
<1>4. S \subseteq 0 .. L /\ S \subseteq Nat
  OBVIOUS
<1>5. PICK m \in S : \A y \in S : y <= m
  BY <1>3, <1>4, GreatestOf
<1>6. UpTo(S, m) = S
  BY <1>5 DEF UpTo
<1>7. m \in T
  BY <1>2, <1>6
<1>8. T \subseteq Nat /\ T # {}
  BY <1>4, <1>7
<1>9. PICK f \in T : \A y \in T : f <= y
  BY <1>8, LeastOf
<1>10. f \in S /\ f \in Nat /\ Cardinality(UpTo(S, f)) \in Nat /\ Cardinality(UpTo(S, f)) >= i
  BY <1>2, <1>4, <1>9
<1>11. ASSUME Cardinality(UpTo(S, f)) # i PROVE FALSE
  <2> DEFINE D == UpTo(S, f) \ {f}
  <2>1. f \in UpTo(S, f)
    BY <1>10 DEF UpTo
  <2>2. IsFiniteSet(D) /\ Cardinality(D) = Cardinality(UpTo(S, f)) - 1
    BY <1>1, <1>10, <2>1, FS_RemoveElement
  <2>3. Cardinality(D) >= i /\ Cardinality(D) \in Nat
    BY <1>10, <1>11, <2>2
  <2>4. D # {}
    BY <2>3, FS_EmptySet
  <2>5. D \subseteq 0 .. L
    BY <1>4 DEF UpTo
  <2>6. PICK h \in D : \A y \in D : y <= h
    BY <2>4, <2>5, GreatestOf
  <2>7. h \in S /\ h \in Nat /\ h < f
    BY <1>4, <1>10, <2>6 DEF UpTo
  <2>8. UpTo(S, h) = D
    <3>1. ASSUME NEW g \in S PROVE g <= h <=> g \in D
      BY <1>4, <1>10, <2>6, <2>7, <3>1 DEF UpTo
    <3> QED
      BY <3>1 DEF UpTo
  <2>9. h \in T
    BY <2>3, <2>7, <2>8
  <2> QED
    BY <1>9, <1>10, <2>7, <2>9
<1> QED
  BY <1>2, <1>10, <1>11

-----------------------------------------------------------------------------
(* Sums over finite sets: SumFunctionOnSet of the community modules is a   *)
(* recursive function on the subsets; it is shown to exist, and to be what *)
(* it should be, by the least number of elements where it is not.          *)

AnyOf(s) == CHOOSE x \in s : TRUE

\* h is the table that a sum over S is read from: the sums over its subsets.
Table(h, f, S) ==
    h = [s \in SUBSET S |-> IF s = {} THEN 0 ELSE f[AnyOf(s)] + h[s \ {AnyOf(s)}]]

LEMMA SumIsFromTable == \A f, S : SumFunctionOnSet(f, S) = (CHOOSE h : Table(h, f, S))[S]
  BY DEF SumFunctionOnSet, FoldFunctionOnSet, MapThenFoldSet, Table, AnyOf

LEMMA AnyIsIn == \A s : s # {} => AnyOf(s) \in s
  BY DEF AnyOf

LEMMA Smaller ==
  ASSUME NEW S, IsFiniteSet(S), NEW s \in SUBSET S, NEW x \in s
  PROVE  /\ IsFiniteSet(s) /\ Cardinality(s) \in Nat /\ Cardinality(s) # 0
         /\ s \ {x} \in SUBSET S /\ IsFiniteSet(s \ {x})
         /\ Cardinality(s \ {x}) = Cardinality(s) - 1 /\ Cardinality(s \ {x}) \in Nat
<1>1. IsFiniteSet(s) /\ s \ {x} \in SUBSET S
  BY FS_Subset
<1>2. IsFiniteSet(s \ {x}) /\ Cardinality(s \ {x}) = Cardinality(s) - 1
  BY <1>1, FS_RemoveElement
<1>3. Cardinality(s) \in Nat /\ Cardinality(s \ {x}) \in Nat
  BY <1>1, <1>2, FS_CardinalityType
<1> QED
  BY <1>1, <1>2, <1>3

\* h is the table as far as the subsets of at most n elements.
TableTo(h, f, S, n) ==
    /\ h \in [SUBSET S -> Int]
    /\ \A s \in SUBSET S : Cardinality(s) <= n =>
          h[s] = IF s = {} THEN 0 ELSE f[AnyOf(s)] + h[s \ {AnyOf(s)}]

LEMMA TableGrows ==
  ASSUME NEW S, IsFiniteSet(S), NEW f, \A x \in S : f[x] \in Int, NEW n \in Nat, NEW h, TableTo(h, f, S, n)
  PROVE  \E k : TableTo(k, f, S, n + 1)
<1> DEFINE k == [s \in SUBSET S |-> IF Cardinality(s) <= n \/ s = {} THEN h[s] ELSE f[AnyOf(s)] + h[s \ {AnyOf(s)}]]
<1>1. h \in [SUBSET S -> Int]
  BY DEF TableTo
<1>2. ASSUME NEW s \in SUBSET S, s # {}
      PROVE  /\ f[AnyOf(s)] \in Int /\ s \ {AnyOf(s)} \in SUBSET S /\ Cardinality(s) \in Nat
             /\ Cardinality(s \ {AnyOf(s)}) = Cardinality(s) - 1
  <2>1. AnyOf(s) \in s
    BY <1>2, AnyIsIn
  <2> QED
    BY <2>1, Smaller
<1>3. k \in [SUBSET S -> Int]
  BY <1>1, <1>2
<1>4. ASSUME NEW s \in SUBSET S, Cardinality(s) <= n + 1
      PROVE  k[s] = IF s = {} THEN 0 ELSE f[AnyOf(s)] + k[s \ {AnyOf(s)}]
  <2>1. CASE s = {}
    <3>1. Cardinality(s) = 0
      BY <2>1, FS_EmptySet
    <3> QED
      BY <2>1, <3>1 DEF TableTo
  <2>2. CASE s # {}
    <3> DEFINE t == s \ {AnyOf(s)}
    <3>0. t \in SUBSET S /\ Cardinality(t) = Cardinality(s) - 1
      BY <1>2, <2>2
    <3>1. t \in SUBSET S /\ Cardinality(t) <= n /\ Cardinality(s) \in Nat
      <4>1. Cardinality(s) \in Nat
        BY <1>2, <2>2
      <4> HIDE DEF t
      <4> QED
        BY <1>4, <3>0, <4>1
    <3>2. k[t] = h[t]
      BY <3>1
    <3>3. CASE Cardinality(s) <= n
      <4>1. h[s] = f[AnyOf(s)] + h[t]
        BY <2>2, <3>3 DEF TableTo
      <4> QED
        BY <2>2, <3>2, <3>3, <4>1
    <3>4. CASE ~ (Cardinality(s) <= n)
      BY <2>2, <3>2, <3>4
    <3> QED
      BY <3>3, <3>4
  <2> QED
    BY <2>1, <2>2
<1> HIDE DEF k
<1>5. TableTo(k, f, S, n + 1)
  BY <1>3, <1>4 DEF TableTo
<1> QED
  BY <1>5

LEMMA TableExists ==
  ASSUME NEW S, IsFiniteSet(S), NEW f, \A x \in S : f[x] \in Int
  PROVE  \E h \in [SUBSET S -> Int] : Table(h, f, S)
<1> DEFINE Missing == {n \in Nat : ~ \E h : TableTo(h, f, S, n)}
<1>1. ASSUME Missing # {} PROVE FALSE
  <2>1. PICK n \in Missing : \A m \in Missing : n <= m
    BY <1>1, LeastOf
  <2>2. n # 0
    <3> DEFINE h == [s \in SUBSET S |-> 0]
    <3>1. ASSUME NEW s \in SUBSET S, Cardinality(s) <= 0 PROVE s = {}
      <4>1. IsFiniteSet(s) /\ Cardinality(s) \in Nat
        BY FS_Subset, FS_CardinalityType
      <4> QED
        BY <3>1, <4>1, FS_EmptySet
    <3>2. TableTo(h, f, S, 0)
      BY <3>1 DEF TableTo
    <3> QED
      BY <3>2
  <2>3. n - 1 \in Nat /\ n - 1 \notin Missing
    BY <2>1, <2>2
  <2>4. PICK h : TableTo(h, f, S, n - 1)
    BY <2>3
  <2>5. \E k : TableTo(k, f, S, (n - 1) + 1)
    BY <2>3, <2>4, TableGrows
  <2>6. (n - 1) + 1 = n
    BY <2>1
  <2> QED
    BY <2>1, <2>5, <2>6
<1>2. Cardinality(S) \in Nat
  BY FS_CardinalityType
<1>3. PICK h : TableTo(h, f, S, Cardinality(S))
  BY <1>1, <1>2
<1>4. \A s \in SUBSET S : Cardinality(s) <= Cardinality(S)
  BY FS_Subset
<1>5. h \in [SUBSET S -> Int]
      /\ \A s \in SUBSET S : h[s] = IF s = {} THEN 0 ELSE f[AnyOf(s)] + h[s \ {AnyOf(s)}]
  BY <1>3, <1>4 DEF TableTo
<1>6. Table(h, f, S)
  BY <1>5 DEF Table
<1> QED
  BY <1>5, <1>6

\* Tables of functions that agree, agree.
LEMMA TablesAgree ==
  ASSUME NEW S, IsFiniteSet(S), NEW T, T \subseteq S, NEW f, NEW g, \A x \in T : f[x] = g[x],
         NEW h, Table(h, f, S), NEW k, Table(k, g, T)
  PROVE  \A s \in SUBSET T : h[s] = k[s]
<1> DEFINE Wrong == {n \in Nat : \E s \in SUBSET T : Cardinality(s) = n /\ h[s] # k[s]}
<1>1. ASSUME NEW s \in SUBSET S
      PROVE h[s] = IF s = {} THEN 0 ELSE f[AnyOf(s)] + h[s \ {AnyOf(s)}]
  BY DEF Table
<1>2. ASSUME NEW s \in SUBSET T
      PROVE k[s] = IF s = {} THEN 0 ELSE g[AnyOf(s)] + k[s \ {AnyOf(s)}]
  BY DEF Table
<1>3. ASSUME Wrong # {} PROVE FALSE
  <2>1. PICK n \in Wrong : \A m \in Wrong : n <= m
    BY <1>3, LeastOf
  <2>2. PICK s \in SUBSET T : Cardinality(s) = n /\ h[s] # k[s]
    BY <2>1
  <2>3. s # {} /\ s \in SUBSET S
    BY <1>1, <1>2, <2>2
  <2> DEFINE x == AnyOf(s)
             t == s \ {x}
  <2>4. x \in s /\ x \in T
    BY <2>2, <2>3, AnyIsIn
  <2>5. t \in SUBSET T /\ Cardinality(t) = n - 1 /\ Cardinality(t) \in Nat
    <3>1. s \in SUBSET S /\ x \in s /\ Cardinality(s) = n
      BY <2>2, <2>3, <2>4
    <3>2. Cardinality(t) = Cardinality(s) - 1 /\ Cardinality(t) \in Nat
      BY ONLY IsFiniteSet(S), <3>1, Smaller
    <3> QED
      BY <3>1, <3>2
  <2>6. h[t] = k[t]
    BY <2>1, <2>5
  <2>7. h[s] = f[x] + h[t] /\ k[s] = g[x] + k[t] /\ f[x] = g[x]
    BY <1>1, <1>2, <2>2, <2>3, <2>4
  <2> QED
    BY <2>2, <2>6, <2>7
<1>4. ASSUME NEW s \in SUBSET T PROVE Cardinality(s) \in Nat
  BY FS_Subset, FS_CardinalityType
<1> QED
  BY <1>3, <1>4

LEMMA SumTable ==
  ASSUME NEW S, IsFiniteSet(S), NEW f, \A x \in S : f[x] \in Int
  PROVE  \E h \in [SUBSET S -> Int] : Table(h, f, S) /\ SumFunctionOnSet(f, S) = h[S]
<1> DEFINE h == CHOOSE h : Table(h, f, S)
<1>1. PICK k \in [SUBSET S -> Int] : Table(k, f, S)
  BY TableExists
<1>2. Table(h, f, S)
  BY <1>1
<1> HIDE DEF h
<1>3. \A s \in SUBSET S : h[s] = k[s]
  BY <1>1, <1>2, TablesAgree
<1>4. DOMAIN h = SUBSET S /\ h = [s \in SUBSET S |-> h[s]]
  BY <1>2 DEF Table
<1>5. h \in [SUBSET S -> Int]
  BY <1>1, <1>3, <1>4
<1>6. SumFunctionOnSet(f, S) = h[S]
  BY SumIsFromTable DEF h
<1> QED
  BY <1>2, <1>5, <1>6

\* A sum is a number, of no numbers 0, and depends on the numbers it is the sum of only.
LEMMA SumIsInt ==
  ASSUME NEW S, IsFiniteSet(S), NEW f, \A x \in S : f[x] \in Int
  PROVE  SumFunctionOnSet(f, S) \in Int
<1>1. PICK h \in [SUBSET S -> Int] : Table(h, f, S) /\ SumFunctionOnSet(f, S) = h[S]
  BY SumTable
<1> QED
  BY <1>1

LEMMA SumOfNone == \A f : SumFunctionOnSet(f, {}) = 0
<1> SUFFICES ASSUME NEW f PROVE SumFunctionOnSet(f, {}) = 0
  OBVIOUS
<1>1. IsFiniteSet({}) /\ \A x \in {} : f[x] \in Int
  BY FS_EmptySet
<1>2. PICK h \in [SUBSET {} -> Int] : Table(h, f, {}) /\ SumFunctionOnSet(f, {}) = h[{}]
  BY <1>1, SumTable
<1>3. {} \in SUBSET {}
  OBVIOUS
<1> QED
  BY <1>2, <1>3 DEF Table

LEMMA SumOfSame ==
  ASSUME NEW S, IsFiniteSet(S), NEW f, NEW g, \A x \in S : f[x] \in Int /\ f[x] = g[x]
  PROVE  SumFunctionOnSet(f, S) = SumFunctionOnSet(g, S)
<1>1. (\A x \in S : f[x] \in Int) /\ (\A x \in S : g[x] \in Int) /\ (\A x \in S : f[x] = g[x])
  OBVIOUS
<1>2. PICK h \in [SUBSET S -> Int] : Table(h, f, S) /\ SumFunctionOnSet(f, S) = h[S]
  BY <1>1, SumTable
<1>3. PICK k \in [SUBSET S -> Int] : Table(k, g, S) /\ SumFunctionOnSet(g, S) = k[S]
  BY <1>1, SumTable
<1>4. S \subseteq S /\ S \in SUBSET S
  OBVIOUS
<1>5. \A s \in SUBSET S : h[s] = k[s]
  BY <1>1, <1>2, <1>3, <1>4, TablesAgree
<1> QED
  BY <1>2, <1>3, <1>4, <1>5

\* A sum is its chosen number and the sum of the others ...
LEMMA SumWithAny ==
  ASSUME NEW S, IsFiniteSet(S), S # {}, NEW f, \A x \in S : f[x] \in Int
  PROVE  SumFunctionOnSet(f, S) = f[AnyOf(S)] + SumFunctionOnSet(f, S \ {AnyOf(S)})
<1> DEFINE T == S \ {AnyOf(S)}
<1>1. T \subseteq S /\ T \in SUBSET S /\ S \in SUBSET S /\ IsFiniteSet(T) /\ \A x \in T : f[x] \in Int
  BY FS_Subset
<1>2. PICK h \in [SUBSET S -> Int] : Table(h, f, S) /\ SumFunctionOnSet(f, S) = h[S]
  BY SumTable
<1>3. PICK k \in [SUBSET T -> Int] : Table(k, f, T) /\ SumFunctionOnSet(f, T) = k[T]
  BY <1>1, SumTable
<1>4. h[S] = f[AnyOf(S)] + h[T]
  BY <1>1, <1>2 DEF Table
<1>5. \A x \in T : f[x] = f[x]
  OBVIOUS
<1> HIDE DEF T
<1>6. \A s \in SUBSET T : h[s] = k[s]
  BY <1>1, <1>2, <1>3, <1>5, TablesAgree
<1>7. T \in SUBSET T
  OBVIOUS
<1>8. SumFunctionOnSet(f, T) = h[T]
  BY <1>3, <1>6, <1>7
<1> QED
  BY <1>2, <1>4, <1>8 DEF T

\* ... and any of its numbers and the sum of the others.
LEMMA SumWith ==
  ASSUME NEW S, IsFiniteSet(S), NEW y \in S, NEW f, \A x \in S : f[x] \in Int
  PROVE  SumFunctionOnSet(f, S) = f[y] + SumFunctionOnSet(f, S \ {y})
<1> DEFINE Sum(s) == SumFunctionOnSet(f, s)
           Wrong == {n \in Nat : \E s \in SUBSET S : \E z \in s :
                       Cardinality(s) = n /\ Sum(s) # f[z] + Sum(s \ {z})}
<1>1. ASSUME NEW s \in SUBSET S
      PROVE  IsFiniteSet(s) /\ (\A x \in s : f[x] \in Int) /\ Sum(s) \in Int
  <2>1. IsFiniteSet(s) /\ (\A x \in s : f[x] \in Int)
    BY FS_Subset
  <2> QED
    BY <2>1, SumIsInt
<1>2. ASSUME NEW s \in SUBSET S, s # {}
      PROVE  AnyOf(s) \in s /\ Sum(s) = f[AnyOf(s)] + Sum(s \ {AnyOf(s)})
  <2>1. IsFiniteSet(s) /\ (\A x \in s : f[x] \in Int)
    BY <1>1
  <2> QED
    BY <2>1, <1>2, SumWithAny, AnyIsIn
<1> HIDE DEF Sum
<1>3. ASSUME Wrong # {} PROVE FALSE
  <2>1. PICK n \in Wrong : \A m \in Wrong : n <= m
    BY <1>3, LeastOf
  <2>2. PICK s \in SUBSET S : \E z \in s : Cardinality(s) = n /\ Sum(s) # f[z] + Sum(s \ {z})
    BY <2>1
  <2>3. PICK z \in s : Cardinality(s) = n /\ Sum(s) # f[z] + Sum(s \ {z})
    BY <2>2
  <2> DEFINE c == AnyOf(s)
  <2>4. c \in s /\ Sum(s) = f[c] + Sum(s \ {c})
    BY <1>2, <2>3
  <2>5. c # z
    BY <2>3, <2>4
  <2>6. s \ {c} \in SUBSET S /\ Cardinality(s \ {c}) = n - 1 /\ n - 1 \in Nat
    <3>1. /\ s \ {c} \in SUBSET S /\ Cardinality(s \ {c}) = Cardinality(s) - 1
          /\ Cardinality(s \ {c}) \in Nat
      <4> HIDE DEF c, Sum, Wrong
      <4> QED
        BY ONLY IsFiniteSet(S), s \in SUBSET S, <2>4, Smaller
    <3> HIDE DEF c
    <3> QED
      BY <2>3, <3>1
  <2>7. n - 1 \notin Wrong
    <3>1. n \in Nat /\ n - 1 \in Nat /\ ~ (n <= n - 1)
      BY <2>1, <2>6
    <3> HIDE DEF Wrong
    <3> QED
      BY <2>1, <3>1
  <2>8. z \in s \ {c}
    BY <2>3, <2>5
  <2>9. Sum(s \ {c}) = f[z] + Sum((s \ {c}) \ {z})
    BY <2>6, <2>7, <2>8
  <2>10. s \ {z} \in SUBSET S /\ Cardinality(s \ {z}) = n - 1 /\ c \in s \ {z}
    BY <2>3, <2>4, <2>5, Smaller
  <2>11. Sum(s \ {z}) = f[c] + Sum((s \ {z}) \ {c})
    BY <2>6, <2>7, <2>10
  <2>12. (s \ {z}) \ {c} = (s \ {c}) \ {z} /\ (s \ {c}) \ {z} \in SUBSET S
    OBVIOUS
  <2>13. f[c] \in Int /\ f[z] \in Int /\ Sum((s \ {c}) \ {z}) \in Int
    BY <1>1, <2>3, <2>4, <2>12
  <2>14. Sum((s \ {z}) \ {c}) = Sum((s \ {c}) \ {z})
    BY <2>12
  <2> QED
    BY <2>3, <2>4, <2>9, <2>11, <2>13, <2>14
<1>4. Cardinality(S) \in Nat /\ S \in SUBSET S
  BY FS_CardinalityType
<1>5. Sum(S) = f[y] + Sum(S \ {y})
  BY <1>3, <1>4
<1> QED
  BY <1>5 DEF Sum

\* A sum does not depend on how its numbers are named.
LEMMA SumRenamed ==
  ASSUME NEW S, IsFiniteSet(S), NEW f, \A x \in S : f[x] \in Int,
         NEW T, NEW g, NEW name \in [S -> T],
         \A x, y \in S : name[x] = name[y] => x = y,
         \A t \in T : \E x \in S : name[x] = t,
         \A x \in S : g[name[x]] = f[x]
  PROVE  SumFunctionOnSet(g, T) = SumFunctionOnSet(f, S)
<1> DEFINE Names(s) == {name[x] : x \in s}
           Wrong == {n \in Nat : \E s \in SUBSET S :
                       Cardinality(s) = n /\ SumFunctionOnSet(g, Names(s)) # SumFunctionOnSet(f, s)}
<1>1. ASSUME NEW s \in SUBSET S
      PROVE  /\ IsFiniteSet(s) /\ (\A x \in s : f[x] \in Int) /\ Cardinality(s) \in Nat
             /\ IsFiniteSet(Names(s)) /\ (\A t \in Names(s) : g[t] \in Int)
  <2>1. IsFiniteSet(s) /\ (\A x \in s : f[x] \in Int)
    BY FS_Subset
  <2>2. IsFiniteSet(Names(s))
    <3>1. Names(s) = {name[x] : x \in s}
      OBVIOUS
    <3> DEFINE part == [x \in s |-> name[x]]
    <3>2. part \in Surjection(s, Names(s))
      BY DEF Surjection
    <3> HIDE DEF Names, part
    <3> QED
      BY <2>1, <3>2, FS_Surjection
  <2>3. \A t \in Names(s) : g[t] \in Int
    OBVIOUS
  <2> QED
    BY <2>1, <2>2, <2>3, FS_CardinalityType
<1>2. ASSUME NEW s \in SUBSET S, NEW x \in s
      PROVE  name[x] \in Names(s) /\ Names(s) \ {name[x]} = Names(s \ {x})
  OBVIOUS
<1>3. Names({}) = {}
  OBVIOUS
<1>4. ASSUME Wrong # {} PROVE FALSE
  <2>1. PICK n \in Wrong : \A m \in Wrong : n <= m
    BY <1>4, LeastOf
  <2>2. PICK s \in SUBSET S : Cardinality(s) = n /\ SumFunctionOnSet(g, Names(s)) # SumFunctionOnSet(f, s)
    BY <2>1
  <2> HIDE DEF Names
  <2>3. s # {}
    BY <2>2, <1>3, SumOfNone
  <2>4. PICK x \in s : TRUE
    BY <2>3
  <2>51. s \in SUBSET S /\ x \in s /\ Cardinality(s) = n
    BY <2>2, <2>4
  <2>5. s \ {x} \in SUBSET S /\ Cardinality(s \ {x}) = n - 1 /\ n - 1 \in Nat
    <3>1. s \ {x} \in SUBSET S /\ Cardinality(s \ {x}) = Cardinality(s) - 1 /\ Cardinality(s \ {x}) \in Nat
      BY ONLY IsFiniteSet(S), <2>51, Smaller
    <3> QED
      BY <2>51, <3>1
  <2>6. SumFunctionOnSet(g, Names(s \ {x})) = SumFunctionOnSet(f, s \ {x})
    BY <2>1, <2>5
  <2>7. SumFunctionOnSet(f, s) = f[x] + SumFunctionOnSet(f, s \ {x})
    BY <1>1, SumWith
  <2>8. SumFunctionOnSet(g, Names(s)) = g[name[x]] + SumFunctionOnSet(g, Names(s) \ {name[x]})
    BY <1>1, <1>2, SumWith
  <2>9. g[name[x]] = f[x] /\ Names(s) \ {name[x]} = Names(s \ {x})
    BY <1>2
  <2> QED
    BY <2>2, <2>6, <2>7, <2>8, <2>9
<1>5. Names(S) = T /\ S \in SUBSET S
  OBVIOUS
<1>6. Cardinality(S) \in Nat
  BY <1>5, <1>1
<1> HIDE DEF Names
<1> QED
  BY <1>4, <1>5, <1>6

\* A sum is the sum over a part and the sum over the rest.
LEMMA SumOfParts ==
  ASSUME NEW S, IsFiniteSet(S), NEW A, A \subseteq S, NEW f, \A x \in S : f[x] \in Int
  PROVE  SumFunctionOnSet(f, S) = SumFunctionOnSet(f, A) + SumFunctionOnSet(f, S \ A)
<1> DEFINE Sum(s) == SumFunctionOnSet(f, s)
           Wrong == {n \in Nat : \E s \in SUBSET S : Cardinality(s) = n /\ Sum(S) # Sum(s) + Sum(S \ s)}
<1>1. ASSUME NEW s \in SUBSET S
      PROVE  /\ IsFiniteSet(s) /\ (\A x \in s : f[x] \in Int) /\ Sum(s) \in Int /\ Cardinality(s) \in Nat
             /\ S \ s \in SUBSET S
  <2>1. IsFiniteSet(s) /\ (\A x \in s : f[x] \in Int)
    BY FS_Subset
  <2> QED
    BY <2>1, SumIsInt, FS_CardinalityType
<1>2. ASSUME NEW s \in SUBSET S, NEW x \in s PROVE Sum(s) = f[x] + Sum(s \ {x})
  <2>1. IsFiniteSet(s) /\ (\A y \in s : f[y] \in Int)
    BY <1>1
  <2> QED
    BY <2>1, SumWith
<1>3. Sum({}) = 0
  BY SumOfNone
<1> HIDE DEF Sum
<1>4. ASSUME Wrong # {} PROVE FALSE
  <2>1. PICK n \in Wrong : \A m \in Wrong : n <= m
    BY <1>4, LeastOf
  <2>2. PICK s \in SUBSET S : Cardinality(s) = n /\ Sum(S) # Sum(s) + Sum(S \ s)
    BY <2>1
  <2>3. s # {}
    <3>1. S \ {} = S /\ S \in SUBSET S
      OBVIOUS
    <3>2. Sum(S) \in Int
      BY <3>1, <1>1
    <3> QED
      BY <3>1, <3>2, <2>2, <1>3
  <2>4. PICK x \in s : TRUE
    BY <2>3
  <2> DEFINE r == s \ {x}
  <2>5. r \in SUBSET S /\ Cardinality(r) = n - 1 /\ n - 1 \in Nat
    <3>1. s \in SUBSET S /\ x \in s /\ Cardinality(s) = n
      BY <2>2, <2>4
    <3>2. r \in SUBSET S /\ Cardinality(r) = Cardinality(s) - 1 /\ Cardinality(r) \in Nat
      BY ONLY IsFiniteSet(S), <3>1, Smaller
    <3> QED
      BY <3>1, <3>2
  <2>6. Sum(S) = Sum(r) + Sum(S \ r)
    <3>1. n - 1 \notin Wrong
      BY <2>1, <2>5
    <3> QED
      BY <3>1, <2>5
  <2>7. Sum(s) = f[x] + Sum(r)
    BY <1>2
  <2>8. S \ r \in SUBSET S /\ x \in S \ r /\ (S \ r) \ {x} = S \ s
    BY <2>4
  <2>9. Sum(S \ r) = f[x] + Sum(S \ s)
    BY <2>8, <1>2
  <2>10. Sum(r) \in Int /\ Sum(S \ s) \in Int /\ f[x] \in Int
    BY <1>1, <2>5
  <2> QED
    BY <2>2, <2>6, <2>7, <2>9, <2>10
<1>5. A \in SUBSET S
  OBVIOUS
<1>6. Sum(S) = Sum(A) + Sum(S \ A)
  BY <1>1, <1>4, <1>5
<1> QED
  BY <1>6 DEF Sum

-----------------------------------------------------------------------------
(* Sequences of sequences, flattened: a library function with a table inside. *)

\* h[i] is the first i of the sequences in s, one after the other.
IsFlat(h, s) == h = [i \in 1 .. Len(s) |-> IF i = 1 THEN s[i] ELSE h[i - 1] \o s[i]]

LEMMA FlatIsFromTable ==
    ASSUME NEW s
    PROVE  FlattenSeq(s) = IF Len(s) = 0 THEN s ELSE (CHOOSE h : IsFlat(h, s))[Len(s)]
  BY DEF FlattenSeq, IsFlat

LEMMA FlatsAgree ==
    ASSUME NEW s, Len(s) \in Nat, NEW h, IsFlat(h, s), NEW k, IsFlat(k, s)
    PROVE  h = k
<1> DEFINE Wrong == {i \in 1 .. Len(s) : h[i] # k[i]}
<1>1. /\ \A i \in 1 .. Len(s) : h[i] = IF i = 1 THEN s[i] ELSE h[i - 1] \o s[i]
      /\ \A i \in 1 .. Len(s) : k[i] = IF i = 1 THEN s[i] ELSE k[i - 1] \o s[i]
  BY DEF IsFlat
<1>2. ASSUME Wrong # {} PROVE FALSE
  <2>0. Wrong \subseteq Nat
    OBVIOUS
  <2>1. PICK i \in Wrong : \A j \in Wrong : i <= j
    <3> HIDE DEF Wrong
    <3> QED
      BY <1>2, <2>0, LeastOf
  <2>2. i # 1
    BY <1>1, <2>1
  <2>3. i - 1 \in 1 .. Len(s) /\ i - 1 \notin Wrong
    BY <2>1, <2>2
  <2> QED
    BY <1>1, <2>1, <2>2, <2>3
<1>3. \A i \in 1 .. Len(s) : h[i] = k[i]
  BY <1>2
<1>4. h = [i \in 1 .. Len(s) |-> h[i]] /\ k = [i \in 1 .. Len(s) |-> k[i]]
  BY DEF IsFlat
<1> QED
  BY <1>3, <1>4

\* Any table gives the whole.
LEMMA FlatFrom ==
    ASSUME NEW s, Len(s) \in Nat \ {0}, NEW h, IsFlat(h, s)
    PROVE  FlattenSeq(s) = h[Len(s)]
<1>1. IsFlat(CHOOSE k : IsFlat(k, s), s)
  OBVIOUS
<1>2. (CHOOSE k : IsFlat(k, s)) = h
  BY <1>1, FlatsAgree
<1> QED
  BY <1>2, FlatIsFromTable

\* A table of s, with one entry more.
LEMMA FlatGrows ==
    ASSUME NEW S, NEW s \in Seq(Seq(S)), NEW x \in Seq(S),
           NEW h \in [1 .. Len(s) -> Seq(S)], IsFlat(h, s)
    PROVE  LET k == [i \in 1 .. Len(s) + 1 |-> IF i <= Len(s) THEN h[i] ELSE IF Len(s) = 0 THEN x ELSE h[Len(s)] \o x]
           IN  IsFlat(k, Append(s, x)) /\ k \in [1 .. Len(s) + 1 -> Seq(S)]
<1> DEFINE n == Len(s)
           t == Append(s, x)
           k == [i \in 1 .. n + 1 |-> IF i <= n THEN h[i] ELSE IF n = 0 THEN x ELSE h[n] \o x]
<1>1. /\ n \in Nat /\ Len(t) = n + 1 /\ t[n + 1] = x
      /\ \A i \in 1 .. n : t[i] = s[i]
  BY AppendProperties, LenProperties
<1>2. \A i \in 1 .. n : h[i] \in Seq(S) /\ h[i] = IF i = 1 THEN s[i] ELSE h[i - 1] \o s[i]
  BY DEF IsFlat
<1>3. \A i \in 1 .. n + 1 : k[i] \in Seq(S)
  <2>1. n # 0 => h[n] \o x \in Seq(S)
    <3>1. n # 0 => h[n] \in Seq(S)
      <4>1. n # 0 => n \in 1 .. n
        BY <1>1
      <4> HIDE DEF n
      <4> QED
        BY <1>2, <4>1
    <3> QED
      BY <3>1, ConcatProperties
  <2> HIDE DEF n
  <2>2. \A i \in 1 .. n + 1 : i <= n => i \in 1 .. n
    BY <1>1
  <2> QED
    BY <1>1, <1>2, <2>1, <2>2
<1> HIDE DEF n, t
<1>4. \A i \in 1 .. n + 1 : k[i] = IF i = 1 THEN t[i] ELSE k[i - 1] \o t[i]
  <2> SUFFICES ASSUME NEW i \in 1 .. n + 1
               PROVE  k[i] = IF i = 1 THEN t[i] ELSE k[i - 1] \o t[i]
    OBVIOUS
  <2>1. CASE i <= n
    <3>1. i \in 1 .. n
      BY <1>1, <2>1
    <3>2. CASE i = 1
      BY <1>1, <1>2, <3>1, <3>2
    <3>3. CASE i # 1
      <4>1. i - 1 \in 1 .. n
        BY <1>1, <3>1, <3>3
      <4>2. k[i - 1] = h[i - 1] /\ k[i] = h[i]
        BY <1>1, <3>1, <4>1
      <4>3. h[i] = h[i - 1] \o s[i] /\ t[i] = s[i]
        BY <1>1, <1>2, <3>1, <3>3
      <4> QED
        BY <3>3, <4>2, <4>3
    <3> QED
      BY <3>2, <3>3
  <2>2. CASE i = n + 1
    <3>1. CASE n = 0
      BY <1>1, <2>2, <3>1
    <3>2. CASE n # 0
      <4>0. n \in Nat
        BY <1>1
      <4>1. n \in 1 .. n /\ n \in 1 .. n + 1 /\ i # 1 /\ i - 1 = n /\ ~ (i <= n)
        <5> HIDE DEF k
        <5> QED
          BY <2>2, <3>2, <4>0
      <4>2. k[i] = h[n] \o x /\ k[i - 1] = h[n]
        BY <3>2, <4>1
      <4>3. t[i] = x
        BY <1>1, <2>2
      <4> HIDE DEF k
      <4> QED
        BY <4>1, <4>2, <4>3
    <3> QED
      BY <3>1, <3>2
  <2> QED
    BY <1>1, <2>1, <2>2
<1>5. k = [i \in 1 .. n + 1 |-> k[i]] /\ k \in [1 .. n + 1 -> Seq(S)]
  BY <1>3
<1>6. IsFlat(k, t)
  <2> HIDE DEF k
  <2>1. k = [i \in 1 .. n + 1 |-> IF i = 1 THEN t[i] ELSE k[i - 1] \o t[i]]
    BY <1>4, <1>5
  <2>2. Len(t) = n + 1
    BY <1>1
  <2> QED
    BY <2>1, <2>2 DEF IsFlat
<1> QED
  BY <1>5, <1>6 DEF n, t

\* There always is one.
LEMMA FlatExists ==
    ASSUME NEW S, NEW s \in Seq(Seq(S))
    PROVE  \E h \in [1 .. Len(s) -> Seq(S)] : IsFlat(h, s)
<1> DEFINE Has(t) == \E h \in [1 .. Len(t) -> Seq(S)] : IsFlat(h, t)
           Missing == {n \in Nat : \E t \in Seq(Seq(S)) : Len(t) = n /\ ~Has(t)}
<1>1. ASSUME Missing # {} PROVE FALSE
  <2>1. PICK n \in Missing : \A m \in Missing : n <= m
    BY <1>1, LeastOf
  <2>2. PICK t \in Seq(Seq(S)) : Len(t) = n /\ ~Has(t)
    BY <2>1
  <2>3. CASE t = <<>>
    <3>1. Len(t) = 0 /\ 1 .. Len(t) = {}
      BY <2>3
    <3> DEFINE h == [i \in 1 .. Len(t) |-> <<>>]
    <3>2. h \in [1 .. Len(t) -> Seq(S)] /\ IsFlat(h, t)
      BY <3>1 DEF IsFlat
    <3> QED
      BY <2>2, <3>2
  <2>4. CASE t # <<>>
    <3>1. PICK u \in Seq(Seq(S)), x \in Seq(S) : t = Append(u, x)
      BY <2>4, SequenceEmptyOrAppend
    <3>2. Len(u) \in Nat /\ Len(t) = Len(u) + 1
      BY <3>1, AppendProperties, LenProperties
    <3>3. Has(u)
      <4>1. Len(u) \in Nat /\ Len(u) \notin Missing
        <5> HIDE DEF Missing
        <5> QED
          BY <2>1, <2>2, <3>2
      <4> QED
        BY <4>1
    <3>4. PICK h \in [1 .. Len(u) -> Seq(S)] : IsFlat(h, u)
      BY <3>3
    <3>5. \E k \in [1 .. Len(u) + 1 -> Seq(S)] : IsFlat(k, Append(u, x))
      BY <3>4, FlatGrows
    <3> QED
      BY <2>2, <3>1, <3>2, <3>5
  <2> QED
    BY <2>3, <2>4
<1>2. Len(s) \in Nat
  BY LenProperties
<1> QED
  BY <1>1, <1>2

\* What comes last is last.
LEMMA FlatOfAppend ==
    ASSUME NEW S, NEW s \in Seq(Seq(S)), NEW x \in Seq(S)
    PROVE  FlattenSeq(Append(s, x)) = FlattenSeq(s) \o x
<1>1. PICK h \in [1 .. Len(s) -> Seq(S)] : IsFlat(h, s)
  BY FlatExists
<1> DEFINE n == Len(s)
           k == [i \in 1 .. n + 1 |-> IF i <= n THEN h[i] ELSE IF n = 0 THEN x ELSE h[n] \o x]
<1>2. IsFlat(k, Append(s, x))
  BY <1>1, FlatGrows
<1>3. n \in Nat /\ Len(Append(s, x)) = n + 1 /\ n + 1 \in Nat \ {0}
  BY AppendProperties, LenProperties
<1>4. FlattenSeq(Append(s, x)) = k[n + 1]
  <2> HIDE DEF k
  <2> QED
    BY <1>2, <1>3, FlatFrom
<1>5. CASE n = 0
  <2>1. s = <<>> /\ FlattenSeq(s) = s
    BY <1>5, FlatIsFromTable, EmptySeq
  <2>2. <<>> \o x = x
    BY ConcatEmptySeq
  <2> QED
    BY <1>3, <1>4, <1>5, <2>1, <2>2
<1>6. CASE n # 0
  <2>1. FlattenSeq(s) = h[n]
    BY <1>1, <1>3, <1>6, FlatFrom
  <2> QED
    BY <1>3, <1>4, <1>6, <2>1
<1> QED
  BY <1>5, <1>6

\* A flattened sequence of sequences is one.
LEMMA FlatIsSeq == ASSUME NEW S, NEW s \in Seq(Seq(S)) PROVE FlattenSeq(s) \in Seq(S)
<1>1. PICK h \in [1 .. Len(s) -> Seq(S)] : IsFlat(h, s)
  BY FlatExists
<1>2. Len(s) \in Nat
  BY LenProperties
<1>3. CASE Len(s) = 0
  <2>1. FlattenSeq(s) = <<>> /\ <<>> \in Seq(S)
    BY <1>3, FlatIsFromTable, EmptySeq
  <2> QED
    BY <2>1
<1>4. CASE Len(s) # 0
  <2>1. FlattenSeq(s) = h[Len(s)] /\ Len(s) \in 1 .. Len(s)
    BY <1>1, <1>2, <1>4, FlatFrom
  <2> QED
    BY <2>1
<1> QED
  BY <1>3, <1>4

\* What comes first is first.
LEMMA FlatOfHead ==
    ASSUME NEW S, NEW s \in Seq(Seq(S)), s # <<>>
    PROVE  FlattenSeq(s) = Head(s) \o FlattenSeq(Tail(s))
<1>0. ASSUME NEW a \in Seq(S), NEW b \in Seq(S), NEW c \in Seq(S)
      PROVE  (a \o b) \o c = a \o (b \o c)
  BY ONLY ConcatAssociative
<1> DEFINE t == Tail(s)
           n == Len(s)
           x == Head(s)
<1>1. /\ n \in Nat \ {0} /\ t \in Seq(Seq(S)) /\ x = s[1] /\ x \in Seq(S) /\ Len(t) = n - 1
      /\ \A i \in 1 .. n - 1 : t[i] = s[i + 1]
      /\ \A i \in 1 .. n : s[i] \in Seq(S)
  BY HeadTailProperties, EmptySeq, LenProperties, ElementOfSeq
<1>2. PICK h \in [1 .. Len(t) -> Seq(S)] : IsFlat(h, t)
  BY <1>1, FlatExists
<1> DEFINE k == [i \in 1 .. n |-> IF i = 1 THEN x ELSE x \o h[i - 1]]
<1>3. \A i \in 1 .. n - 1 : h[i] \in Seq(S) /\ h[i] = IF i = 1 THEN t[i] ELSE h[i - 1] \o t[i]
  BY <1>1, <1>2 DEF IsFlat
<1> HIDE DEF t, n, x
<1>4. \A i \in 1 .. n : k[i] = IF i = 1 THEN s[i] ELSE k[i - 1] \o s[i]
  <2> SUFFICES ASSUME NEW i \in 1 .. n, i # 1 PROVE k[i] = k[i - 1] \o s[i]
    BY <1>1
  <2>1. i - 1 \in 1 .. n - 1 /\ i - 1 \in 1 .. n /\ (i - 1) + 1 = i
    BY <1>1
  <2>2. k[i] = x \o h[i - 1] /\ s[i] = t[i - 1]
    BY <1>1, <2>1
  <2>3. CASE i = 2
    <3>1. i - 1 = 1
      BY <2>3
    <3> QED
      BY <1>3, <2>1, <2>2, <3>1
  <2>4. CASE i # 2
    <3>1. i - 1 # 1 /\ (i - 1) - 1 \in 1 .. n - 1
      BY <1>1, <2>1, <2>4
    <3>2. k[i - 1] = x \o h[(i - 1) - 1]
      BY <2>1, <3>1
    <3>3. h[i - 1] = h[(i - 1) - 1] \o t[i - 1]
      BY <1>3, <2>1, <3>1
    <3>4. h[(i - 1) - 1] \in Seq(S) /\ t[i - 1] \in Seq(S) /\ x \in Seq(S)
      BY <1>1, <1>3, <2>2, <3>1
    <3>5. PICK y, c, d \in Seq(S) : y = x /\ c = h[(i - 1) - 1] /\ d = t[i - 1]
      BY <3>4
    <3>6. (y \o c) \o d = y \o (c \o d)
      BY <1>0, <3>5
    <3> QED
      BY <2>2, <3>2, <3>3, <3>5, <3>6
  <2> QED
    BY <2>3, <2>4
<1>5. IsFlat(k, s)
  BY <1>4 DEF IsFlat, n
<1>6. FlattenSeq(s) = k[n]
  <2> HIDE DEF k
  <2> QED
    BY <1>1, <1>5, FlatFrom DEF n
<1>7. CASE n = 1
  <2>1. Len(t) = 0 /\ t = <<>>
    BY <1>1, <1>7, EmptySeq
  <2>2. FlattenSeq(t) = <<>> /\ x \o <<>> = x
    BY <1>1, <2>1, FlatIsFromTable, ConcatEmptySeq
  <2> QED
    BY <1>1, <1>6, <1>7, <2>2 DEF t, x
<1>8. CASE n # 1
  <2>1. FlattenSeq(t) = h[n - 1]
    <3>1. Len(t) \in Nat \ {0}
      BY <1>1, <1>8
    <3> QED
      BY <1>1, <1>2, <3>1, FlatFrom
  <2> QED
    BY <1>1, <1>6, <1>8, <2>1 DEF t, x
<1> QED
  BY <1>7, <1>8
=============================================================================
