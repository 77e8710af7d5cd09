-------------------------------- MODULE Sums --------------------------------
(***************************************************************************)
(* The sum of a function's values over a finite set, SumFunctionOnSet of   *)
(* module Functions: a fold that takes the members in an order nobody      *)
(* knows.  What is proved is that the order is of no consequence, so that  *)
(* a sum may be taken apart at any member, and that places in an order can *)
(* be numbered.                                                            *)
(*                                                                         *)
(* The induction theorems of the library are about operators.  These are   *)
(* about sets: of numbers, which have a least, and of subsets.             *)
(***************************************************************************)
EXTENDS Integers, FiniteSets, Functions, FiniteSetTheorems, WellFoundedInduction, TLAPS

\* A set of numbers that is not empty has a least one.
LEMMA LeastElement ==
  ASSUME NEW T \in SUBSET Nat, T # {}
  PROVE  \E n \in T : \A m \in T : n <= m
<1>1. PICK n \in T : \A m \in T : ~ (<<m, n>> \in OpToRel(<, Nat))
  BY NatLessThanWellFounded, WFMin
<1>2. \A m \in T : ~ (m < n)
  BY <1>1 DEF OpToRel
<1> QED
  BY <1>2

\* Induction over the numbers.
LEMMA NumberInduction ==
  ASSUME NEW Good \in SUBSET Nat, 0 \in Good, \A n \in Good : n + 1 \in Good
  PROVE  Good = Nat
<1> SUFFICES ASSUME Nat \ Good # {} PROVE FALSE
  OBVIOUS
<1>1. PICK n \in Nat \ Good : \A m \in Nat \ Good : n <= m
  BY LeastElement
<1>2. n # 0 /\ n - 1 \in Nat
  BY <1>1
<1>3. n - 1 \in Good
  BY <1>1, <1>2
<1>4. (n - 1) + 1 \in Good
  BY <1>3
<1> QED
  BY <1>1, <1>4

\* Induction over the subsets of a finite set.
LEMMA SubsetInduction ==
  ASSUME NEW S, IsFiniteSet(S), NEW Good \in SUBSET SUBSET S, {} \in Good,
         \A T \in Good : \A x \in S \ T : T \cup {x} \in Good
  PROVE  S \in Good
<1> DEFINE Sizes == {Cardinality(S \ T) : T \in Good}
<1>1. \A T \in SUBSET S : IsFiniteSet(S \ T) /\ Cardinality(S \ T) \in Nat
  BY FS_Subset, FS_CardinalityType
<1>2. Sizes \in SUBSET Nat /\ Sizes # {}
  BY <1>1
<1>3. PICK n \in Sizes : \A m \in Sizes : n <= m
  BY <1>2, LeastElement
<1>4. PICK T \in Good : n = Cardinality(S \ T)
  BY <1>3
<1>5. S \ T = {}
  <2> SUFFICES ASSUME NEW x \in S \ T PROVE FALSE
    OBVIOUS
  <2>1. T \cup {x} \in Good /\ S \ (T \cup {x}) = (S \ T) \ {x}
    OBVIOUS
  <2>2. Cardinality((S \ T) \ {x}) = n - 1
    BY <1>1, <1>4, FS_RemoveElement
  <2>3. n - 1 \in Sizes
    BY <2>1, <2>2
  <2>4. n \in Nat /\ n <= n - 1
    BY <1>2, <1>3, <2>3
  <2> QED
    BY <2>4
<1> QED
  BY <1>5

-----------------------------------------------------------------------------
\* The fold

First(s) == CHOOSE x \in s : TRUE

\* The partial sums over the members of D.
Sums(f, D) == CHOOSE sum : sum = [s \in D |->
                IF s = {} THEN 0 ELSE f[First(s)] + sum[s \ {First(s)}]]

LEMMA FoldIsSums ==
  ASSUME NEW f, NEW S
  PROVE  SumFunctionOnSet(f, S) = Sums(f, SUBSET S)[S]
BY DEF SumFunctionOnSet, FoldFunctionOnSet, MapThenFoldSet, Sums, First

LEMMA FirstIn ==
  ASSUME NEW s, s # {}
  PROVE  First(s) \in s
BY DEF First

\* The sets of at most n members.
Small(S, n) == {s \in SUBSET S : Cardinality(s) <= n}

LEMMA SmallSets ==
  ASSUME NEW S, IsFiniteSet(S), NEW n \in Nat
  PROVE  /\ \A s \in SUBSET S : IsFiniteSet(s) /\ Cardinality(s) \in Nat
         /\ Small(S, 0) = {{}}
         /\ {} \in Small(S, n)
         /\ \A s \in Small(S, n + 1) : \A x \in s : s \ {x} \in Small(S, n)
         /\ Small(S, n) \subseteq Small(S, n + 1)
         /\ Small(S, Cardinality(S)) = SUBSET S
<1>1. \A s \in SUBSET S : IsFiniteSet(s) /\ Cardinality(s) \in Nat /\ Cardinality(s) <= Cardinality(S)
  BY FS_Subset, FS_CardinalityType
<1>2. \A s \in SUBSET S : Cardinality(s) = 0 <=> s = {}
  BY <1>1, FS_EmptySet
<1>3. \A s \in Small(S, n + 1) : \A x \in s : s \ {x} \in Small(S, n)
  <2> SUFFICES ASSUME NEW s \in Small(S, n + 1), NEW x \in s
               PROVE  s \ {x} \in Small(S, n)
    OBVIOUS
  <2>1. Cardinality(s \ {x}) = Cardinality(s) - 1 /\ Cardinality(s) \in Nat
    BY <1>1, FS_RemoveElement DEF Small
  <2>2. Cardinality(s) <= n + 1
    BY DEF Small
  <2> QED
    BY <2>1, <2>2 DEF Small
<1>4. Small(S, 0) = {{}} /\ {} \in Small(S, n) /\ Small(S, n) \subseteq Small(S, n + 1)
  BY <1>1, <1>2 DEF Small
<1>5. Small(S, Cardinality(S)) = SUBSET S
  BY <1>1 DEF Small
<1> QED
  BY <1>1, <1>3, <1>4, <1>5

\* There are such sums.
LEMMA SumsThere ==
  ASSUME NEW S, IsFiniteSet(S), NEW f
  PROVE  \A s \in SUBSET S :
           Sums(f, SUBSET S)[s]
             = IF s = {} THEN 0 ELSE f[First(s)] + Sums(f, SUBSET S)[s \ {First(s)}]
<1> DEFINE Value(g, s) == IF s = {} THEN 0 ELSE f[First(s)] + g[s \ {First(s)}]
           Good == {n \in Nat : \E g : g = [s \in Small(S, n) |-> Value(g, s)]}
<1>1. 0 \in Good
  <2> DEFINE g == [s \in Small(S, 0) |-> 0]
  <2>1. g = [s \in Small(S, 0) |-> Value(g, s)]
    BY SmallSets
  <2> QED
    BY <2>1
<1>2. ASSUME NEW n \in Good PROVE n + 1 \in Good
  <2>1. PICK g : g = [s \in Small(S, n) |-> Value(g, s)]
    OBVIOUS
  <2> DEFINE h == [s \in Small(S, n + 1) |-> Value(g, s)]
  <2>2. \A s \in Small(S, n) : h[s] = g[s]
    <3>1. Small(S, n) \subseteq Small(S, n + 1)
      BY SmallSets
    <3> HIDE DEF Value
    <3>2. \A s \in Small(S, n) : h[s] = Value(g, s) /\ g[s] = Value(g, s)
      BY <2>1, <3>1
    <3> QED
      BY <3>2
  <2>3. \A s \in Small(S, n + 1) : Value(g, s) = Value(h, s)
    <3> SUFFICES ASSUME NEW s \in Small(S, n + 1), s # {}
                 PROVE  g[s \ {First(s)}] = h[s \ {First(s)}]
      OBVIOUS
    <3>1. s \ {First(s)} \in Small(S, n)
      BY SmallSets, FirstIn
    <3> QED
      BY <2>2, <3>1
  <2>4. h = [s \in Small(S, n + 1) |-> Value(h, s)]
    BY <2>3
  <2>5. \E k : k = [s \in Small(S, n + 1) |-> Value(k, s)]
    <3> HIDE DEF h, Value
    <3> QED
      BY <2>4
  <2>6. n + 1 \in Nat
    OBVIOUS
  <2> QED
    BY <2>5, <2>6, Zenon
<1>3. Good = Nat
  <2> HIDE DEF Good
  <2>1. Good \in SUBSET Nat
    BY DEF Good
  <2> QED
    BY <1>1, <1>2, <2>1, NumberInduction
<1>4. PICK g : g = [s \in SUBSET S |-> Value(g, s)]
  <2>1. Cardinality(S) \in Good
    BY <1>3, FS_CardinalityType
  <2> QED
    BY <2>1, SmallSets
<1>5. Sums(f, SUBSET S) = [s \in SUBSET S |-> Value(Sums(f, SUBSET S), s)]
  BY <1>4 DEF Sums
<1> QED
  BY <1>5

-----------------------------------------------------------------------------
\* Sums of numbers

Agree(f, g, T) == \A x \in T : f[x] = g[x]

\* Partial sums are numbers; and those of a part of S are the same.
LEMMA SumsAgree ==
  ASSUME NEW S, IsFiniteSet(S), NEW T \in SUBSET S, NEW f \in [S -> Nat],
         NEW g, Agree(f, g, T)
  PROVE  \A s \in SUBSET T : /\ Sums(g, SUBSET T)[s] \in Nat
                             /\ Sums(g, SUBSET T)[s] = Sums(f, SUBSET S)[s]
<1> DEFINE a == Sums(g, SUBSET T)
           b == Sums(f, SUBSET S)
           Good == {n \in Nat : \A s \in Small(T, n) : a[s] \in Nat /\ a[s] = b[s]}
<1>1. IsFiniteSet(T)
  BY FS_Subset
<1>2. \A s \in SUBSET T :
        /\ a[s] = IF s = {} THEN 0 ELSE g[First(s)] + a[s \ {First(s)}]
        /\ b[s] = IF s = {} THEN 0 ELSE f[First(s)] + b[s \ {First(s)}]
  <2>1. \A s \in SUBSET T : a[s] = IF s = {} THEN 0 ELSE g[First(s)] + a[s \ {First(s)}]
    BY <1>1, SumsThere
  <2>2. \A s \in SUBSET S : b[s] = IF s = {} THEN 0 ELSE f[First(s)] + b[s \ {First(s)}]
    BY SumsThere
  <2> HIDE DEF a, b
  <2> QED
    BY <2>1, <2>2
<1>3. {} \in SUBSET T /\ a[{}] = 0 /\ b[{}] = 0
  BY <1>2
<1> HIDE DEF a, b
<1>4. 0 \in Good
  <2>1. Small(T, 0) = {{}}
    BY <1>1, SmallSets
  <2> QED
    BY <1>3, <2>1
<1>5. ASSUME NEW n \in Good PROVE n + 1 \in Good
  <2> SUFFICES ASSUME NEW s \in Small(T, n + 1)
               PROVE  a[s] \in Nat /\ a[s] = b[s]
    OBVIOUS
  <2>0. CASE s = {}
    BY <1>3, <2>0
  <2> SUFFICES ASSUME s # {} PROVE a[s] \in Nat /\ a[s] = b[s]
    BY <2>0
  <2>1. s \in SUBSET T /\ First(s) \in s
    BY FirstIn DEF Small
  <2>2. s \ {First(s)} \in Small(T, n)
    BY <1>1, <2>1, SmallSets
  <2>3. g[First(s)] = f[First(s)] /\ f[First(s)] \in Nat
    BY <2>1 DEF Agree
  <2>4. a[s \ {First(s)}] \in Nat /\ a[s \ {First(s)}] = b[s \ {First(s)}]
    BY <2>2
  <2>5. a[s] = g[First(s)] + a[s \ {First(s)}] /\ b[s] = f[First(s)] + b[s \ {First(s)}]
    BY <1>2, <2>1
  <2> QED
    BY <2>3, <2>4, <2>5
<1>6. Good = Nat
  <2> HIDE DEF Good
  <2>1. Good \in SUBSET Nat
    BY DEF Good
  <2> QED
    BY <1>4, <1>5, <2>1, NumberInduction
<1>7. Small(T, Cardinality(T)) = SUBSET T /\ Cardinality(T) \in Good
  <2>1. Cardinality(T) \in Nat
    BY <1>1, FS_CardinalityType
  <2>2. Small(T, Cardinality(T)) = SUBSET T
    BY <1>1, SmallSets
  <2> QED
    BY <1>6, <2>1, <2>2
<1> QED
  BY <1>7 DEF a, b

\* Any member may be taken out of a partial sum.
LEMMA SumsSplit ==
  ASSUME NEW S, IsFiniteSet(S), NEW f \in [S -> Nat]
  PROVE  \A s \in SUBSET S : \A x \in s :
           Sums(f, SUBSET S)[s] = f[x] + Sums(f, SUBSET S)[s \ {x}]
<1> DEFINE a == Sums(f, SUBSET S)
           Good == {n \in Nat : \A s \in Small(S, n) : \A x \in s : a[s] = f[x] + a[s \ {x}]}
<1>1. \A s \in SUBSET S : a[s] \in Nat
  BY SumsAgree DEF Agree
<1>2. \A s \in SUBSET S : s # {} => a[s] = f[First(s)] + a[s \ {First(s)}]
  BY SumsThere
<1> HIDE DEF a
<1>3. 0 \in Good
  BY SmallSets
<1>4. ASSUME NEW n \in Good PROVE n + 1 \in Good
  <2> SUFFICES ASSUME NEW s \in Small(S, n + 1), NEW x \in s
               PROVE  a[s] = f[x] + a[s \ {x}]
    OBVIOUS
  <2>1. s \in SUBSET S /\ First(s) \in s
    BY FirstIn DEF Small
  <2>2. CASE x = First(s)
    BY <1>2, <2>1, <2>2
  <2>3. CASE x # First(s)
    <3> DEFINE y == First(s)
    <3>1. s \ {x} \in Small(S, n) /\ s \ {y} \in Small(S, n)
      BY <2>1, SmallSets
    <3>2. y \in s \ {x} /\ x \in s \ {y} /\ (s \ {x}) \ {y} = (s \ {y}) \ {x}
      BY <2>1, <2>3
    <3>3. a[s \ {x}] = f[y] + a[(s \ {x}) \ {y}] /\ a[s \ {y}] = f[x] + a[(s \ {y}) \ {x}]
      BY <3>1, <3>2
    <3>4. a[s] = f[y] + a[s \ {y}]
      BY <1>2, <2>1
    <3>5. f[x] \in Nat /\ f[y] \in Nat /\ a[(s \ {x}) \ {y}] \in Nat
      BY <1>1, <2>1
    <3> DEFINE rest == a[(s \ {x}) \ {y}]
    <3>6. a[s \ {x}] = f[y] + rest /\ a[s] = f[y] + (f[x] + rest) /\ rest \in Nat
      BY <3>2, <3>3, <3>4, <3>5
    <3> HIDE DEF rest, y
    <3> QED
      BY <3>5, <3>6
  <2> QED
    BY <2>2, <2>3
<1>5. Good = Nat
  <2> HIDE DEF Good
  <2>1. Good \in SUBSET Nat
    BY DEF Good
  <2> QED
    BY <1>3, <1>4, <2>1, NumberInduction
<1>6. Small(S, Cardinality(S)) = SUBSET S /\ Cardinality(S) \in Good
  <2>1. Cardinality(S) \in Nat
    BY FS_CardinalityType
  <2>2. Small(S, Cardinality(S)) = SUBSET S
    BY SmallSets
  <2> QED
    BY <1>5, <2>1, <2>2
<1> QED
  BY <1>6 DEF a

\* A sum over no member is 0, one over some is a member and the sum over the rest,
\* and it has no more in it than its members.
THEOREM SumOverSet ==
  ASSUME NEW S, IsFiniteSet(S), NEW f \in [S -> Nat]
  PROVE  /\ SumFunctionOnSet(f, {}) = 0
         /\ \A T \in SUBSET S : SumFunctionOnSet(f, T) \in Nat
         /\ \A T \in SUBSET S : \A x \in T :
              SumFunctionOnSet(f, T) = f[x] + SumFunctionOnSet(f, T \ {x})
         /\ \A T \in SUBSET S : \A g : Agree(f, g, T) =>
              SumFunctionOnSet(g, T) = SumFunctionOnSet(f, T)
<1>1. ASSUME NEW T \in SUBSET S, NEW g, Agree(f, g, T)
      PROVE  /\ SumFunctionOnSet(g, T) = Sums(f, SUBSET S)[T]
             /\ SumFunctionOnSet(g, T) \in Nat
  <2>1. T \in SUBSET T
    OBVIOUS
  <2>2. \A s \in SUBSET T : /\ Sums(g, SUBSET T)[s] \in Nat
                            /\ Sums(g, SUBSET T)[s] = Sums(f, SUBSET S)[s]
    BY <1>1, SumsAgree, Z3
  <2> QED
    BY <2>1, <2>2, FoldIsSums
<1>2. \A T \in SUBSET S :
        SumFunctionOnSet(f, T) = Sums(f, SUBSET S)[T] /\ SumFunctionOnSet(f, T) \in Nat
  BY <1>1 DEF Agree
<1>3. SumFunctionOnSet(f, {}) = 0
  BY <1>2, SumsThere
<1>4. ASSUME NEW T \in SUBSET S, NEW x \in T
      PROVE  SumFunctionOnSet(f, T) = f[x] + SumFunctionOnSet(f, T \ {x})
  <2>1. \A s \in SUBSET S : \A y \in s :
          Sums(f, SUBSET S)[s] = f[y] + Sums(f, SUBSET S)[s \ {y}]
    BY SumsSplit
  <2>2. T \ {x} \in SUBSET S
    OBVIOUS
  <2> QED
    BY <1>2, <2>1, <2>2
<1> QED
  BY <1>1, <1>2, <1>3, <1>4

\* One by one: a member is taken out of a sum,
LEMMA SumApart ==
  ASSUME NEW S, IsFiniteSet(S), NEW f \in [S -> Nat], NEW T \in SUBSET S, NEW x \in T
  PROVE  /\ SumFunctionOnSet(f, T) = f[x] + SumFunctionOnSet(f, T \ {x})
         /\ SumFunctionOnSet(f, T) \in Nat /\ SumFunctionOnSet(f, T \ {x}) \in Nat
<1>1. T \ {x} \in SUBSET S
  OBVIOUS
<1> QED
  BY <1>1, SumOverSet

\* and a sum is of its members' values and of nothing else.
LEMMA SumAlike ==
  ASSUME NEW S, IsFiniteSet(S), NEW f \in [S -> Nat], NEW T \in SUBSET S, NEW g, Agree(f, g, T)
  PROVE  SumFunctionOnSet(g, T) = SumFunctionOnSet(f, T)
BY SumOverSet

\* The sum of zeros is zero.
LEMMA SumOfZeros ==
  ASSUME NEW S, IsFiniteSet(S), NEW f \in [S -> Nat], \A x \in S : f[x] = 0
  PROVE  SumFunctionOnSet(f, S) = 0
<1> DEFINE Sum(T) == SumFunctionOnSet(f, T)
           Good == {T \in SUBSET S : Sum(T) = 0}
<1>1. /\ Sum({}) = 0 /\ \A T \in SUBSET S : Sum(T) \in Nat
      /\ \A T \in SUBSET S : \A x \in T : Sum(T) = f[x] + Sum(T \ {x})
  BY SumOverSet
<1> HIDE DEF Sum
<1>2. ASSUME NEW T \in Good, NEW x \in S \ T
      PROVE  T \cup {x} \in Good
  <2>1. T \cup {x} \in SUBSET S /\ (T \cup {x}) \ {x} = T /\ x \in T \cup {x}
    OBVIOUS
  <2>2. Sum(T \cup {x}) = f[x] + Sum(T)
    BY <1>1, <2>1
  <2> QED
    BY <2>1, <2>2
<1>3. {} \in Good
  BY <1>1
<1>4. S \in Good
  <2> HIDE DEF Good
  <2>1. Good \in SUBSET SUBSET S
    BY DEF Good
  <2> QED
    BY <1>2, <1>3, <2>1, SubsetInduction
<1> QED
  BY <1>4 DEF Sum

-----------------------------------------------------------------------------
\* Sums over parts

\* Two sets without a common member: the sum over both is that over each.
LEMMA SumOverBoth ==
  ASSUME NEW S, IsFiniteSet(S), NEW f \in [S -> Nat],
         NEW A \in SUBSET S, NEW B \in SUBSET S, A \cap B = {}
  PROVE  SumFunctionOnSet(f, A \cup B) = SumFunctionOnSet(f, A) + SumFunctionOnSet(f, B)
<1> DEFINE Sum(T) == SumFunctionOnSet(f, T)
           Good == {T \in SUBSET B : Sum(A \cup T) = Sum(A) + Sum(T)}
<1>1. /\ Sum({}) = 0 /\ \A T \in SUBSET S : Sum(T) \in Nat
      /\ \A T \in SUBSET S : \A x \in T : Sum(T) = f[x] + Sum(T \ {x})
  BY SumOverSet
<1> HIDE DEF Sum
<1>2. {} \in Good
  <2>1. A \cup {} = A /\ Sum(A) \in Nat
    BY <1>1
  <2> QED
    BY <1>1, <2>1
<1>3. ASSUME NEW T \in Good, NEW x \in B \ T
      PROVE  T \cup {x} \in Good
  <2>1. /\ A \cup (T \cup {x}) \in SUBSET S /\ T \cup {x} \in SUBSET S
        /\ (A \cup (T \cup {x})) \ {x} = A \cup T /\ (T \cup {x}) \ {x} = T
    OBVIOUS
  <2>2. Sum(A \cup (T \cup {x})) = f[x] + Sum(A \cup T) /\ Sum(T \cup {x}) = f[x] + Sum(T)
    BY <1>1, <2>1
  <2>3. Sum(A) \in Nat /\ Sum(T) \in Nat /\ f[x] \in Nat /\ Sum(A \cup T) = Sum(A) + Sum(T)
    BY <1>1
  <2> QED
    BY <2>2, <2>3
<1>4. B \in Good
  <2>1. IsFiniteSet(B) /\ Good \in SUBSET SUBSET B
    BY FS_Subset
  <2> HIDE DEF Good
  <2> QED
    BY <1>2, <1>3, <2>1, SubsetInduction
<1> QED
  BY <1>4 DEF Sum

\* The members of D by their kind.
OfKind(kind, D, t) == {i \in D : kind[i] = t}

\* The sum over a set is that over its members of each kind.
THEOREM SumOverKinds ==
  ASSUME NEW D, IsFiniteSet(D), NEW f \in [D -> Nat], NEW K, IsFiniteSet(K),
         NEW kind \in [D -> K], NEW g \in [K -> Nat],
         \A t \in K : g[t] = SumFunctionOnSet(f, OfKind(kind, D, t))
  PROVE  SumFunctionOnSet(g, K) = SumFunctionOnSet(f, D)
<1> DEFINE Of(T) == {i \in D : kind[i] \in T}
           Good == {T \in SUBSET K : SumFunctionOnSet(g, T) = SumFunctionOnSet(f, Of(T))}
<1>1. {} \in Good
  <2>1. Of({}) = {}
    OBVIOUS
  <2>2. SumFunctionOnSet(f, {}) = 0 /\ SumFunctionOnSet(g, {}) = 0
    BY SumOverSet
  <2> QED
    BY <2>1, <2>2
<1>2. ASSUME NEW T \in Good, NEW t \in K \ T
      PROVE  T \cup {t} \in Good
  <2>1. /\ T \cup {t} \in SUBSET K /\ t \in T \cup {t} /\ (T \cup {t}) \ {t} = T
        /\ Of(T \cup {t}) = OfKind(kind, D, t) \cup Of(T)
        /\ OfKind(kind, D, t) \cap Of(T) = {}
        /\ OfKind(kind, D, t) \in SUBSET D /\ Of(T) \in SUBSET D
    BY DEF OfKind
  <2>2. SumFunctionOnSet(g, T \cup {t}) = g[t] + SumFunctionOnSet(g, T)
    <3>1. SumFunctionOnSet(g, T \cup {t}) = g[t] + SumFunctionOnSet(g, (T \cup {t}) \ {t})
      BY <2>1, SumApart
    <3> QED
      BY <2>1, <3>1
  <2> HIDE DEF Of
  <2>3. SumFunctionOnSet(f, OfKind(kind, D, t) \cup Of(T)) =
          SumFunctionOnSet(f, OfKind(kind, D, t)) + SumFunctionOnSet(f, Of(T))
    <3> DEFINE A == OfKind(kind, D, t)
               B == Of(T)
    <3>1. A \in SUBSET D /\ B \in SUBSET D /\ A \cap B = {}
      BY <2>1
    <3> HIDE DEF A, B
    <3>2. SumFunctionOnSet(f, A \cup B) = SumFunctionOnSet(f, A) + SumFunctionOnSet(f, B)
      BY <3>1, SumOverBoth
    <3> QED
      BY <3>2 DEF A, B
  <2>4. g[t] = SumFunctionOnSet(f, OfKind(kind, D, t))
    OBVIOUS
  <2>5. SumFunctionOnSet(g, T) = SumFunctionOnSet(f, Of(T))
    OBVIOUS
  <2> QED
    BY <2>1, <2>2, <2>3, <2>4, <2>5
<1>3. K \in Good
  <2>1. Good \in SUBSET SUBSET K
    OBVIOUS
  <2> HIDE DEF Good
  <2> QED
    BY <1>1, <1>2, <2>1, SubsetInduction
<1>4. Of(K) = D
  OBVIOUS
<1> QED
  BY <1>3, <1>4

\* To count is to sum ones.
LEMMA CountIsSum ==
  ASSUME NEW S, IsFiniteSet(S), NEW T \in SUBSET S
  PROVE  Cardinality(T) = SumFunctionOnSet([i \in S |-> 1], T)
<1> DEFINE ones == [i \in S |-> 1]
           Good == {U \in SUBSET T : Cardinality(U) = SumFunctionOnSet(ones, U)}
<1>1. ones \in [S -> Nat]
  OBVIOUS
<1>2. {} \in Good
  BY <1>1, SumOverSet, FS_EmptySet
<1>3. ASSUME NEW U \in Good, NEW x \in T \ U
      PROVE  U \cup {x} \in Good
  <2>1. U \cup {x} \in SUBSET S /\ x \in U \cup {x} /\ (U \cup {x}) \ {x} = U /\ x \notin U
    OBVIOUS
  <2>2. SumFunctionOnSet(ones, U \cup {x}) = ones[x] + SumFunctionOnSet(ones, U)
    <3>1. SumFunctionOnSet(ones, U \cup {x}) = ones[x] + SumFunctionOnSet(ones, (U \cup {x}) \ {x})
      BY <1>1, <2>1, SumApart
    <3> QED
      BY <2>1, <3>1
  <2>3. IsFiniteSet(U) /\ Cardinality(U) \in Nat
    BY FS_Subset, FS_CardinalityType
  <2>4. Cardinality(U \cup {x}) = Cardinality(U) + 1
    BY <2>1, <2>3, FS_AddElement
  <2>5. ones[x] = 1
    OBVIOUS
  <2> HIDE DEF ones
  <2> QED
    BY <2>2, <2>3, <2>4, <2>5
<1>4. T \in Good
  <2>1. IsFiniteSet(T) /\ Good \in SUBSET SUBSET T
    BY FS_Subset
  <2> HIDE DEF Good
  <2> QED
    BY <1>2, <1>3, <2>1, SubsetInduction
<1> QED
  BY <1>4

\* Of numbers that are c at most, the sum is full exactly if each of them is.
LEMMA FullSum ==
  ASSUME NEW S, IsFiniteSet(S), NEW f \in [S -> Nat], NEW c \in Nat, \A x \in S : f[x] <= c
  PROVE  /\ SumFunctionOnSet(f, S) \in Nat /\ Cardinality(S) \in Nat
         /\ SumFunctionOnSet(f, S) <= c * Cardinality(S)
         /\ SumFunctionOnSet(f, S) = c * Cardinality(S) <=> \A x \in S : f[x] = c
<1> DEFINE Sum(T) == SumFunctionOnSet(f, T)
           Full(T) == c * Cardinality(T)
           Good == {T \in SUBSET S : /\ Sum(T) <= Full(T)
                                     /\ Sum(T) = Full(T) <=> \A x \in T : f[x] = c}
<1>1. \A T \in SUBSET S : IsFiniteSet(T) /\ Cardinality(T) \in Nat /\ Sum(T) \in Nat
  BY FS_Subset, FS_CardinalityType, SumOverSet
<1>2. {} \in Good
  <2>1. Sum({}) = 0 /\ Cardinality({}) = 0
    BY SumOverSet, FS_EmptySet
  <2> QED
    BY <2>1
<1>3. ASSUME NEW T \in Good, NEW x \in S \ T
      PROVE  T \cup {x} \in Good
  <2>1. T \cup {x} \in SUBSET S /\ x \in T \cup {x} /\ (T \cup {x}) \ {x} = T /\ x \notin T
    OBVIOUS
  <2>2. Sum(T \cup {x}) = f[x] + Sum(T)
    <3>1. Sum(T \cup {x}) = f[x] + Sum((T \cup {x}) \ {x})
      BY <2>1, SumApart
    <3> QED
      BY <2>1, <3>1
  <2>3. Cardinality(T \cup {x}) = Cardinality(T) + 1
    BY <1>1, <2>1, FS_AddElement
  <2>4. PICK a \in Nat, n \in Nat, b \in Nat : a = Sum(T) /\ n = Cardinality(T) /\ b = f[x]
    BY <1>1
  <2>5. c * (n + 1) = c * n + c /\ c * n \in Nat
    OBVIOUS
  <2>6. PICK m \in Nat : m = c * n
    BY <2>5
  <2>7. a <= m /\ b <= c /\ (a = m <=> \A y \in T : f[y] = c)
    BY <2>4, <2>6
  <2>8. Sum(T \cup {x}) = b + a /\ Full(T \cup {x}) = m + c
    BY <2>2, <2>3, <2>4, <2>5, <2>6
  <2>9. (\A y \in T \cup {x} : f[y] = c) <=> a = m /\ b = c
    BY <2>4, <2>7
  <2>10. b + a <= m + c /\ (b + a = m + c <=> a = m /\ b = c)
    BY <2>7
  <2> HIDE DEF Sum, Full
  <2> QED
    BY <2>1, <2>8, <2>9, <2>10
<1>4. S \in Good
  <2>1. Good \in SUBSET SUBSET S
    OBVIOUS
  <2> HIDE DEF Good
  <2> QED
    BY <1>2, <1>3, <2>1, SubsetInduction
<1> QED
  BY <1>1, <1>4

-----------------------------------------------------------------------------
\* Numbering

\* Of places in an order, each has its number: how many are ahead of it.
LEMMA RankedOnce ==
  ASSUME NEW n \in Nat, NEW ahead \in [1..n -> SUBSET (1..n)],
         \A i \in 1..n : i \notin ahead[i],
         \A i, j \in 1..n : i # j => i \in ahead[j] \/ j \in ahead[i],
         \A i, j \in 1..n : i \in ahead[j] => ahead[i] \subseteq ahead[j]
  PROVE  /\ \A i, j \in 1..n : i \in ahead[j] => Cardinality(ahead[i]) < Cardinality(ahead[j])
         /\ \A i \in 1..n : Cardinality(ahead[i]) \in Nat
         /\ \A k \in 1..n : \E i \in 1..n : Cardinality(ahead[i]) = k - 1
<1> DEFINE D == 1..n
           number == [i \in D |-> Cardinality(ahead[i]) + 1]
<1>1. IsFiniteSet(D) /\ Cardinality(D) = n
  BY FS_Interval
<1>2. \A T \in SUBSET D : IsFiniteSet(T) /\ Cardinality(T) \in Nat
  BY <1>1, FS_Subset, FS_CardinalityType
<1>3. ASSUME NEW i \in D, NEW T \in SUBSET D, ahead[i] \cup {i} \in SUBSET T
      PROVE  Cardinality(ahead[i]) < Cardinality(T)
  <2>1. i \notin ahead[i] /\ ahead[i] \in SUBSET D
    OBVIOUS
  <2>2. Cardinality(ahead[i] \cup {i}) = Cardinality(ahead[i]) + 1
    BY <1>2, <2>1, FS_AddElement
  <2>3. Cardinality(ahead[i] \cup {i}) <= Cardinality(T)
    BY <1>2, <1>3, FS_Subset
  <2> QED
    BY <1>2, <2>1, <2>2, <2>3
<1>4. ASSUME NEW i \in D, NEW j \in D, i \in ahead[j]
      PROVE  Cardinality(ahead[i]) < Cardinality(ahead[j])
  <2>1. ahead[i] \cup {i} \in SUBSET ahead[j] /\ ahead[j] \in SUBSET D
    BY <1>4
  <2> QED
    BY <1>3, <2>1
<1>5. ASSUME NEW i \in D
      PROVE  Cardinality(ahead[i]) \in Nat /\ Cardinality(ahead[i]) < n
  <2>1. ahead[i] \in SUBSET D /\ ahead[i] \cup {i} \in SUBSET D /\ D \in SUBSET D
    OBVIOUS
  <2> QED
    BY <1>1, <1>2, <1>3, <2>1
<1>6. number \in Injection(D, D)
  <2>1. number \in [D -> D]
    BY <1>5
  <2>2. ASSUME NEW i \in D, NEW j \in D, number[i] = number[j]
        PROVE  i = j
    <3>1. Cardinality(ahead[i]) = Cardinality(ahead[j])
      BY <1>5, <2>2
    <3> QED
      BY <1>4, <1>5, <3>1
  <2> HIDE DEF number
  <2> QED
    BY <2>1, <2>2 DEF Injection, IsInjective
<1>7. number \in Surjection(D, D)
  <2> HIDE DEF number
  <2> QED
    BY <1>1, <1>6, FS_Injection
<1>8. ASSUME NEW k \in D PROVE \E i \in D : Cardinality(ahead[i]) = k - 1
  <2>1. PICK i \in D : number[i] = k
    BY <1>7 DEF Surjection
  <2> QED
    BY <1>5, <2>1
<1> QED
  BY <1>4, <1>5, <1>8
=============================================================================
