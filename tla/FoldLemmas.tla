----------------------------- MODULE FoldLemmas ------------------------------
(***************************************************************************)
(* What folds and sums over finite sets compute, as first-order lemmas:    *)
(* induction is over a set that holds the cases, where the library's       *)
(* theorems take a predicate as a parameter.  The proofs about the caches, *)
(* the quota, the pool of the write buffers and heal's plans cite them.    *)
(***************************************************************************)
EXTENDS Integers, Sequences, FiniteSets, FiniteSetsExt, Functions, FiniteSetTheorems,
        WellFoundedInduction, TLAPS

(* Induction. *)

\* A set of numbers that is not empty has a least member.
LEMMA LeastNat ==
  ASSUME NEW T \in SUBSET Nat, T # {}
  PROVE  \E n \in T : \A m \in T : n <= m
<1>1. IsWellFoundedOn(OpToRel(<, Nat), Nat)
  BY NatLessThanWellFounded
<1>2. \E n \in T : \A m \in T : ~ (<<m, n>> \in OpToRel(<, Nat))
  BY <1>1, WFMin, Zenon
<1>3. \A m, n \in Nat : <<m, n>> \in OpToRel(<, Nat) <=> m < n
  BY Zenon DEF OpToRel
<1>4. \E n \in T : \A m \in T : ~ (m < n)
  BY <1>2, <1>3, Zenon
<1> QED
  BY <1>4

\* A set that has 0, and with every number the next one, has every number.
LEMMA EveryNat ==
  ASSUME NEW S, 0 \in S, \A n \in Nat : n \in S => n + 1 \in S
  PROVE  Nat \subseteq S
<1>1. SUFFICES ASSUME Nat \ S # {} PROVE FALSE
  OBVIOUS
<1>2. PICK n \in Nat \ S : \A m \in Nat \ S : n <= m
  BY <1>1, LeastNat
<1>3. n - 1 \in Nat /\ n - 1 \in S
  BY <1>2
<1> QED
  BY <1>2, <1>3

\* What holds of the empty set, and of a set when it holds of the set less one of its
\* members, holds of every subset of a finite set.
LEMMA FiniteInduction ==
  ASSUME NEW D, IsFiniteSet(D), NEW P, {} \in P,
         \A s \in SUBSET D : s # {} /\ (\A x \in s : s \ {x} \in P) => s \in P
  PROVE  SUBSET D \subseteq P
<1> DEFINE N == {n \in Nat : \A s \in SUBSET D : Cardinality(s) = n => s \in P}
<1>1. \A s \in SUBSET D : IsFiniteSet(s) /\ Cardinality(s) \in Nat
  BY FS_Subset, FS_CardinalityType
<1>2. 0 \in N
  BY <1>1, FS_EmptySet
<1>3. ASSUME NEW n \in Nat, n \in N PROVE n + 1 \in N
  <2>1. SUFFICES ASSUME NEW s \in SUBSET D, Cardinality(s) = n + 1 PROVE s \in P
    BY DEF N
  <2>2. s # {}
    <3>1. Cardinality({}) = 0
      BY FS_EmptySet
    <3>2. Cardinality(s) # 0
      BY <2>1
    <3> QED
      BY <3>1, <3>2, Zenon
  <2>3. ASSUME NEW x \in s PROVE s \ {x} \in P
    <3>1. s \ {x} \in SUBSET D /\ Cardinality(s \ {x}) = n
      BY <1>1, <2>1, FS_RemoveElement
    <3> QED
      BY <3>1, <1>3
  <2> QED
    BY <2>2, <2>3
<1>4. Nat \subseteq N
  <2> HIDE DEF N
  <2> QED
    BY <1>2, <1>3, EveryNat
<1> QED
  BY <1>1, <1>4

-----------------------------------------------------------------------------
(* Folds. *)

\* it is base for the empty set, and for any other subset of D what G makes of the
\* member that C chooses and of it for the rest.
IsFold(it, D, S, base, C, G) ==
  /\ it \in [SUBSET D -> S]
  /\ \A s \in SUBSET D : it[s] = IF s = {} THEN base ELSE G[C[s]][it[s \ {C[s]}]]

\* A fold over a finite set exists.
LEMMA FoldExists ==
  ASSUME NEW D, IsFiniteSet(D), NEW S, NEW base \in S,
         NEW C, \A s \in SUBSET D : s # {} => C[s] \in s,
         NEW G \in [D -> [S -> S]]
  PROVE  \E it : IsFold(it, D, S, base, C, G)
<1> DEFINE Sub(n)  == {s \in SUBSET D : Cardinality(s) <= n}
           Next(it, s) == IF s = {} THEN base ELSE G[C[s]][it[s \ {C[s]}]]
           Is(it, n) == \A s \in Sub(n) : it[s] = Next(it, s)
           N == {n \in Nat : \E it \in [Sub(n) -> S] : Is(it, n)}
<1>1. \A s \in SUBSET D : IsFiniteSet(s) /\ Cardinality(s) \in Nat
  BY FS_Subset, FS_CardinalityType
<1>2. 0 \in N
  <2> DEFINE it == [s \in Sub(0) |-> base]
  <2>1. \A s \in Sub(0) : s = {}
    BY <1>1, FS_EmptySet
  <2>2. it \in [Sub(0) -> S] /\ Is(it, 0)
    BY <2>1
  <2> QED
    BY <2>2
<1>3. ASSUME NEW n \in Nat, n \in N PROVE n + 1 \in N
  <2>1. PICK f \in [Sub(n) -> S] : Is(f, n)
    BY <1>3
  <2> DEFINE it == [s \in Sub(n + 1) |-> Next(f, s)]
  <2>2. ASSUME NEW s \in Sub(n + 1), s # {}
        PROVE  C[s] \in D /\ s \ {C[s]} \in Sub(n)
    <3>1. s \in SUBSET D /\ Cardinality(s) <= n + 1 /\ C[s] \in s
      BY <2>2
    <3>2. Cardinality(s \ {C[s]}) = Cardinality(s) - 1 /\ Cardinality(s) \in Nat
      BY <1>1, <3>1, FS_RemoveElement
    <3> QED BY <3>1, <3>2
  <2>3. it \in [Sub(n + 1) -> S]
    BY <2>1, <2>2
  <2>4. \A s \in Sub(n) : s \in Sub(n + 1) /\ it[s] = f[s]
    <3>1. \A s \in Sub(n) : s \in Sub(n + 1)
      BY <1>1
    <3>2. \A s \in Sub(n) : f[s] = Next(f, s)
      BY <2>1
    <3> QED
      BY <3>1, <3>2, Zenon
  <2>5. ASSUME NEW s \in Sub(n + 1) PROVE it[s] = Next(it, s)
    BY <2>2, <2>4
  <2> QED
    <3>1. \E g \in [Sub(n + 1) -> S] : Is(g, n + 1)
      BY <2>3, <2>5, Zenon
    <3> HIDE DEF Is, Sub
    <3> QED
      BY <3>1
<1>4. Nat \subseteq N
  <2> HIDE DEF N
  <2> QED
    BY <1>2, <1>3, EveryNat
<1>5. Sub(Cardinality(D)) = SUBSET D
  BY <1>1, FS_Subset
<1>6. \E it \in [Sub(Cardinality(D)) -> S] : Is(it, Cardinality(D))
  <2>1. Cardinality(D) \in N
    BY <1>1, <1>4
  <2> QED
    BY <2>1
<1> QED
  BY <1>5, <1>6 DEF IsFold

\* What a fold over the places 1 .. n has made of the first k of them is in T[k], when
\* every step keeps it so.
LEMMA FoldLeftIn ==
  ASSUME NEW n \in Nat, NEW T, NEW it, it[1 .. 0] \in T[0],
         \A k \in 1 .. n : it[1 .. (k - 1)] \in T[k - 1] => it[1 .. k] \in T[k]
  PROVE  it[1 .. n] \in T[n]
<1> DEFINE N == {k \in Nat : k <= n => it[1 .. k] \in T[k]}
<1>1. 0 \in N
  OBVIOUS
<1>2. ASSUME NEW k \in Nat, k \in N PROVE k + 1 \in N
  <2>1. SUFFICES ASSUME k + 1 <= n PROVE it[1 .. (k + 1)] \in T[k + 1]
    OBVIOUS
  <2>2. it[1 .. k] \in T[k]
    BY <1>2, <2>1
  <2>3. k + 1 \in 1 .. n /\ (k + 1) - 1 = k
    BY <2>1
  <2> QED
    BY <2>2, <2>3
<1>3. Nat \subseteq N
  <2> HIDE DEF N
  <2> QED
    BY <1>1, <1>2, EveryNat
<1> QED
  BY <1>3

-----------------------------------------------------------------------------
(* Sums.  SumFunctionOnSet(F, D) adds up F[x] for the x in D. *)

SumStep(F, it, s) == IF s = {} THEN 0 ELSE F[CHOOSE x \in s : TRUE] + it[s \ {CHOOSE x \in s : TRUE}]
Sums(F, it, D)    == it \in [SUBSET D -> Int] /\ \A s \in SUBSET D : it[s] = SumStep(F, it, s)

\* The sum is a fold.
LEMMA SumIsFold ==
  ASSUME NEW D, IsFiniteSet(D), NEW F, \A x \in D : F[x] \in Int
  PROVE  \E it : Sums(F, it, D) /\ SumFunctionOnSet(F, D) = it[D]
<1> DEFINE C == [s \in SUBSET D |-> CHOOSE x \in s : TRUE]
           G == [x \in D |-> [v \in Int |-> F[x] + v]]
           Def(it) == [s \in SUBSET D |-> IF s = {} THEN 0
                         ELSE LET x == CHOOSE x \in s : TRUE IN F[x] + it[s \ {x}]]
<1>1. \A s \in SUBSET D : s # {} => C[s] \in s
  OBVIOUS
<1>2. G \in [D -> [Int -> Int]]
  OBVIOUS
<1>3. PICK it : IsFold(it, D, Int, 0, C, G)
  <2> HIDE DEF C, G
  <2> QED
    BY <1>1, <1>2, 0 \in Int, FoldExists
<1>4. \A s \in SUBSET D : it[s] = SumStep(F, it, s)
  BY <1>1, <1>3 DEF SumStep, IsFold
<1>5. it = Def(it)
  BY <1>3, <1>4 DEF SumStep, IsFold
<1> DEFINE f == CHOOSE f : f = Def(f)
<1>6. f = Def(f)
  BY <1>5, Zenon
<1>7. SumFunctionOnSet(F, D) = f[D]
  BY Zenon DEF SumFunctionOnSet, FoldFunctionOnSet, MapThenFoldSet
<1>8. Sums(F, f, D)
  <2>1. f = [s \in SUBSET D |-> SumStep(F, f, s)]
    BY <1>6 DEF SumStep
  <2> HIDE DEF f
  <2> DEFINE P == {s \in SUBSET D : f[s] = it[s]}
  <2>2. {} \in P
    BY <2>1, <1>4 DEF SumStep
  <2>3. ASSUME NEW s \in SUBSET D, s # {}, \A x \in s : s \ {x} \in P PROVE s \in P
    <3>1. f[s] = SumStep(F, f, s) /\ it[s] = SumStep(F, it, s)
      BY <2>1, <1>4
    <3> QED
      BY <2>3, <3>1 DEF SumStep
  <2>4. SUBSET D \subseteq P
    <3> HIDE DEF P
    <3> QED
      BY <2>2, <2>3, FiniteInduction
  <2> QED
    BY <1>3, <2>1, <2>4 DEF Sums, IsFold
<1> QED
  BY <1>7, <1>8

\* The sums over the subsets of a set do not depend on the set.
LEMMA SumsAgree ==
  ASSUME NEW D, IsFiniteSet(D), NEW E \in SUBSET D, NEW F, NEW a, NEW b,
         Sums(F, a, D), Sums(F, b, E)
  PROVE  \A s \in SUBSET E : a[s] = b[s]
<1> DEFINE P == {s \in SUBSET E : a[s] = b[s]}
<1>1. IsFiniteSet(E)
  BY FS_Subset
<1>2. {} \in P
  BY DEF Sums, SumStep
<1>3. ASSUME NEW s \in SUBSET E, s # {}, \A x \in s : s \ {x} \in P PROVE s \in P
  <2>1. a[s] = SumStep(F, a, s) /\ b[s] = SumStep(F, b, s)
    BY DEF Sums
  <2> QED
    BY <1>3, <2>1 DEF SumStep
<1>4. SUBSET E \subseteq P
  <2> HIDE DEF P
  <2> QED
    BY <1>1, <1>2, <1>3, FiniteInduction
<1> QED
  BY <1>4

\* What a solution of the recursion says of sums over subsets.
LEMMA SumIsOf ==
  ASSUME NEW D, IsFiniteSet(D), NEW F, \A x \in D : F[x] \in Int, NEW it, Sums(F, it, D),
         NEW s \in SUBSET D
  PROVE  SumFunctionOnSet(F, s) = it[s]
<1>1. IsFiniteSet(s) /\ \A x \in s : F[x] \in Int
  BY FS_Subset
<1>2. PICK f : Sums(F, f, s) /\ SumFunctionOnSet(F, s) = f[s]
  BY <1>1, SumIsFold
<1> QED
  BY <1>2, SumsAgree

AnyFirst(F, it, D) == \A s \in SUBSET D : \A x \in s : it[s] = F[x] + it[s \ {x}]

\* Any member may be the first that is added.
LEMMA SumAnyFirst ==
  ASSUME NEW D, IsFiniteSet(D), NEW F, \A x \in D : F[x] \in Int, NEW it, Sums(F, it, D)
  PROVE  AnyFirst(F, it, D)
<1> DEFINE P == {s \in SUBSET D : \A x \in s : it[s] = F[x] + it[s \ {x}]}
<1>1. {} \in P
  OBVIOUS
<1>2. ASSUME NEW s \in SUBSET D, s # {}, \A x \in s : s \ {x} \in P PROVE s \in P
  <2> SUFFICES ASSUME NEW x \in s PROVE it[s] = F[x] + it[s \ {x}]
    OBVIOUS
  <2>1. PICK c \in s : c = CHOOSE y \in s : TRUE
    BY <1>2
  <2>2. it[s] = F[c] + it[s \ {c}]
    BY <1>2, <2>1 DEF Sums, SumStep
  <2>3. CASE x = c
    BY <2>2, <2>3
  <2>4. CASE x # c
    <3>1. it[s \ {c}] = F[x] + it[(s \ {c}) \ {x}]
      BY <1>2, <2>4
    <3>2. it[s \ {x}] = F[c] + it[(s \ {x}) \ {c}]
      BY <1>2, <2>4
    <3>3. (s \ {c}) \ {x} = (s \ {x}) \ {c}
      OBVIOUS
    <3>4. F[x] \in Int /\ F[c] \in Int /\ it[(s \ {x}) \ {c}] \in Int
      BY DEF Sums
    <3>5. \A u, v, w \in Int : u + (v + w) = v + (u + w)
      OBVIOUS
    <3>6. it[s] = F[c] + (F[x] + it[(s \ {x}) \ {c}])
      BY <2>2, <3>1, <3>3, Zenon
    <3>7. it[s] = F[x] + (F[c] + it[(s \ {x}) \ {c}])
      BY <3>4, <3>5, <3>6, Zenon
    <3> QED
      BY <3>2, <3>7, Zenon
  <2> QED
    BY <2>3, <2>4
<1>3. SUBSET D \subseteq P
  <2> HIDE DEF P
  <2> QED
    BY <1>1, <1>2, FiniteInduction
<1> QED
  BY <1>3 DEF AnyFirst

\* The laws by which sums are used: they are numbers, nothing adds up to 0, and a member
\* of the set can be taken out.
LEMMA SumType ==
  ASSUME NEW D, IsFiniteSet(D), NEW F, \A x \in D : F[x] \in Int
  PROVE  SumFunctionOnSet(F, D) \in Int
<1>1. PICK it : Sums(F, it, D) /\ SumFunctionOnSet(F, D) = it[D]
  BY SumIsFold
<1> QED
  BY <1>1 DEF Sums

LEMMA SumEmpty ==
  ASSUME NEW F
  PROVE  SumFunctionOnSet(F, {}) = 0
<1>1. IsFiniteSet({})
  BY FS_EmptySet
<1>2. PICK it : Sums(F, it, {}) /\ SumFunctionOnSet(F, {}) = it[{}]
  BY <1>1, SumIsFold
<1> QED
  BY <1>2 DEF Sums, SumStep

LEMMA SumTake ==
  ASSUME NEW D, IsFiniteSet(D), NEW F, \A x \in D : F[x] \in Int, NEW x \in D
  PROVE  SumFunctionOnSet(F, D) = F[x] + SumFunctionOnSet(F, D \ {x})
<1>1. PICK it : Sums(F, it, D) /\ SumFunctionOnSet(F, D) = it[D]
  BY SumIsFold
<1>2. SumFunctionOnSet(F, D \ {x}) = it[D \ {x}]
  BY <1>1, SumIsOf
<1>3. AnyFirst(F, it, D)
  BY <1>1, SumAnyFirst
<1>4. D \in SUBSET D
  OBVIOUS
<1> QED
  BY <1>1, <1>2, <1>3, <1>4, Zenon DEF AnyFirst

LEMMA SumPut ==
  ASSUME NEW D, IsFiniteSet(D), NEW F, NEW x, x \notin D, \A y \in D \cup {x} : F[y] \in Int
  PROVE  SumFunctionOnSet(F, D \cup {x}) = SumFunctionOnSet(F, D) + F[x]
<1>1. IsFiniteSet(D \cup {x}) /\ (D \cup {x}) \ {x} = D
  BY FS_AddElement
<1>2. SumFunctionOnSet(F, D \cup {x}) = F[x] + SumFunctionOnSet(F, (D \cup {x}) \ {x})
  BY <1>1, SumTake
<1>3. SumFunctionOnSet(F, D) \in Int /\ F[x] \in Int
  BY SumType
<1>4. \A u, v \in Int : u + v = v + u
  OBVIOUS
<1> QED
  BY <1>1, <1>2, <1>3, <1>4, Zenon

\* Only what the function is on the set counts, and smaller terms have a smaller sum.
LEMMA SumOrder ==
  ASSUME NEW D, IsFiniteSet(D), NEW F, NEW G, \A x \in D : F[x] \in Int /\ G[x] \in Int /\ F[x] <= G[x]
  PROVE  SumFunctionOnSet(F, D) <= SumFunctionOnSet(G, D)
<1> DEFINE P == {s \in SUBSET D : SumFunctionOnSet(F, s) <= SumFunctionOnSet(G, s)}
<1>1. {} \in P
  BY SumEmpty
<1>2. ASSUME NEW s \in SUBSET D, s # {}, \A x \in s : s \ {x} \in P PROVE s \in P
  <2>1. PICK x \in s : TRUE
    BY <1>2
  <2>2. IsFiniteSet(s) /\ IsFiniteSet(s \ {x}) /\ s \ {x} \in P
    BY <1>2, FS_Subset, FS_RemoveElement
  <2>3. SumFunctionOnSet(F, s) = F[x] + SumFunctionOnSet(F, s \ {x})
    BY <2>2, SumTake
  <2>4. SumFunctionOnSet(G, s) = G[x] + SumFunctionOnSet(G, s \ {x})
    BY <2>2, SumTake
  <2>5. SumFunctionOnSet(F, s \ {x}) \in Int /\ SumFunctionOnSet(G, s \ {x}) \in Int
    BY <2>2, SumType
  <2> QED
    BY <2>2, <2>3, <2>4, <2>5
<1>3. SUBSET D \subseteq P
  <2> HIDE DEF P
  <2> QED
    BY <1>1, <1>2, FiniteInduction
<1> QED
  BY <1>3

LEMMA SumSame ==
  ASSUME NEW D, IsFiniteSet(D), NEW F, NEW G, \A x \in D : F[x] \in Int /\ F[x] = G[x]
  PROVE  SumFunctionOnSet(F, D) = SumFunctionOnSet(G, D)
<1>1. SumFunctionOnSet(F, D) <= SumFunctionOnSet(G, D)
  BY SumOrder
<1>2. SumFunctionOnSet(G, D) <= SumFunctionOnSet(F, D)
  BY SumOrder
<1>3. SumFunctionOnSet(F, D) \in Int /\ SumFunctionOnSet(G, D) \in Int
  BY SumType
<1> QED
  BY <1>1, <1>2, <1>3

\* A sum of natural numbers is one, and is no less than the sum over a part.
LEMMA SumNat ==
  ASSUME NEW D, IsFiniteSet(D), NEW F, \A x \in D : F[x] \in Nat
  PROVE  SumFunctionOnSet(F, D) \in Nat
<1> DEFINE P == {s \in SUBSET D : SumFunctionOnSet(F, s) \in Nat}
<1>1. {} \in P
  BY SumEmpty
<1>2. ASSUME NEW s \in SUBSET D, s # {}, \A x \in s : s \ {x} \in P PROVE s \in P
  <2>1. PICK x \in s : TRUE
    BY <1>2
  <2>2. IsFiniteSet(s) /\ s \ {x} \in P
    BY <1>2, FS_Subset
  <2>3. SumFunctionOnSet(F, s) = F[x] + SumFunctionOnSet(F, s \ {x})
    BY <2>2, SumTake
  <2> QED
    BY <2>2, <2>3
<1>3. SUBSET D \subseteq P
  <2> HIDE DEF P
  <2> QED
    BY <1>1, <1>2, FiniteInduction
<1> QED
  BY <1>3

\* One term changes.
LEMMA SumUpdate ==
  ASSUME NEW D, IsFiniteSet(D), NEW F, NEW G, NEW x \in D,
         \A y \in D : F[y] \in Int, G[x] \in Int, \A y \in D \ {x} : G[y] = F[y]
  PROVE  SumFunctionOnSet(G, D) + F[x] = SumFunctionOnSet(F, D) + G[x]
<1>1. IsFiniteSet(D \ {x}) /\ \A y \in D \ {x} : F[y] \in Int /\ F[y] = G[y]
  BY FS_RemoveElement
<1>2. \A y \in D : F[y] \in Int /\ G[y] \in Int
  OBVIOUS
<1>3. SumFunctionOnSet(F, D \ {x}) = SumFunctionOnSet(G, D \ {x})
  BY <1>1, SumSame
<1>4. SumFunctionOnSet(F, D) = F[x] + SumFunctionOnSet(F, D \ {x})
  BY <1>2, SumTake
<1>5. SumFunctionOnSet(G, D) = G[x] + SumFunctionOnSet(G, D \ {x})
  BY <1>2, SumTake
<1>6. SumFunctionOnSet(F, D \ {x}) \in Int /\ F[x] \in Int /\ G[x] \in Int
  BY <1>1, <1>2, SumType
<1>7. \A a, b, c \in Int : (b + c) + a = (a + c) + b
  OBVIOUS
<1>8. (G[x] + SumFunctionOnSet(F, D \ {x})) + F[x] = (F[x] + SumFunctionOnSet(F, D \ {x})) + G[x]
  BY <1>6, <1>7
<1> QED
  BY <1>3, <1>4, <1>5, <1>8, Zenon

\* Zeros add up to zero.
LEMMA SumZero ==
  ASSUME NEW D, IsFiniteSet(D), NEW F, \A x \in D : F[x] = 0
  PROVE  SumFunctionOnSet(F, D) = 0
<1> DEFINE P == {s \in SUBSET D : SumFunctionOnSet(F, s) = 0}
<1>1. {} \in P
  BY SumEmpty
<1>2. ASSUME NEW s \in SUBSET D, s # {}, \A x \in s : s \ {x} \in P PROVE s \in P
  <2>1. PICK x \in s : TRUE
    BY <1>2
  <2>2. IsFiniteSet(s) /\ s \ {x} \in P
    BY <1>2, FS_Subset
  <2>3. SumFunctionOnSet(F, s) = F[x] + SumFunctionOnSet(F, s \ {x})
    BY <2>2, SumTake
  <2> QED
    BY <2>2, <2>3
<1>3. SUBSET D \subseteq P
  <2> HIDE DEF P
  <2> QED
    BY <1>1, <1>2, FiniteInduction
<1> QED
  BY <1>3

\* Sums over sets without a common member add up.
LEMMA SumUnion ==
  ASSUME NEW D, IsFiniteSet(D), NEW E, IsFiniteSet(E), D \cap E = {}, NEW F,
         \A x \in D \cup E : F[x] \in Int
  PROVE  SumFunctionOnSet(F, D \cup E) = SumFunctionOnSet(F, D) + SumFunctionOnSet(F, E)
<1> DEFINE P == {s \in SUBSET E : SumFunctionOnSet(F, D \cup s) = SumFunctionOnSet(F, D) + SumFunctionOnSet(F, s)}
<1>1. {} \in P
  <2>1. SumFunctionOnSet(F, D) \in Int /\ SumFunctionOnSet(F, {}) = 0 /\ D \cup {} = D
    BY SumEmpty, SumType
  <2>2. \A u \in Int : u = u + 0
    OBVIOUS
  <2>3. SumFunctionOnSet(F, D \cup {}) = SumFunctionOnSet(F, D) + SumFunctionOnSet(F, {})
    BY <2>1, <2>2, Zenon
  <2> QED
    BY <2>3
<1>2. ASSUME NEW s \in SUBSET E, s # {}, \A x \in s : s \ {x} \in P PROVE s \in P
  <2>1. PICK x \in s : TRUE
    BY <1>2
  <2> DEFINE r == s \ {x}
  <2>2. IsFiniteSet(s) /\ IsFiniteSet(r) /\ IsFiniteSet(D \cup s) /\ r \in P
    BY <1>2, FS_Subset, FS_RemoveElement, FS_Union
  <2>3. (D \cup s) \ {x} = D \cup r
    OBVIOUS
  <2>4. SumFunctionOnSet(F, D \cup s) = F[x] + SumFunctionOnSet(F, (D \cup s) \ {x})
    BY <2>2, SumTake
  <2>5. SumFunctionOnSet(F, s) = F[x] + SumFunctionOnSet(F, r)
    BY <2>2, SumTake
  <2>6. F[x] \in Int /\ SumFunctionOnSet(F, D) \in Int /\ SumFunctionOnSet(F, r) \in Int
    BY <2>2, SumType
  <2>7. SumFunctionOnSet(F, D \cup r) = SumFunctionOnSet(F, D) + SumFunctionOnSet(F, r)
    BY <2>2
  <2>8. \A a, b, c \in Int : a + (b + c) = b + (a + c)
    OBVIOUS
  <2> HIDE DEF r
  <2>9. F[x] + (SumFunctionOnSet(F, D) + SumFunctionOnSet(F, r))
          = SumFunctionOnSet(F, D) + (F[x] + SumFunctionOnSet(F, r))
    BY <2>6, <2>8, Zenon
  <2>10. SumFunctionOnSet(F, D \cup s) = F[x] + (SumFunctionOnSet(F, D) + SumFunctionOnSet(F, r))
    BY <2>3, <2>4, <2>7, Zenon
  <2>11. SumFunctionOnSet(F, D \cup s) = SumFunctionOnSet(F, D) + SumFunctionOnSet(F, s)
    BY <2>5, <2>9, <2>10, Zenon
  <2> QED
    BY <2>11
<1>3. SUBSET E \subseteq P
  <2> HIDE DEF P
  <2> QED
    BY <1>1, <1>2, FiniteInduction
<1> QED
  BY <1>3

\* What covers a set has no smaller sum.
LEMMA SumCover ==
  ASSUME NEW D, IsFiniteSet(D), NEW E, IsFiniteSet(E), NEW s, s \subseteq D \cup E, NEW F,
         \A x \in D \cup E : F[x] \in Nat
  PROVE  SumFunctionOnSet(F, s) <= SumFunctionOnSet(F, D) + SumFunctionOnSet(F, E)
<1> DEFINE a == D \cap s
           b == s \ D
           c == D \ s
           d == E \ b
<1>1. /\ a \subseteq D /\ c \subseteq D /\ b \subseteq E /\ d \subseteq E
      /\ s = a \cup b /\ D = a \cup c /\ E = b \cup d
      /\ a \cap b = {} /\ a \cap c = {} /\ b \cap d = {}
  OBVIOUS
<1> HIDE DEF a, b, c, d
<1>2. IsFiniteSet(a) /\ IsFiniteSet(b) /\ IsFiniteSet(c) /\ IsFiniteSet(d)
  BY <1>1, FS_Subset
<1>3. SumFunctionOnSet(F, s) = SumFunctionOnSet(F, a) + SumFunctionOnSet(F, b)
  BY <1>1, <1>2, SumUnion
<1>4. SumFunctionOnSet(F, D) = SumFunctionOnSet(F, a) + SumFunctionOnSet(F, c)
  BY <1>1, <1>2, SumUnion
<1>5. SumFunctionOnSet(F, E) = SumFunctionOnSet(F, b) + SumFunctionOnSet(F, d)
  BY <1>1, <1>2, SumUnion
<1>6. /\ SumFunctionOnSet(F, a) \in Nat /\ SumFunctionOnSet(F, b) \in Nat
      /\ SumFunctionOnSet(F, c) \in Nat /\ SumFunctionOnSet(F, d) \in Nat
  BY <1>1, <1>2, SumNat
<1> QED
  BY <1>3, <1>4, <1>5, <1>6

LEMMA SumPart ==
  ASSUME NEW D, IsFiniteSet(D), NEW s, s \subseteq D, NEW F, \A x \in D : F[x] \in Nat
  PROVE  SumFunctionOnSet(F, s) <= SumFunctionOnSet(F, D)
<1>1. IsFiniteSet({}) /\ s \subseteq D \cup {} /\ \A x \in D \cup {} : F[x] \in Nat
  BY FS_EmptySet
<1>2. SumFunctionOnSet(F, s) <= SumFunctionOnSet(F, D) + SumFunctionOnSet(F, {})
  BY <1>1, SumCover
<1>3. SumFunctionOnSet(F, {}) = 0 /\ SumFunctionOnSet(F, D) \in Nat
  BY SumEmpty, SumNat
<1> QED
  BY <1>2, <1>3

\* What is named by a member of a finite set is a finite set too.
LEMMA ImageFinite ==
  ASSUME NEW D, IsFiniteSet(D), NEW H, NEW E, \A x \in D : H[x] \in E,
         \A e \in E : \E x \in D : e = H[x]
  PROVE  IsFiniteSet(E)
<1> DEFINE f == [x \in D |-> H[x]]
<1>1. f \in Surjection(D, E)
  BY DEF Surjection
<1> QED
  BY <1>1, FS_Surjection

\* A sum may be taken over names, when nothing has the name of another.
LEMMA SumNamed ==
  ASSUME NEW D, IsFiniteSet(D), NEW F, NEW G, NEW H, NEW E,
         \A x \in D : F[x] \in Int /\ G[H[x]] = F[x],
         \A x \in D : \A y \in D : H[x] = H[y] => x = y,
         \A x \in D : H[x] \in E, \A e \in E : \E x \in D : e = H[x]
  PROVE  SumFunctionOnSet(F, D) = SumFunctionOnSet(G, E)
<1> DEFINE Names(s) == {H[x] : x \in s}
           P == {s \in SUBSET D : /\ SumFunctionOnSet(F, s) = SumFunctionOnSet(G, Names(s))
                                  /\ IsFiniteSet(Names(s))}
<1>1. {} \in P
  <2>1. Names({}) = {}
    OBVIOUS
  <2> QED
    BY <2>1, SumEmpty, FS_EmptySet
<1>2. ASSUME NEW s \in SUBSET D, s # {}, \A x \in s : s \ {x} \in P PROVE s \in P
  <2>1. PICK x \in s : TRUE
    BY <1>2
  <2> DEFINE r == s \ {x}
             n == Names(r)
  <2>2. IsFiniteSet(s) /\ r \in P
    BY <1>2, FS_Subset
  <2>3. Names(s) = n \cup {H[x]} /\ H[x] \notin n
    OBVIOUS
  <2>4. SumFunctionOnSet(F, s) = F[x] + SumFunctionOnSet(F, r)
    BY <2>2, SumTake
  <2>5. IsFiniteSet(n) /\ SumFunctionOnSet(F, r) = SumFunctionOnSet(G, n)
    BY <2>2
  <2>6. \A y \in n \cup {H[x]} : G[y] \in Int
    BY <2>3
  <2> HIDE DEF n
  <2>7. SumFunctionOnSet(G, n \cup {H[x]}) = SumFunctionOnSet(G, n) + G[H[x]]
    <3>1. PICK h : h = H[x]
      OBVIOUS
    <3>2. h \notin n /\ \A y \in n \cup {h} : G[y] \in Int
      BY <2>3, <2>6, <3>1
    <3>3. SumFunctionOnSet(G, n \cup {h}) = SumFunctionOnSet(G, n) + G[h]
      BY <2>5, <3>2, SumPut
    <3> QED
      BY <3>1, <3>3, Zenon
  <2>8. IsFiniteSet(n \cup {H[x]})
    BY <2>5, FS_AddElement
  <2>9. F[x] \in Int /\ G[H[x]] = F[x] /\ SumFunctionOnSet(G, n) \in Int
    BY <2>5, <2>6, SumType
  <2>10. \A a, b \in Int : a + b = b + a
    OBVIOUS
  <2> HIDE DEF r, Names
  <2>11. SumFunctionOnSet(F, s) = SumFunctionOnSet(G, Names(s))
    BY <2>3, <2>4, <2>5, <2>7, <2>9, <2>10, Zenon
  <2>12. IsFiniteSet(Names(s))
    BY <2>3, <2>8
  <2> QED
    BY <2>11, <2>12
<1>3. SUBSET D \subseteq P
  <2> HIDE DEF P
  <2> QED
    BY <1>1, <1>2, FiniteInduction
<1>4. E = Names(D)
  OBVIOUS
<1> QED
  BY <1>3, <1>4

-----------------------------------------------------------------------------
(* Loops over the places of a sequence (FoldLeft). *)

\* A finite set of numbers that is not empty has a greatest.
LEMMA MaxIs ==
  ASSUME NEW n \in Nat, NEW s \in SUBSET (1 .. n), s # {}
  PROVE  Max(s) \in s /\ \A i \in s : i <= Max(s)
<1> DEFINE T == {m \in Nat : \A i \in s : i <= m}
<1>1. n \in T
  OBVIOUS
<1>2. PICK m \in T : \A k \in T : m <= k
  <2>1. T \in SUBSET Nat
    OBVIOUS
  <2> HIDE DEF T
  <2> QED BY <1>1, <2>1, LeastNat
<1>3. m \in s
  <2>1. SUFFICES ASSUME m \notin s PROVE FALSE
    OBVIOUS
  <2>2. \A i \in s : i \in 1 .. n /\ i <= m - 1
    BY <1>2, <2>1
  <2>3. m - 1 \in Nat
    <3>1. PICK x \in s : TRUE
      OBVIOUS
    <3>2. m \in Nat /\ x \in 1 .. n /\ x <= m - 1
      BY <1>2, <2>2
    <3> QED BY <3>2
  <2>4. m - 1 \in T
    BY <2>2, <2>3
  <2> QED BY <1>2, <2>4
<1>4. \E x \in s : \A y \in s : x >= y
  BY <1>2, <1>3
<1>5. Max(s) \in s /\ \A y \in s : Max(s) >= y
  BY <1>4, Zenon DEF Max
<1> QED BY <1>5

\* it[1 .. k] is what a loop over 1 .. n has made of base after k turns.
IsLoop(it, n, S, base, G) ==
  /\ it \in [SUBSET (1 .. n) -> S]
  /\ \A s \in SUBSET (1 .. n) : it[s] = IF s = {} THEN base ELSE G[Max(s)][it[s \ {Max(s)}]]

\* A loop exists.
LEMMA LoopExists ==
  ASSUME NEW n \in Nat, NEW S, NEW base \in S, NEW G \in [1 .. n -> [S -> S]]
  PROVE  \E it : IsLoop(it, n, S, base, G)
<1> DEFINE D == 1 .. n
           C == [s \in SUBSET D |-> Max(s)]
<1>1. \A s \in SUBSET D : s # {} => C[s] \in s
  BY MaxIs
<1>2. IsFiniteSet(D)
  BY FS_Interval
<1>3. \A s \in SUBSET D : C[s] = Max(s)
  OBVIOUS
<1>4. PICK it : IsFold(it, D, S, base, C, G)
  <2> HIDE DEF C
  <2> QED BY <1>1, <1>2, FoldExists
<1> QED BY <1>3, <1>4 DEF IsFold, IsLoop

\* f does a turn as it does, after the same turns before.
Repeats(f, it, n) ==
  \A s \in SUBSET (1 .. n) : (s = {} \/ f[s \ {Max(s)}] = it[s \ {Max(s)}]) => f[s] = it[s]

\* What does each turn as the loop does is the loop.
LEMMA LoopSame ==
  ASSUME NEW n \in Nat, NEW it, NEW f, Repeats(f, it, n)
  PROVE  f[1 .. n] = it[1 .. n]
<1> DEFINE D == 1 .. n
           P == {s \in SUBSET D : f[s] = it[s]}
<1>1. {} \in P
  BY DEF Repeats
<1>2. ASSUME NEW s \in SUBSET D, s # {}, \A x \in s : s \ {x} \in P PROVE s \in P
  BY <1>2, MaxIs DEF Repeats
<1>3. IsFiniteSet(D)
  BY FS_Interval
<1>4. D \in SUBSET D
  OBVIOUS
<1> HIDE DEF P, D
<1>5. SUBSET D \subseteq P
  BY <1>1, <1>2, <1>3, FiniteInduction
<1> QED BY <1>4, <1>5 DEF P, D

\* The turns of a loop.
LEMMA LoopTurn ==
  ASSUME NEW n \in Nat, NEW S, NEW base, NEW G, NEW it, IsLoop(it, n, S, base, G)
  PROVE  it[1 .. 0] = base /\ \A k \in 1 .. n : it[1 .. k] = G[k][it[1 .. (k - 1)]]
<1>1. it[1 .. 0] = base
  <2>1. 1 .. 0 = {} /\ {} \in SUBSET (1 .. n)
    OBVIOUS
  <2> QED BY <2>1 DEF IsLoop
<1>2. ASSUME NEW k \in 1 .. n PROVE it[1 .. k] = G[k][it[1 .. (k - 1)]]
  <2>1. 1 .. k \in SUBSET (1 .. n) /\ 1 .. k # {} /\ k \in 1 .. k
    OBVIOUS
  <2>2. Max(1 .. k) \in 1 .. k /\ k <= Max(1 .. k)
    BY <2>1, MaxIs
  <2>3. Max(1 .. k) = k
    BY <2>2
  <2>4. (1 .. k) \ {k} = 1 .. (k - 1)
    OBVIOUS
  <2>5. it[1 .. k] = G[Max(1 .. k)][it[(1 .. k) \ {Max(1 .. k)}]]
    BY <2>1 DEF IsLoop
  <2> QED BY <2>3, <2>4, <2>5
<1> QED BY <1>1, <1>2

-----------------------------------------------------------------------------
(* Turns and walks. *)

\* The least number of a set is a member of it.
LEMMA LeastMember ==
  ASSUME NEW S \in SUBSET Nat, S # {}
  PROVE  Min(S) \in S /\ \A m \in S : Min(S) <= m
BY LeastNat DEF Min

\* f[n] is what n turns of F make of base.
IsTurns(f, c, S, base, F) ==
  /\ f \in [0 .. c -> S]
  /\ \A n \in 0 .. c : f[n] = IF n = 0 THEN base ELSE F[f[n - 1]]

LEMMA TurnsExist ==
  ASSUME NEW c \in Nat, NEW S, NEW base \in S, NEW F \in [S -> S]
  PROVE  \E f : IsTurns(f, c, S, base, F)
<1> DEFINE G == [k \in 1 .. c |-> F]
<1>1. G \in [1 .. c -> [S -> S]]
  OBVIOUS
<1>2. PICK it : IsLoop(it, c, S, base, G)
  <2> HIDE DEF G
  <2> QED BY <1>1, LoopExists
<1>3. it[1 .. 0] = base /\ \A k \in 1 .. c : it[1 .. k] = F[it[1 .. (k - 1)]]
  <2>1. it[1 .. 0] = base /\ \A k \in 1 .. c : it[1 .. k] = G[k][it[1 .. (k - 1)]]
    <3> HIDE DEF G
    <3> QED BY <1>2, LoopTurn
  <2> QED BY <2>1
<1>4. \A k \in 0 .. c : it[1 .. k] \in S
  <2>1. \A k \in 0 .. c : 1 .. k \in SUBSET (1 .. c)
    OBVIOUS
  <2> QED BY <1>2, <2>1 DEF IsLoop
<1> DEFINE f == [n \in 0 .. c |-> it[1 .. n]]
<1>5. f \in [0 .. c -> S]
  BY <1>4
<1>6. ASSUME NEW n \in 0 .. c PROVE f[n] = IF n = 0 THEN base ELSE F[f[n - 1]]
  BY <1>3
<1> QED BY <1>5, <1>6 DEF IsTurns

\* A set that only grows, and by what it has, is complete after as many turns as it can
\* have members.
LEMMA Saturates ==
  ASSUME NEW D, IsFiniteSet(D), NEW F \in [SUBSET D -> SUBSET D], \A s \in SUBSET D : s \subseteq F[s],
         NEW base \in SUBSET D, NEW f, IsTurns(f, Cardinality(D), SUBSET D, base, F)
  PROVE  F[f[Cardinality(D)]] = f[Cardinality(D)]
<1> DEFINE c == Cardinality(D)
           N == {n \in Nat : n <= c => F[f[n]] = f[n] \/ Cardinality(f[n]) >= n}
<1>1. c \in Nat /\ \A s \in SUBSET D : IsFiniteSet(s) /\ Cardinality(s) \in Nat
  BY FS_Subset, FS_CardinalityType
<1> HIDE DEF c
<1>2. 0 \in N
  BY <1>1 DEF c, IsTurns
<1>3. ASSUME NEW n \in Nat, n \in N PROVE n + 1 \in N
  <2> SUFFICES ASSUME n + 1 <= c PROVE F[f[n + 1]] = f[n + 1] \/ Cardinality(f[n + 1]) >= n + 1
    OBVIOUS
  <2>1. n <= c /\ n \in 0 .. c /\ n + 1 \in 1 .. c /\ (n + 1) - 1 = n
    BY <1>1
  <2>2. f[n + 1] = F[f[n]] /\ f[n] \in SUBSET D /\ f[n + 1] \in SUBSET D
    BY <2>1 DEF c, IsTurns
  <2>3. CASE F[f[n]] = f[n]
    BY <2>2, <2>3
  <2>4. CASE F[f[n]] # f[n] /\ Cardinality(f[n]) >= n
    <3>1. f[n] \subseteq f[n + 1] /\ f[n] # f[n + 1]
      BY <2>2, <2>4
    <3>2. Cardinality(f[n]) <= Cardinality(f[n + 1]) /\ Cardinality(f[n]) # Cardinality(f[n + 1])
      BY <1>1, <2>2, <3>1, FS_Subset
    <3> QED BY <1>1, <2>2, <2>4, <3>2
  <2> QED BY <1>3, <2>1, <2>3, <2>4
<1>4. Nat \subseteq N
  <2> HIDE DEF N
  <2> QED BY <1>2, <1>3, EveryNat
<1>5. f[c] \in SUBSET D /\ F[f[c]] \in SUBSET D /\ f[c] \subseteq F[f[c]]
  BY <1>1 DEF c, IsTurns
<1>6. CASE Cardinality(f[c]) >= c
  <2>1. Cardinality(f[c]) <= Cardinality(D) /\ (Cardinality(D) = Cardinality(f[c]) => D = f[c])
    BY <1>5, FS_Subset
  <2>2. Cardinality(f[c]) \in Nat /\ Cardinality(D) \in Nat
    BY <1>1, <1>5 DEF c
  <2>3. f[c] = D
    BY <1>6, <2>1, <2>2 DEF c
  <2> QED BY <1>5, <2>3 DEF c
<1>7. F[f[c]] = f[c] \/ Cardinality(f[c]) >= c
  BY <1>1, <1>4
<1> QED BY <1>6, <1>7 DEF c

\* c steps along next from the members of D.
Walk(c, D, next) ==
  CHOOSE f : f = [n \in 0 .. c |->
    [i \in D |-> IF n = 0 \/ i \notin DOMAIN next THEN i ELSE f[n - 1][next[i]]]]

\* walk[n][i] is where n steps along next lead from i.
IsWalk(walk, c, D, next) ==
  /\ walk \in [0 .. c -> [D -> D]]
  /\ \A n \in 0 .. c : \A i \in D :
       walk[n][i] = IF n = 0 \/ i \notin DOMAIN next THEN i ELSE walk[n - 1][next[i]]

\* Such a walk exists: along next it does not leave D.
LEMMA WalkIs ==
  ASSUME NEW D, NEW next, DOMAIN next \subseteq D, \A i \in DOMAIN next : next[i] \in D,
         NEW c \in Nat
  PROVE  IsWalk(Walk(c, D, next), c, D, next)
<1> DEFINE walk == Walk(c, D, next)
           Rule(f) == [n \in 0 .. c |->
             [i \in D |-> IF n = 0 \/ i \notin DOMAIN next THEN i ELSE f[n - 1][next[i]]]]
           S == [D -> D]
           base == [i \in D |-> i]
           F == [s \in S |-> [i \in D |-> IF i \notin DOMAIN next THEN i ELSE s[next[i]]]]
<1>1. base \in S /\ F \in [S -> S]
  OBVIOUS
<1>2. PICK f : IsTurns(f, c, S, base, F)
  <2> HIDE DEF F, S, base
  <2> QED BY <1>1, TurnsExist
<1>t. f \in [0 .. c -> S] /\ \A n \in 0 .. c : f[n] = IF n = 0 THEN base ELSE F[f[n - 1]]
  <2> HIDE DEF F, S, base
  <2> QED BY <1>2 DEF IsTurns
<1>3. ASSUME NEW n \in 0 .. c
      PROVE  f[n] = [i \in D |-> IF n = 0 \/ i \notin DOMAIN next THEN i ELSE f[n - 1][next[i]]]
  <2>1. CASE n = 0
    BY <1>t, <2>1
  <2>2. CASE n # 0
    <3>1. n - 1 \in 0 .. c
      BY <2>2
    <3>2. f[n - 1] \in S /\ f[n] = F[f[n - 1]]
      BY <1>t, <2>2, <3>1
    <3> QED BY <2>2, <3>2
  <2> QED BY <2>1, <2>2
<1>4. f = Rule(f)
  <2> HIDE DEF S, base, F
  <2> QED BY <1>t, <1>3
<1>5. walk = Rule(walk)
  <2>1. walk = CHOOSE g : g = Rule(g)
    BY DEF Walk
  <2> HIDE DEF walk, S, base, F
  <2> QED BY <1>4, <2>1
<1> HIDE DEF walk
<1>6. ASSUME NEW n \in 0 .. c, NEW i \in D
      PROVE  walk[n][i] = IF n = 0 \/ i \notin DOMAIN next THEN i ELSE walk[n - 1][next[i]]
  <2>1. Rule(walk)[n][i] = IF n = 0 \/ i \notin DOMAIN next THEN i ELSE walk[n - 1][next[i]]
    OBVIOUS
  <2> HIDE DEF Rule
  <2> QED BY <1>5, <2>1
<1> DEFINE N == {n \in Nat : n <= c => \A i \in D : walk[n][i] \in D}
<1>8. 0 \in N
  BY <1>6
<1>9. ASSUME NEW n \in Nat, n \in N PROVE n + 1 \in N
  <2> SUFFICES ASSUME n + 1 <= c, NEW i \in D PROVE walk[n + 1][i] \in D
    OBVIOUS
  <2>1. n + 1 \in 0 .. c /\ n + 1 # 0 /\ (n + 1) - 1 = n /\ n <= c
    OBVIOUS
  <2>2. \A k \in D : walk[n][k] \in D
    BY <1>9, <2>1
  <2>3. walk[n + 1][i] = IF i \notin DOMAIN next THEN i ELSE walk[n][next[i]]
    BY <1>6, <2>1
  <2> QED BY <2>2, <2>3
<1>10. Nat \subseteq N
  <2> HIDE DEF N
  <2> QED BY <1>8, <1>9, EveryNat
<1>11. \A n \in 0 .. c : \A i \in D : walk[n][i] \in D
  BY <1>10
<1>12. walk = [n \in 0 .. c |-> [i \in D |-> walk[n][i]]]
  <2>1. Rule(walk) = [n \in 0 .. c |-> [i \in D |-> Rule(walk)[n][i]]]
    OBVIOUS
  <2> HIDE DEF Rule
  <2> QED BY <1>5, <2>1
<1>13. walk \in [0 .. c -> [D -> D]]
  BY <1>11, <1>12
<1> QED BY <1>6, <1>13 DEF IsWalk, walk

\* A chain that goes down with every step that is not its last has ended after as many
\* steps as there are members to pass.
LEMMA ChainEnds ==
  ASSUME NEW D, IsFiniteSet(D), NEW step \in [D -> D], NEW rank \in [D -> Nat],
         \A j \in D : step[j] = j \/ rank[step[j]] < rank[j],
         NEW i \in D, NEW at, IsTurns(at, Cardinality(D), D, i, step)
  PROVE  at[Cardinality(D)] \in D /\ step[at[Cardinality(D)]] = at[Cardinality(D)]
<1> DEFINE c == Cardinality(D)
           Passed(n) == \E s \in SUBSET D :
             /\ Cardinality(s) >= n + 1
             /\ \A j \in s : rank[at[n]] <= rank[j]
           N == {n \in Nat : n <= c => step[at[n]] = at[n] \/ Passed(n)}
<1>1. c \in Nat /\ \A s \in SUBSET D : IsFiniteSet(s) /\ Cardinality(s) \in Nat
  BY FS_Subset, FS_CardinalityType
<1> HIDE DEF c
<1>2. at \in [0 .. c -> D] /\ \A n \in 0 .. c : at[n] = IF n = 0 THEN i ELSE step[at[n - 1]]
  BY DEF c, IsTurns
<1>3. 0 \in N
  <2>1. at[0] = i
    BY <1>1, <1>2
  <2>2. {i} \in SUBSET D /\ Cardinality({i}) = 1
    BY FS_Singleton
  <2>3. \A j \in {i} : rank[at[0]] <= rank[j]
    BY <2>1
  <2>4. Cardinality({i}) >= 0 + 1
    BY <2>2
  <2> QED BY <2>2, <2>3, <2>4
<1>4. ASSUME NEW n \in Nat, n \in N PROVE n + 1 \in N
  <2> SUFFICES ASSUME n + 1 <= c PROVE step[at[n + 1]] = at[n + 1] \/ Passed(n + 1)
    OBVIOUS
  <2>1. n <= c /\ n \in 0 .. c /\ n + 1 \in 0 .. c /\ n + 1 # 0 /\ (n + 1) - 1 = n
    BY <1>1
  <2>2. at[n + 1] = step[at[n]] /\ at[n] \in D /\ at[n + 1] \in D
    BY <1>2, <2>1
  <2>3. CASE step[at[n]] = at[n]
    BY <2>2, <2>3
  <2>4. CASE step[at[n]] # at[n]
    <3>1. PICK s \in SUBSET D : Cardinality(s) >= n + 1 /\ \A j \in s : rank[at[n]] <= rank[j]
      BY <1>4, <2>1, <2>4
    <3> DEFINE t == s \cup {at[n + 1]}
    <3>2. rank[at[n + 1]] < rank[at[n]] /\ rank[at[n]] \in Nat /\ rank[at[n + 1]] \in Nat
      BY <2>2, <2>4
    <3>3. \A j \in s : rank[j] \in Nat
      OBVIOUS
    <3>4. \A j \in s : rank[at[n + 1]] < rank[j]
      BY <3>1, <3>2, <3>3
    <3>5. at[n + 1] \notin s
      BY <3>2, <3>4
    <3>6. Cardinality(t) = Cardinality(s) + 1
      BY <1>1, <3>5, FS_AddElement
    <3>7. Cardinality(t) >= (n + 1) + 1
      BY <1>1, <3>1, <3>6
    <3>8. \A j \in t : rank[at[n + 1]] <= rank[j]
      BY <3>2, <3>3, <3>4
    <3>9. t \in SUBSET D
      BY <2>2
    <3> QED
      <4> HIDE DEF t
      <4> QED BY <3>7, <3>8, <3>9
  <2> QED BY <2>3, <2>4
<1>5. Nat \subseteq N
  <2> HIDE DEF N
  <2> QED BY <1>3, <1>4, EveryNat
<1>6. ~ Passed(c)
  <2> SUFFICES ASSUME NEW s \in SUBSET D, Cardinality(s) >= c + 1 PROVE FALSE
    BY DEF Passed
  <2>1. Cardinality(s) <= c
    BY FS_Subset DEF c
  <2> QED BY <1>1, <2>1
<1>7. c \in N /\ c <= c
  BY <1>1, <1>5
<1>8. step[at[c]] = at[c]
  <2> HIDE DEF Passed
  <2> QED BY <1>6, <1>7
<1>9. at[c] \in D
  BY <1>1, <1>2
<1> QED BY <1>8, <1>9 DEF c
=============================================================================
