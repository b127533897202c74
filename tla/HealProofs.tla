----------------------------- MODULE HealProofs -----------------------------
(***************************************************************************)
(* Proofs about Heal.tla and HealPasses.tla, for every finite vault and    *)
(* any number of clients: of every version an heir stays, the successors   *)
(* of a plan lead out of it, and one pass leaves nothing to remove.        *)
(***************************************************************************)
EXTENDS HealPasses, FoldLemmas, TLAPS

-----------------------------------------------------------------------------
\* What a plan is made of: who is kept of the copies.
LEMMA KeeperIs ==
  ASSUME NEW v, DOMAIN v \in SUBSET Nat, NEW i \in DOMAIN v
  PROVE  /\ Keeper(v, i) \in DOMAIN v \ Copies(v)
         /\ v[Keeper(v, i)].print = v[i].print
<1> DEFINE S == {j \in DOMAIN v : v[j].print = v[i].print}
           k == Keeper(v, i)
<1>1. S \in SUBSET Nat /\ S # {}
  OBVIOUS
<1>2. k = Min(S)
  BY DEF Keeper
<1>3. k \in S
  <2> HIDE DEF S
  <2> QED BY <1>1, <1>2, LeastMember
<1>4. Keeper(v, k) = Min({j \in DOMAIN v : v[j].print = v[k].print})
  BY DEF Keeper
<1>5. Keeper(v, k) = k
  BY <1>2, <1>3, <1>4
<1> QED BY <1>3, <1>5 DEF Copies

\* The least number of a set is that of a part that has it.
LEMMA LeastOfPart ==
  ASSUME NEW S \in SUBSET Nat, NEW T \in SUBSET S, NEW m \in T, \A n \in S : m <= n
  PROVE  Min(T) = m
<1>1. T \in SUBSET Nat /\ T # {}
  OBVIOUS
<1>2. Min(T) \in T /\ Min(T) <= m
  BY <1>1, LeastMember
<1>3. m <= Min(T) /\ m \in Nat /\ Min(T) \in Nat
  BY <1>1, <1>2
<1> QED BY <1>2, <1>3

\* Who is kept of the versions.
LEMMA NewestIs ==
  ASSUME NEW v, NEW i \in Older(v), NEW j, j = CHOOSE k \in Newest(v, i) : TRUE
  PROVE  /\ i \in Comparable(v) /\ j \in Versions(v, i)
         /\ j \notin Copies(v) /\ j \notin Older(v)
         /\ v[i].ref # None /\ v[j].ref = v[i].ref /\ v[j].folder = v[i].folder
<1>1. i \in Comparable(v) /\ Cardinality(Newest(v, i)) = 1
  BY DEF Older
<1>2. Newest(v, i) # {}
  <2>1. Cardinality({}) = 0
    BY FS_EmptySet
  <2>2. Cardinality(Newest(v, i)) # 0
    BY <1>1
  <2> QED BY <2>1, <2>2, Zenon
<1>3. j \in Newest(v, i) /\ j \in Versions(v, i) /\ j \in Comparable(v)
      /\ v[j].ref = v[i].ref /\ v[j].folder = v[i].folder
  BY <1>2 DEF Newest, Versions
<1>4. Versions(v, j) = Versions(v, i)
  BY <1>3 DEF Versions
<1>5. Newest(v, j) = Newest(v, i)
  BY <1>4 DEF Newest
<1> QED BY <1>1, <1>3, <1>5 DEF Older, Comparable

\* Which save of a file is followed.
LEMMA NextIs ==
  ASSUME NEW v, DOMAIN v \in SUBSET Nat, NEW i \in DOMAIN NextSave(v)
  PROVE  /\ NextSave(v)[i] \in SavesOf(v, i)
         /\ \A n \in SavesOf(v, i) : NextSave(v)[i] <= n
         /\ i \in Files(v) /\ NextSave(v)[i] \in Files(v) /\ NextSave(v)[i] # i
         /\ v[i].ref # None /\ v[NextSave(v)[i]].from = v[i].ref
<1>1. i \in Files(v) /\ SavesOf(v, i) # {} /\ SavesOf(v, i) \in SUBSET Nat
      /\ NextSave(v)[i] = Min(SavesOf(v, i))
  BY DEF NextSave, SavesOf, Files
<1>2. NextSave(v)[i] \in SavesOf(v, i) /\ \A n \in SavesOf(v, i) : NextSave(v)[i] <= n
  BY <1>1, LeastMember
<1> QED BY <1>1, <1>2 DEF SavesOf

LEMMA NextIn ==
  ASSUME NEW v, DOMAIN v \in SUBSET Nat
  PROVE  /\ DOMAIN NextSave(v) \subseteq DOMAIN v
         /\ \A i \in DOMAIN NextSave(v) : NextSave(v)[i] \in DOMAIN v
<1>1. DOMAIN NextSave(v) \subseteq DOMAIN v
  BY DEF NextSave, Files
<1>2. ASSUME NEW i \in DOMAIN NextSave(v) PROVE NextSave(v)[i] \in DOMAIN v
  BY NextIs DEF Files
<1> QED BY <1>1, <1>2

\* The last saves are where the walks end.
Ends(v) == Walk(Cardinality(DOMAIN v), DOMAIN v, NextSave(v))[Cardinality(DOMAIN v)]

LEMMA LastSaveIs ==
  ASSUME NEW v
  PROVE  LastSave(v) = [i \in {j \in DOMAIN NextSave(v) : Ends(v)[j] \notin DOMAIN NextSave(v)}
                          |-> Ends(v)[i]]
BY DEF LastSave, Ends, Walk

\* A walk stays where no save leads out of.
LEMMA WalkKeeps ==
  ASSUME NEW v, DOMAIN v \in SUBSET Nat, IsFiniteSet(DOMAIN v), NEW X,
         \A i \in X \cap DOMAIN NextSave(v) : NextSave(v)[i] \in X,
         NEW i \in X \cap DOMAIN v
  PROVE  Ends(v)[i] \in X
<1> DEFINE D == DOMAIN v
           c == Cardinality(D)
           next == NextSave(v)
           walk == Walk(c, D, next)
           N == {n \in Nat : n <= c => \A k \in X \cap D : walk[n][k] \in X}
<1>1. c \in Nat
  BY FS_CardinalityType
<1>2. DOMAIN next \subseteq D /\ \A k \in DOMAIN next : next[k] \in D
  BY NextIn
<1>w. IsWalk(walk, c, D, next)
  <2> HIDE DEF c, next, D
  <2> QED BY <1>1, <1>2, WalkIs
<1> HIDE DEF walk
<1>3. \A n \in 0 .. c : \A k \in D :
        walk[n][k] = IF n = 0 \/ k \notin DOMAIN next THEN k ELSE walk[n - 1][next[k]]
  BY <1>w DEF IsWalk
<1> HIDE DEF walk, c, next, D
<1>4. 0 \in N
  BY <1>1, <1>3
<1>5. ASSUME NEW n \in Nat, n \in N PROVE n + 1 \in N
  <2> SUFFICES ASSUME n + 1 <= c, NEW k \in X \cap D PROVE walk[n + 1][k] \in X
    OBVIOUS
  <2>1. n + 1 \in 0 .. c /\ n + 1 # 0 /\ (n + 1) - 1 = n /\ n <= c
    BY <1>1
  <2>2. \A j \in X \cap D : walk[n][j] \in X
    BY <1>5, <2>1
  <2>3. walk[n + 1][k] = IF k \notin DOMAIN next THEN k ELSE walk[n][next[k]]
    BY <1>3, <2>1
  <2>4. k \in DOMAIN next => next[k] \in X \cap D
    BY <1>2 DEF next, D
  <2> QED BY <2>2, <2>3, <2>4
<1>6. Nat \subseteq N
  <2> HIDE DEF N
  <2> QED BY <1>4, <1>5, EveryNat
<1>7. walk[c][i] \in X
  BY <1>1, <1>6 DEF D
<1> QED BY <1>7 DEF Ends, walk, c, next, D

\* A plan is for records of the vault, and what each gives way to is one of them that the
\* same rule keeps.
LEMMA PlanIs ==
  ASSUME NEW v
  PROVE  /\ DOMAIN Plan(v) = Copies(v) \cup Older(v) \cup DOMAIN LastSave(v)
         /\ \A i \in Copies(v) : Plan(v)[i].succ = Keeper(v, i)
         /\ \A i \in Older(v) : Plan(v)[i].succ = CHOOSE j \in Newest(v, i) : TRUE
         /\ \A i \in DOMAIN LastSave(v) : Plan(v)[i].succ = LastSave(v)[i]
<1>1. Older(v) \cap Copies(v) = {}
  BY DEF Older, Comparable
<1>2. DOMAIN LastSave(v) \cap (Copies(v) \cup Older(v)) = {}
  <2>1. DOMAIN LastSave(v) \subseteq DOMAIN NextSave(v)
    BY LastSaveIs
  <2> QED BY <2>1 DEF NextSave, Files
<1> DEFINE last == LastSave(v)
           older == Older(v)
<1>3. Plan(v) = [i \in Copies(v) \cup older \cup DOMAIN last |->
         IF i \in Copies(v)
         THEN [succ |-> Keeper(v, i), identical |-> TRUE]
         ELSE IF i \in older
         THEN [succ |-> CHOOSE j \in Newest(v, i) : TRUE, identical |-> FALSE]
         ELSE [succ |-> last[i], identical |-> FALSE]]
  BY DEF Plan
<1> QED
  <2> DEFINE new(i) == CHOOSE j \in Newest(v, i) : TRUE
  <2>3. Plan(v) = [i \in Copies(v) \cup older \cup DOMAIN last |->
         IF i \in Copies(v)
         THEN [succ |-> Keeper(v, i), identical |-> TRUE]
         ELSE IF i \in older
         THEN [succ |-> new(i), identical |-> FALSE]
         ELSE [succ |-> last[i], identical |-> FALSE]]
    BY <1>3
  <2>4. \A i \in Older(v) : Plan(v)[i].succ = new(i)
    <3> HIDE DEF new, last
    <3> QED BY <2>3, <1>1
  <2> HIDE DEF last
  <2>5. /\ DOMAIN Plan(v) = Copies(v) \cup Older(v) \cup DOMAIN last
        /\ \A i \in Copies(v) : Plan(v)[i].succ = Keeper(v, i)
        /\ \A i \in DOMAIN last : Plan(v)[i].succ = last[i]
    <3> HIDE DEF new
    <3> QED BY <2>3, <1>2 DEF last
  <2> QED BY <2>4, <2>5 DEF last

-----------------------------------------------------------------------------
(* Of every version an heir stays. *)

\* An heir of an heir is an heir: as many turns as there are records find them all.
LEMMA HeirsAreAll ==
  ASSUME NEW s, IsFiniteSet(DOMAIN s), NEW i \in DOMAIN s
  PROVE  /\ i \in Heirs(s, i) /\ Heirs(s, i) \subseteq DOMAIN s
         /\ \A k \in Heirs(s, i) : \A j \in DOMAIN s : Follows(s, k, j) => j \in Heirs(s, i)
<1> DEFINE D == DOMAIN s
           c == Cardinality(D)
           F == [b \in SUBSET D |-> b \cup {j \in D : \E k \in b : Follows(s, k, j)}]
           Rule(f) == [n \in 0 .. c |->
             IF n = 0 THEN {i}
             ELSE f[n - 1] \cup {j \in D : \E k \in f[n - 1] : Follows(s, k, j)}]
           found == CHOOSE f : f = Rule(f)
<1>1. c \in Nat
  BY FS_CardinalityType
<1>2. F \in [SUBSET D -> SUBSET D] /\ {i} \in SUBSET D /\ \A b \in SUBSET D : b \subseteq F[b]
  OBVIOUS
<1>3. PICK f : IsTurns(f, c, SUBSET D, {i}, F)
  <2> HIDE DEF F, D, c
  <2> QED BY <1>1, <1>2, TurnsExist
<1>4. f \in [0 .. c -> SUBSET D] /\ \A n \in 0 .. c : f[n] = IF n = 0 THEN {i} ELSE F[f[n - 1]]
  <2> HIDE DEF F, D, c
  <2> QED BY <1>3 DEF IsTurns
<1>5. f = Rule(f)
  <2>1. ASSUME NEW n \in 0 .. c, n # 0
        PROVE  f[n] = f[n - 1] \cup {j \in D : \E k \in f[n - 1] : Follows(s, k, j)}
    <3>1. n - 1 \in 0 .. c
      BY <1>1, <2>1
    <3>2. f[n - 1] \in SUBSET D /\ f[n] = F[f[n - 1]]
      BY <1>4, <2>1, <3>1
    <3> QED BY <3>2
  <2> HIDE DEF F, D, c
  <2> QED BY <1>4, <2>1
<1>6. found = Rule(found)
  <2> HIDE DEF Rule
  <2> QED BY <1>5
<1>a. /\ found[0] = {i}
      /\ \A n \in 0 .. c : n # 0 =>
           found[n] = found[n - 1] \cup {j \in D : \E k \in found[n - 1] : Follows(s, k, j)}
  <2> HIDE DEF found, D
  <2>1. 0 \in 0 .. c
    BY <1>1
  <2>2. Rule(found)[0] = {i}
    BY <2>1
  <2>3. ASSUME NEW n \in 0 .. c, n # 0
        PROVE  Rule(found)[n] = found[n - 1] \cup {j \in D : \E k \in found[n - 1] : Follows(s, k, j)}
    BY <2>3
  <2> HIDE DEF Rule
  <2> QED BY <1>6, <2>2, <2>3
<1>7. Heirs(s, i) = found[c]
  BY DEF Heirs
<1>8. found \in [0 .. c -> SUBSET D]
  <2> DEFINE N == {n \in Nat : n <= c => found[n] \in SUBSET D}
  <2> HIDE DEF found
  <2>1. 0 \in N
    BY <1>1, <1>a
  <2>2. ASSUME NEW n \in Nat, n \in N PROVE n + 1 \in N
    <3> SUFFICES ASSUME n + 1 <= c PROVE found[n + 1] \in SUBSET D
      OBVIOUS
    <3>1. n + 1 \in 0 .. c /\ n + 1 # 0 /\ (n + 1) - 1 = n /\ n <= c
      BY <1>1
    <3>2. found[n] \in SUBSET D
      BY <2>2, <3>1
    <3> QED BY <1>a, <3>1, <3>2
  <2>3. Nat \subseteq N
    <3> HIDE DEF N
    <3> QED BY <2>1, <2>2, EveryNat
  <2>4. \A n \in 0 .. c : found[n] \in SUBSET D
    BY <2>3
  <2>5. found = [n \in 0 .. c |-> found[n]]
    <3>1. Rule(found) = [n \in 0 .. c |-> Rule(found)[n]]
      OBVIOUS
    <3> HIDE DEF Rule
    <3> QED BY <1>6, <3>1
  <2> QED BY <2>4, <2>5
<1>9. IsTurns(found, c, SUBSET D, {i}, F)
  <2>1. ASSUME NEW n \in 0 .. c PROVE found[n] = IF n = 0 THEN {i} ELSE F[found[n - 1]]
    <3>1. found[n] = IF n = 0 THEN {i}
            ELSE found[n - 1] \cup {j \in D : \E k \in found[n - 1] : Follows(s, k, j)}
      <4> HIDE DEF found, D, c
      <4> QED BY <1>6
    <3>2. CASE n = 0
      <4> HIDE DEF found, F, D
      <4> QED BY <3>1, <3>2
    <3>3. CASE n # 0
      <4> HIDE DEF found
      <4>1. n - 1 \in 0 .. c
        BY <1>1, <3>3
      <4>2. found[n - 1] \in SUBSET D
        BY <1>8, <4>1
      <4> QED BY <3>1, <3>3, <4>2
    <3> QED BY <3>2, <3>3
  <2> HIDE DEF F, D, c, found
  <2> QED BY <1>8, <2>1 DEF IsTurns
<1>10. F[found[c]] = found[c]
  <2> HIDE DEF F, D, found
  <2> QED BY <1>2, <1>9, Saturates DEF D
<1>11. i \in found[c]
  <2> DEFINE N == {n \in Nat : n <= c => i \in found[n]}
  <2> HIDE DEF found
  <2>1. 0 \in N
    BY <1>1, <1>a
  <2>2. ASSUME NEW n \in Nat, n \in N PROVE n + 1 \in N
    <3> SUFFICES ASSUME n + 1 <= c PROVE i \in found[n + 1]
      OBVIOUS
    <3>1. n + 1 \in 0 .. c /\ n + 1 # 0 /\ (n + 1) - 1 = n /\ n <= c
      BY <1>1
    <3> QED BY <1>a, <2>2, <3>1
  <2>3. Nat \subseteq N
    <3> HIDE DEF N
    <3> QED BY <2>1, <2>2, EveryNat
  <2> QED BY <1>1, <2>3
<1>12. found[c] \in SUBSET D
  <2> HIDE DEF found, D, c
  <2> QED BY <1>1, <1>8
<1> HIDE DEF found
<1> QED BY <1>7, <1>10, <1>11, <1>12

\* Of finitely many records one has the greatest number.
LEMMA GreatestIs ==
  ASSUME NEW D, IsFiniteSet(D), D # {}, NEW f, \A x \in D : f[x] \in Nat
  PROVE  \E m \in D : \A x \in D : f[x] <= f[m]
<1> DEFINE P == {s \in SUBSET D : s # {} => \E m \in s : \A x \in s : f[x] <= f[m]}
<1>1. {} \in P
  OBVIOUS
<1>2. ASSUME NEW s \in SUBSET D, s # {}, \A x \in s : s \ {x} \in P PROVE s \in P
  <2>1. PICK x \in s : TRUE
    BY <1>2
  <2>2. CASE s \ {x} = {}
    <3>1. s = {x} /\ f[x] \in Nat
      BY <2>1, <2>2
    <3>2. f[x] <= f[x]
      BY <3>1
    <3> QED BY <3>1, <3>2
  <2>3. CASE s \ {x} # {}
    <3>1. PICK m \in s \ {x} : \A y \in s \ {x} : f[y] <= f[m]
      BY <1>2, <2>3
    <3>2. f[m] \in Nat /\ f[x] \in Nat /\ \A y \in s : f[y] \in Nat
      BY <3>1
    <3>3. CASE f[x] <= f[m]
      BY <3>1, <3>3
    <3>4. CASE f[m] <= f[x]
      <4>1. \A y \in s : f[y] <= f[x]
        BY <3>1, <3>2, <3>4
      <4> QED BY <4>1
    <3> QED BY <3>2, <3>3, <3>4
  <2> QED BY <2>2, <2>3
<1>3. SUBSET D \subseteq P
  <2> HIDE DEF P
  <2> QED BY <1>1, <1>2, FiniteInduction
<1> QED BY <1>3

\* Whoever has seen whichever of the records, the first of one fingerprint is no copy.
LEMMA FirstIsNoCopy ==
  ASSUME NEW s, DOMAIN s \in SUBSET Nat, NEW i \in DOMAIN s, NEW view \in SUBSET DOMAIN s
  PROVE  Keeper(s, i) \notin Copies(Restrict(s, view))
<1> DEFINE k == Keeper(s, i)
           v == Restrict(s, view)
           S == {j \in DOMAIN s : s[j].print = s[i].print}
           T == {j \in DOMAIN v : v[j].print = v[k].print}
<1> SUFFICES ASSUME k \in Copies(v) PROVE FALSE
  OBVIOUS
<1>1. DOMAIN v = view /\ \A j \in view : v[j] = s[j]
  BY DEF Restrict
<1>2. k \in DOMAIN s /\ s[k].print = s[i].print
  BY KeeperIs
<1>3. k \in view /\ Keeper(v, k) # k
  BY <1>1 DEF Copies
<1>4. T \in SUBSET S /\ k \in T
  BY <1>1, <1>2, <1>3
<1>5. S \in SUBSET Nat /\ S # {} /\ k = Min(S)
  BY DEF Keeper
<1>6. \A n \in S : k <= n
  <2> HIDE DEF S, k
  <2> QED BY <1>5, LeastMember
<1>7. Min(T) = k
  <2> HIDE DEF S, T, k
  <2> QED BY <1>4, <1>5, <1>6, LeastOfPart
<1> QED BY <1>3, <1>7 DEF Keeper

\* Where saves do not go in a circle, of every record there is an heir that no client,
\* whatever it has seen, plans to remove: of the heirs, the version with the greatest
\* number of an object that none of them was saved over.
LEMMA HeirStays ==
  ASSUME NEW s \in Vaults, NoCircle(s), NEW i \in DOMAIN s
  PROVE  \E m \in Heirs(s, i) :
           \A view \in SUBSET DOMAIN s : m \notin DOMAIN Plan(Restrict(s, view))
<1> DEFINE H == Heirs(s, i)
<1>1. /\ IsFiniteSet(DOMAIN s) /\ DOMAIN s \in SUBSET Nat
      /\ \A j \in DOMAIN s : s[j].rev \in Nat
      /\ \A j, k \in DOMAIN s : s[j].print = s[k].print => s[j] = s[k]
  BY VaultsAssumption
<1>2. /\ i \in H /\ H \subseteq DOMAIN s
      /\ \A k \in H : \A j \in DOMAIN s : Follows(s, k, j) => j \in H
  BY <1>1, HeirsAreAll
<1> HIDE DEF H
<1>3. ASSUME NEW h \in H
      PROVE  /\ Keeper(s, h) \in H /\ s[Keeper(s, h)] = s[h]
             /\ \A view \in SUBSET DOMAIN s : Keeper(s, h) \notin Copies(Restrict(s, view))
  <2>1. Keeper(s, h) \in DOMAIN s /\ s[Keeper(s, h)].print = s[h].print
    BY <1>1, <1>2, KeeperIs
  <2>2. Follows(s, h, Keeper(s, h))
    BY <2>1 DEF Follows
  <2>3. \A view \in SUBSET DOMAIN s : Keeper(s, h) \notin Copies(Restrict(s, view))
    BY <1>1, <1>2, FirstIsNoCopy
  <2> QED BY <1>1, <1>2, <2>1, <2>2, <2>3
\* What a plan would have to call it, if it removed a record that is no copy.
<1>4. ASSUME NEW m \in H, NEW view \in SUBSET DOMAIN s, NEW v, v = Restrict(s, view),
             m \notin Copies(v), m \in DOMAIN Plan(v)
      PROVE  /\ DOMAIN v = view /\ \A j \in view : v[j] = s[j]
             /\ m \in view /\ s[m].ref # None
             /\ \/ m \in Older(v)
                \/ /\ ~s[m].folder
                   /\ \E n \in H : /\ s[n].from = s[m].ref /\ s[n].from # s[n].ref
                                   /\ ~s[n].folder
  <2>1. DOMAIN v = view /\ \A j \in view : v[j] = s[j]
    BY <1>4 DEF Restrict
  <2>2. DOMAIN v \in SUBSET Nat
    BY <1>1, <2>1
  <2>3. m \in Older(v) \/ m \in DOMAIN NextSave(v)
    BY <1>4, PlanIs, LastSaveIs
  <2>4. CASE m \in Older(v)
    <3>1. m \in DOMAIN v /\ v[m].ref # None
      BY <2>4 DEF Older, Comparable
    <3> QED BY <2>1, <2>4, <3>1
  <2>5. CASE m \in DOMAIN NextSave(v)
    <3> DEFINE n == NextSave(v)[m]
    <3>1. m \in Files(v) /\ n \in Files(v) /\ n \in SavesOf(v, m) /\ v[m].ref # None
      BY <2>2, <2>5, NextIs
    <3>2. m \in view /\ n \in view /\ ~v[m].folder /\ ~v[n].folder
      BY <2>1, <3>1 DEF Files
    <3>3. v[n].from = v[m].ref /\ v[n].from # v[n].ref
      BY <3>1 DEF SavesOf
    <3>4. Follows(s, m, n) /\ n \in DOMAIN s
      BY <2>1, <3>1, <3>2, <3>3 DEF Follows
    <3>5. n \in H
      BY <1>2, <3>4
    <3> HIDE DEF n
    <3> QED BY <2>1, <3>1, <3>2, <3>3, <3>5
  <2> QED BY <2>3, <2>4, <2>5
<1>5. CASE \E h \in H : s[h].ref = None
  <2>1. PICK h \in H : s[h].ref = None
    BY <1>5
  <2>2. Keeper(s, h) \in H /\ s[Keeper(s, h)].ref = None
    BY <1>3, <2>1
  <2>3. \A view \in SUBSET DOMAIN s : Keeper(s, h) \notin DOMAIN Plan(Restrict(s, view))
    BY <1>3, <1>4, <2>1, <2>2
  <2> QED BY <2>2, <2>3 DEF H
<1>6. CASE \A h \in H : s[h].ref # None
  <2> DEFINE R == {s[h].ref : h \in H}
  <2>1. R \in SUBSET {s[j].ref : j \in DOMAIN s} /\ R # {}
    BY <1>2
  <2>2. PICK r \in R : \A n \in DOMAIN s :
                ~s[n].folder /\ s[n].ref \in R /\ s[n].from = r => s[n].ref = r
    <3> HIDE DEF R
    <3> QED BY <2>1 DEF NoCircle
  <2>3. PICK j \in H : s[j].ref = r
    OBVIOUS
  <2> DEFINE W == {k \in DOMAIN s : s[k].ref = r /\ s[k].folder = s[j].folder}
             revs == [k \in W |-> s[k].rev]
  <2>4. W \subseteq H
    BY <1>2, <1>6, <2>3 DEF Follows
  <2>5. PICK n \in W : \A k \in W : s[k].rev <= s[n].rev
    <3>1. IsFiniteSet(W) /\ W # {}
      BY <1>1, <1>2, <2>3, FS_Subset
    <3>2. \A k \in W : revs[k] \in Nat
      BY <1>1
    <3> HIDE DEF W, revs
    <3>3. \E n \in W : \A k \in W : revs[k] <= revs[n]
      BY <3>1, <3>2, GreatestIs
    <3> QED BY <3>3 DEF revs
  <2> DEFINE m == Keeper(s, n)
  <2>6. m \in H /\ s[m] = s[n]
    BY <1>3, <2>4, <2>5
  <2>7. ASSUME NEW view \in SUBSET DOMAIN s, m \in DOMAIN Plan(Restrict(s, view)) PROVE FALSE
    <3> DEFINE v == Restrict(s, view)
    <3>1. m \notin Copies(v)
      BY <1>3, <2>4, <2>5
    <3> HIDE DEF m, v
    <3>2. /\ DOMAIN v = view /\ \A k \in view : v[k] = s[k]
          /\ m \in view /\ s[m].ref # None
          /\ \/ m \in Older(v)
             \/ /\ ~s[m].folder
                /\ \E k \in H : /\ s[k].from = s[m].ref /\ s[k].from # s[k].ref
                                /\ ~s[k].folder
      BY <1>4, <2>6, <2>7, <3>1 DEF v
    <3>3. m \notin Older(v)
      <4>1. \A k \in Versions(v, m) : k \in W /\ v[k].rev = s[k].rev
        BY <2>5, <2>6, <3>2 DEF Versions, Comparable
      <4>2. \A k \in Versions(v, m) : v[k].rev <= v[m].rev
        BY <2>5, <2>6, <3>2, <4>1
      <4>3. m \in Comparable(v) => m \in Newest(v, m)
        BY <4>2 DEF Newest, Versions
      <4> QED BY <4>3 DEF Older
    <3>4. PICK k \in H : s[k].from = s[m].ref /\ s[k].from # s[k].ref /\ ~s[k].folder
      BY <3>2, <3>3
    <3>5. k \in DOMAIN s /\ s[k].ref \in R /\ s[m].ref = r
      BY <1>2, <2>5, <2>6
    <3> QED BY <2>2, <3>4, <3>5
  <2> HIDE DEF m
  <2> QED BY <2>6, <2>7 DEF H
<1> QED BY <1>5, <1>6

\* What the vaults start from, and what nobody ever removes of it.
Unplanned(s) ==
  {m \in DOMAIN s : \A view \in SUBSET DOMAIN s : m \notin DOMAIN Plan(Restrict(s, view))}

HealInv ==
  /\ first \in Vaults
  /\ DOMAIN items \subseteq DOMAIN first
  /\ Unplanned(first) \subseteq DOMAIN items

LEMMA HealInit ==
  ASSUME Init PROVE HealInv
BY DEF Init, HealInv, Unplanned

LEMMA HealStep ==
  ASSUME HealInv, [Next]_vars PROVE HealInv'
<1>1. CASE UNCHANGED vars
  BY <1>1 DEF HealInv, Unplanned, vars
<1>2. CASE Next
  <2>1. PICK view \in SUBSET DOMAIN first :
          ReadBack(Leftovers(view)) \/ CleanOne(Leftovers(view))
    BY <1>2 DEF Next
  <2>2. CASE ReadBack(Leftovers(view))
    BY <2>2 DEF ReadBack, HealInv, Unplanned
  <2>3. CASE CleanOne(Leftovers(view))
    <3>1. PICK o \in DOMAIN Leftovers(view) : items' = Restrict(items, DOMAIN items \ {o})
      BY <2>3 DEF CleanOne
    <3>2. first' = first
      BY <2>3 DEF CleanOne
    <3>3. DOMAIN items' = DOMAIN items \ {o}
      BY <3>1 DEF Restrict
    <3>4. o \notin Unplanned(first)
      BY <3>1 DEF Leftovers, Unplanned
    <3>5. Unplanned(first)' = Unplanned(first)
      BY <3>2 DEF Unplanned
    <3> QED BY <3>2, <3>3, <3>4, <3>5 DEF HealInv
  <2> QED BY <2>1, <2>2, <2>3
<1> QED BY <1>1, <1>2

\* What no client plans to remove from any part of the vault is never removed.
THEOREM HealReaches == Spec => []HealInv
<1>1. Init => HealInv
  BY HealInit
<1>2. HealInv /\ [Next]_vars => HealInv'
  BY HealStep
<1> QED BY <1>1, <1>2, PTL DEF Spec

\* However many clients clean a vault in which saves go in no circle, whatever each has seen
\* and whatever has gone since it read the successor back, of every record there was a copy,
\* a rename or a later version stays (plan, heal_pending).
THEOREM VersionsHaveHeirs == Spec => []EveryVersionHasAnHeir
<1>1. HealInv => EveryVersionHasAnHeir
  <2> SUFFICES ASSUME HealInv, NoCircle(first), NEW i \in DOMAIN first
               PROVE  Heirs(first, i) \cap DOMAIN items # {}
    BY DEF EveryVersionHasAnHeir
  <2>1. first \in Vaults /\ Unplanned(first) \subseteq DOMAIN items
    BY DEF HealInv
  <2>2. PICK m \in Heirs(first, i) :
          \A view \in SUBSET DOMAIN first : m \notin DOMAIN Plan(Restrict(first, view))
    BY <2>1, HeirStays
  <2>3. Heirs(first, i) \subseteq DOMAIN first
    BY <2>1, VaultsAssumption, HeirsAreAll
  <2>4. m \in Unplanned(first)
    BY <2>2, <2>3 DEF Unplanned
  <2> QED BY <2>1, <2>2, <2>4
<1> QED BY <1>1, HealReaches, PTL

-----------------------------------------------------------------------------
(* The successors of a plan lead out of it. *)

\* A copy gives way to a record that is no copy, a version to one that is kept of the
\* versions, a file to its last save: the plan leads down these ranks.
Rank(v) ==
  [i \in DOMAIN v |->
     IF i \in Copies(v) THEN 3 ELSE IF i \in Older(v) THEN 2
     ELSE IF i \in DOMAIN LastSave(v) THEN 1 ELSE 0]

LEMMA PlanDescends ==
  ASSUME NEW v, IsFiniteSet(DOMAIN v), DOMAIN v \in SUBSET Nat, NEW i \in DOMAIN Plan(v)
  PROVE  /\ i \in DOMAIN v /\ Plan(v)[i].succ \in DOMAIN v
         /\ Rank(v)[Plan(v)[i].succ] < Rank(v)[i]
<1> DEFINE succ == Plan(v)[i].succ
<1> SUFFICES i \in DOMAIN v /\ succ \in DOMAIN v /\ Rank(v)[succ] < Rank(v)[i]
  OBVIOUS
<1>1. CASE i \in Copies(v)
  <2>0. i \in DOMAIN v /\ succ = Keeper(v, i)
    BY <1>1, PlanIs DEF Copies
  <2>1. succ \in DOMAIN v \ Copies(v)
    BY <2>0, KeeperIs
  <2> QED BY <1>1, <2>0, <2>1 DEF Rank
<1>2. CASE i \in Older(v)
  <2>1. succ = CHOOSE j \in Newest(v, i) : TRUE
    BY <1>2, PlanIs
  <2>2. /\ i \in Comparable(v) /\ succ \in Versions(v, i)
        /\ succ \notin Copies(v) /\ succ \notin Older(v)
    <3> HIDE DEF succ
    <3> QED BY <1>2, <2>1, NewestIs
  <2>3. i \in DOMAIN v \ Copies(v) /\ succ \in DOMAIN v
    BY <2>2 DEF Comparable, Versions
  <2> QED BY <1>2, <2>2, <2>3 DEF Rank
<1>3. CASE i \in DOMAIN LastSave(v)
  <2>1. i \in DOMAIN NextSave(v) /\ succ = Ends(v)[i] /\ succ \notin DOMAIN NextSave(v)
    BY <1>3, PlanIs, LastSaveIs
  <2>2. i \in Files(v) /\ \A k \in DOMAIN NextSave(v) : NextSave(v)[k] \in Files(v)
    BY <2>1, NextIs
  <2>3. i \in Files(v) \cap DOMAIN v
    BY <2>2 DEF Files
  <2>4. succ \in Files(v)
    BY <2>1, <2>2, <2>3, WalkKeeps
  <2>5. /\ i \in DOMAIN v /\ i \notin Copies(v) /\ i \notin Older(v)
        /\ succ \in DOMAIN v /\ succ \notin Copies(v) /\ succ \notin Older(v)
    BY <2>3, <2>4 DEF Files
  <2>6. succ \notin DOMAIN LastSave(v)
    BY <2>1, LastSaveIs
  <2> QED BY <1>3, <2>5, <2>6 DEF Rank
<1>4. i \in Copies(v) \/ i \in Older(v) \/ i \in DOMAIN LastSave(v)
  BY PlanIs
<1> QED BY <1>1, <1>2, <1>3, <1>4

LEMMA ChainsEnd ==
  ASSUME IsFiniteSet(DOMAIN items), DOMAIN items \in SUBSET Nat
  PROVE  SuccessorsEnd
<1> DEFINE D == DOMAIN items
           c == Cardinality(D)
           plan == Plan(items)
           step == [i \in D |-> IF i \in DOMAIN plan THEN plan[i].succ ELSE i]
           Rule(f, i) == [n \in 0 .. c |-> IF n = 0 THEN i ELSE step[f[n - 1]]]
           at(i) == CHOOSE f : f = Rule(f, i)
<1>1. c \in Nat
  BY FS_CardinalityType
<1>2. step \in [D -> D]
  BY PlanDescends
<1>3. \A j \in D : j \in DOMAIN plan => Rank(items)[step[j]] < Rank(items)[j]
  BY PlanDescends
<1>4. Rank(items) \in [D -> Nat]
  BY DEF Rank
<1>5. ASSUME NEW i \in D PROVE at(i)[c] \notin DOMAIN plan
  <2> HIDE DEF step, plan
  <2>1. PICK f : IsTurns(f, c, D, i, step)
    <3> HIDE DEF D, c
    <3> QED BY <1>1, <1>2, TurnsExist
  <2>2. f \in [0 .. c -> D] /\ \A n \in 0 .. c : f[n] = IF n = 0 THEN i ELSE step[f[n - 1]]
    <3> HIDE DEF D, c
    <3> QED BY <2>1 DEF IsTurns
  <2>3. f = Rule(f, i)
    <3> HIDE DEF D, c
    <3> QED BY <2>2
  <2>4. at(i) = Rule(at(i), i)
    <3> HIDE DEF Rule
    <3> QED BY <2>3
  <2> HIDE DEF at
  <2>5. PICK a : a = at(i)
    OBVIOUS
  <2>6. \A n \in 0 .. c : a[n] = IF n = 0 THEN i ELSE step[a[n - 1]]
    <3> HIDE DEF D, c
    <3> QED BY <2>4, <2>5
  <2>7. \A n \in 0 .. c : a[n] \in D
    <3> DEFINE N == {n \in Nat : n <= c => a[n] \in D}
    <3> HIDE DEF D, c
    <3>1. 0 \in N
      BY <1>1, <2>6
    <3>2. ASSUME NEW n \in Nat, n \in N PROVE n + 1 \in N
      <4> SUFFICES ASSUME n + 1 <= c PROVE a[n + 1] \in D
        OBVIOUS
      <4>1. n + 1 \in 0 .. c /\ n + 1 # 0 /\ (n + 1) - 1 = n /\ n <= c
        BY <1>1
      <4> QED BY <1>2, <2>6, <3>2, <4>1
    <3>3. Nat \subseteq N
      <4> HIDE DEF N
      <4> QED BY <3>1, <3>2, EveryNat
    <3> QED BY <3>3
  <2>8. a = [n \in 0 .. c |-> a[n]]
    <3>1. Rule(a, i) = [n \in 0 .. c |-> Rule(a, i)[n]]
      OBVIOUS
    <3> HIDE DEF Rule
    <3> QED BY <2>4, <2>5, <3>1
  <2>9. IsTurns(a, c, D, i, step)
    <3> HIDE DEF D, c
    <3> QED BY <2>6, <2>7, <2>8 DEF IsTurns
  <2>10. \A j \in D : step[j] = j \/ Rank(items)[step[j]] < Rank(items)[j]
    BY <1>3 DEF step
  <2>11. a[c] \in D /\ step[a[c]] = a[c]
    <3> HIDE DEF D
    <3> QED BY <1>2, <1>4, <2>9, <2>10, ChainEnds DEF D
  <2>12. Rank(items)[a[c]] \in Nat
    BY <1>4, <2>11
  <2> HIDE DEF D, c
  <2> QED BY <1>3, <2>5, <2>11, <2>12
<1>6. SuccessorsEnd <=> \A i \in D : at(i)[c] \notin DOMAIN plan
  BY DEF SuccessorsEnd
<1> HIDE DEF at, plan, c, D
<1> QED BY <1>5, <1>6

\* Two files that one save is of have one last save.
LEMMA SameEnd ==
  ASSUME NEW v, IsFiniteSet(DOMAIN v), DOMAIN v \in SUBSET Nat,
         NEW i \in DOMAIN NextSave(v), NEW k \in DOMAIN NextSave(v), NextSave(v)[i] = NextSave(v)[k]
  PROVE  Ends(v)[i] = Ends(v)[k]
<1> DEFINE D == DOMAIN v
           c == Cardinality(D)
           next == NextSave(v)
           walk == Walk(c, D, next)
<1>1. c \in Nat
  BY FS_CardinalityType
<1>2. DOMAIN next \subseteq D /\ \A j \in DOMAIN next : next[j] \in D
  BY NextIn
<1>3. IsWalk(walk, c, D, next)
  <2> HIDE DEF c, next, D
  <2> QED BY <1>1, <1>2, WalkIs
<1>4. c # 0
  <2>1. D # {}
    BY <1>2
  <2> QED BY <2>1, FS_EmptySet
<1>5. c \in 0 .. c /\ i \in D /\ k \in D
  BY <1>1, <1>2
<1> HIDE DEF walk, D, c
<1>6. walk[c][i] = walk[c - 1][next[i]] /\ walk[c][k] = walk[c - 1][next[k]]
  <2> HIDE DEF next
  <2> QED BY <1>3, <1>4, <1>5 DEF IsWalk, next
<1> QED BY <1>6 DEF Ends, walk, c, D

\* A file has no last save when every save on from it is followed by another; then the
\* next one has none either.
LEMMA EndlessGoesOn ==
  ASSUME NEW v, IsFiniteSet(DOMAIN v), DOMAIN v \in SUBSET Nat,
         NEW i \in DOMAIN NextSave(v), i \notin DOMAIN LastSave(v)
  PROVE  NextSave(v)[i] \in DOMAIN NextSave(v) \ DOMAIN LastSave(v)
<1> DEFINE D == DOMAIN v
           c == Cardinality(D)
           next == NextSave(v)
           walk == Walk(c, D, next)
           Done(n) == {j \in D : walk[n][j] \notin DOMAIN next}
           F == [b \in SUBSET D |-> b \cup (D \ DOMAIN next) \cup {j \in DOMAIN next : next[j] \in b}]
           done == [n \in 0 .. c |-> Done(n)]
<1>1. c \in Nat
  BY FS_CardinalityType
<1>2. DOMAIN next \subseteq D /\ \A j \in DOMAIN next : next[j] \in D
  BY NextIn
<1>w. IsWalk(walk, c, D, next)
  <2> HIDE DEF c, next, D
  <2> QED BY <1>1, <1>2, WalkIs
<1> HIDE DEF walk, c, D, next
<1>3. \A n \in 0 .. c : \A j \in D :
        walk[n][j] = IF n = 0 \/ j \notin DOMAIN next THEN j ELSE walk[n - 1][next[j]]
  BY <1>w DEF IsWalk
<1>4. F \in [SUBSET D -> SUBSET D] /\ \A b \in SUBSET D : b \subseteq F[b]
  BY <1>2
<1>5. Done(0) = D \ DOMAIN next
  BY <1>1, <1>3
<1>6. ASSUME NEW n \in Nat, n + 1 <= c
      PROVE  Done(n + 1) = (D \ DOMAIN next) \cup {j \in DOMAIN next : next[j] \in Done(n)}
  <2>1. n + 1 \in 0 .. c /\ n + 1 # 0 /\ (n + 1) - 1 = n
    BY <1>1, <1>6
  <2>2. \A j \in D : walk[n + 1][j] = IF j \notin DOMAIN next THEN j ELSE walk[n][next[j]]
    BY <1>3, <2>1
  <2> QED BY <1>2, <2>2
<1> DEFINE N == {n \in Nat : n + 1 <= c => Done(n) \subseteq Done(n + 1)}
<1>7. Nat \subseteq N
  <2>1. 0 \in N
    BY <1>5, <1>6
  <2>2. ASSUME NEW n \in Nat, n \in N PROVE n + 1 \in N
    <3> SUFFICES ASSUME (n + 1) + 1 <= c PROVE Done(n + 1) \subseteq Done((n + 1) + 1)
      OBVIOUS
    <3>1. n + 1 \in Nat /\ n + 1 <= c
      BY <1>1
    <3>2. Done(n) \subseteq Done(n + 1)
      BY <2>2, <3>1
    <3>3. /\ Done(n + 1) = (D \ DOMAIN next) \cup {j \in DOMAIN next : next[j] \in Done(n)}
          /\ Done((n + 1) + 1) = (D \ DOMAIN next) \cup {j \in DOMAIN next : next[j] \in Done(n + 1)}
      <4> HIDE DEF Done
      <4> QED BY <1>6, <3>1
    <3> HIDE DEF Done
    <3> QED BY <3>2, <3>3
  <2> HIDE DEF N
  <2> QED BY <2>1, <2>2, EveryNat
<1>8. IsTurns(done, c, SUBSET D, D \ DOMAIN next, F)
  <2>1. done \in [0 .. c -> SUBSET D]
    OBVIOUS
  <2>2. ASSUME NEW n \in 0 .. c PROVE done[n] = IF n = 0 THEN D \ DOMAIN next ELSE F[done[n - 1]]
    <3>1. CASE n = 0
      BY <1>5, <3>1
    <3>2. CASE n # 0
      <4>1. PICK m \in Nat : n = m + 1
        <5>1. n - 1 \in Nat /\ n = (n - 1) + 1
          BY <1>1, <3>2
        <5> QED BY <5>1
      <4>2. m + 1 <= c /\ n - 1 = m /\ m \in 0 .. c
        BY <1>1, <4>1
      <4>3. Done(m + 1) = (D \ DOMAIN next) \cup {j \in DOMAIN next : next[j] \in Done(m)}
        <5> HIDE DEF Done
        <5> QED BY <1>6, <4>2
      <4>4. Done(m) \subseteq Done(m + 1) /\ Done(m) \in SUBSET D
        BY <1>7, <4>2
      <4> HIDE DEF Done
      <4>5. done[n] = Done(m + 1) /\ done[n - 1] = Done(m)
        BY <4>1, <4>2
      <4>6. F[Done(m)] = Done(m + 1)
        BY <4>3, <4>4
      <4> QED BY <3>2, <4>5, <4>6
    <3> QED BY <3>1, <3>2
  <2> HIDE DEF done, F
  <2> QED BY <2>1, <2>2 DEF IsTurns
<1>9. F[done[c]] = done[c]
  <2> HIDE DEF F, done
  <2> QED BY <1>4, <1>8, Saturates DEF c, D
<1>10. done[c] = Done(c) /\ Done(c) \in SUBSET D
  BY <1>1
<1>11. \A j \in DOMAIN next : next[j] \in Done(c) => j \in Done(c)
  <2> HIDE DEF Done, done
  <2> QED BY <1>9, <1>10
<1>12. LastSave(v) = [j \in {k \in DOMAIN next : walk[c][k] \notin DOMAIN next} |-> walk[c][j]]
  BY LastSaveIs DEF Ends, walk, c, D, next
<1>13. i \in DOMAIN next /\ i \in D /\ i \notin Done(c)
  BY <1>2, <1>12 DEF next
<1>14. next[i] \in D /\ next[i] \notin Done(c)
  <2> HIDE DEF Done
  <2> QED BY <1>2, <1>11, <1>13
<1>15. walk[c][next[i]] \in DOMAIN next
  BY <1>14
<1>16. next[i] \in DOMAIN next
  <2>1. c \in 0 .. c
    BY <1>1
  <2>2. next[i] \notin DOMAIN next => walk[c][next[i]] = next[i]
    BY <1>3, <1>14, <2>1
  <2> QED BY <1>15, <2>2
<1> QED BY <1>12, <1>15, <1>16 DEF next

-----------------------------------------------------------------------------
(* One pass is enough. *)

\* What the plan leaves: no copy, no older version.
LEMMA NoneToRemove ==
  ASSUME NEW v, IsFiniteSet(DOMAIN v), DOMAIN v \in SUBSET Nat,
         NEW R, R = DOMAIN v \ DOMAIN Plan(v), NEW w, w = Restrict(v, R)
  PROVE  Copies(w) = {} /\ Older(w) = {}
<1>1. DOMAIN w = R /\ \A i \in R : w[i] = v[i]
  BY DEF Restrict
<1>2. R \subseteq DOMAIN v /\ \A i \in R : i \notin Copies(v) /\ i \notin Older(v) /\ i \notin DOMAIN LastSave(v)
  BY PlanIs
<1>3. Copies(w) = {}
  <2> SUFFICES ASSUME NEW i \in R PROVE Keeper(w, i) = i
    BY <1>1 DEF Copies
  <2> DEFINE S == {j \in DOMAIN v : v[j].print = v[i].print}
             T == {j \in DOMAIN w : w[j].print = w[i].print}
  <2>1. Min(S) = i
    BY <1>2 DEF Copies, Keeper
  <2>2. S \in SUBSET Nat /\ T \in SUBSET S /\ i \in S /\ i \in T
    BY <1>1, <1>2
  <2>3. \A n \in S : i <= n
    <3> HIDE DEF S
    <3> QED BY <2>1, <2>2, LeastMember
  <2>4. Min(T) = i
    <3> HIDE DEF S, T
    <3> QED BY <2>2, <2>3, LeastOfPart
  <2> QED BY <2>4 DEF Keeper
<1>4. Comparable(w) = Comparable(v) \cap R
  BY <1>1, <1>2, <1>3 DEF Comparable
<1>5. ASSUME NEW i \in Older(w) PROVE FALSE
  <2>1. /\ i \in R /\ i \in Comparable(w) /\ i \in Comparable(v)
        /\ Cardinality(Newest(w, i)) = 1 /\ i \notin Newest(w, i)
    BY <1>4 DEF Older
  <2>2. Versions(w, i) = Versions(v, i) \cap R
    BY <1>1, <1>4, <2>1 DEF Versions
  <2>3. i \in Versions(v, i) /\ Versions(v, i) \subseteq Comparable(v)
    BY <2>1 DEF Versions
  <2>4. CASE Cardinality(Newest(v, i)) = 1
    <3>1. i \in Newest(v, i)
      BY <1>2, <2>1, <2>4 DEF Older
    <3>2. i \in Newest(w, i)
      BY <1>1, <2>1, <2>2, <3>1 DEF Newest
    <3> QED BY <2>1, <3>2
  <2>5. CASE Cardinality(Newest(v, i)) # 1
    <3>1. ASSUME NEW k \in Versions(v, i) PROVE k \in R
      <4>1. k \in Comparable(v) /\ v[k].ref = v[i].ref /\ v[k].folder = v[i].folder
        BY DEF Versions
      <4>2. Versions(v, k) = Versions(v, i)
        BY <4>1 DEF Versions
      <4>3. Newest(v, k) = Newest(v, i)
        BY <4>2 DEF Newest
      <4>4. k \in DOMAIN v /\ k \notin Copies(v) /\ k \notin Older(v)
        BY <2>5, <4>1, <4>3 DEF Older, Comparable
      <4>5. i \in DOMAIN v /\ i \notin Copies(v) /\ i \notin Older(v)
        BY <1>2, <2>1
      <4>6. ASSUME k \in DOMAIN LastSave(v) PROVE FALSE
        <5>1. k \in DOMAIN NextSave(v) /\ Ends(v)[k] \notin DOMAIN NextSave(v)
          BY <4>6, LastSaveIs
        <5>2. k \in Files(v) /\ i \in Files(v)
          BY <4>1, <4>4, <4>5, <5>1 DEF NextSave, Files
        <5>3. SavesOf(v, k) = SavesOf(v, i)
          BY <4>1, <5>2 DEF SavesOf
        <5>4. i \in DOMAIN NextSave(v) /\ NextSave(v)[i] = NextSave(v)[k]
          BY <5>1, <5>2, <5>3 DEF NextSave
        <5>5. Ends(v)[i] = Ends(v)[k]
          BY <5>1, <5>4, SameEnd
        <5> QED BY <1>2, <2>1, <5>1, <5>4, <5>5, LastSaveIs
      <4> QED BY <4>4, <4>6, PlanIs
    <3>2. Versions(w, i) = Versions(v, i)
      BY <2>2, <3>1
    <3>3. Newest(w, i) = Newest(v, i)
      BY <1>1, <2>2, <3>1, <3>2 DEF Newest
    <3> QED BY <2>1, <2>5, <3>3
  <2> QED BY <2>4, <2>5
<1> QED BY <1>3, <1>5

\* And no file whose saves have an end.
LEMMA PassSettles ==
  ASSUME IsFiniteSet(DOMAIN items), DOMAIN items \in SUBSET Nat
  PROVE  OnePassSettles
<1> DEFINE v == items
           R == DOMAIN v \ DOMAIN Plan(v)
           w == Restrict(v, R)
           endless == DOMAIN NextSave(v) \ DOMAIN LastSave(v)
<1>0. OnePassSettles <=> DOMAIN Plan(w) = {}
  BY DEF OnePassSettles
<1>1. DOMAIN w = R /\ \A i \in R : w[i] = v[i]
  BY DEF Restrict
<1>2. IsFiniteSet(DOMAIN w) /\ DOMAIN w \in SUBSET Nat
  BY <1>1, FS_Subset
<1>3. Copies(w) = {} /\ Older(w) = {}
  BY NoneToRemove
<1>4. Files(w) = {i \in R : ~ v[i].folder}
  BY <1>1, <1>3 DEF Files
<1>5. \A i \in DOMAIN v : i \in R <=> i \notin Copies(v) /\ i \notin Older(v) /\ i \notin DOMAIN LastSave(v)
  BY PlanIs
<1>6. Files(w) \subseteq Files(v)
  BY <1>4, <1>5 DEF Files
<1>7. endless \subseteq Files(w)
  BY <1>4, <1>5 DEF NextSave, Files
<1> HIDE DEF w
<1>8. ASSUME NEW i \in Files(w) PROVE SavesOf(w, i) \subseteq SavesOf(v, i)
  BY <1>1, <1>4, <1>6 DEF SavesOf
<1>9. DOMAIN NextSave(w) \subseteq endless
  <2> SUFFICES ASSUME NEW i \in DOMAIN NextSave(w) PROVE i \in endless
    OBVIOUS
  <2>1. i \in Files(w) /\ SavesOf(w, i) # {}
    BY DEF NextSave
  <2>2. i \in Files(v) /\ SavesOf(v, i) # {} /\ i \in R
    BY <1>4, <1>6, <1>8, <2>1
  <2> QED BY <1>5, <2>2 DEF NextSave
<1>10. ASSUME NEW i \in endless
       PROVE  i \in DOMAIN NextSave(w) /\ NextSave(w)[i] \in endless
  <2> DEFINE n == NextSave(v)[i]
  <2>1. n \in endless
    BY EndlessGoesOn
  <2>2. n \in SavesOf(v, i) /\ (\A m \in SavesOf(v, i) : n <= m) /\ n # i
        /\ v[i].ref # None /\ v[n].from = v[i].ref
    BY NextIs
  <2> HIDE DEF n
  <2>3. i \in Files(w) /\ n \in Files(w) /\ i \in R /\ n \in R
    BY <1>4, <1>7, <2>1
  <2>4. n \in SavesOf(w, i) /\ SavesOf(w, i) \subseteq SavesOf(v, i) /\ SavesOf(v, i) \in SUBSET Nat
    <3>1. n \in SavesOf(w, i)
      BY <1>1, <2>2, <2>3 DEF SavesOf
    <3>2. SavesOf(v, i) \subseteq DOMAIN v
      BY DEF SavesOf, Files
    <3> QED BY <1>8, <2>3, <3>1, <3>2
  <2>5. Min(SavesOf(w, i)) = n
    BY <2>2, <2>4, LeastOfPart
  <2>6. i \in DOMAIN NextSave(w) /\ NextSave(w)[i] = n
    BY <2>3, <2>4, <2>5 DEF NextSave
  <2> QED BY <2>1, <2>6
<1>11. DOMAIN LastSave(w) = {}
  <2> SUFFICES ASSUME NEW i \in DOMAIN LastSave(w) PROVE FALSE
    OBVIOUS
  <2>1. i \in DOMAIN NextSave(w) /\ Ends(w)[i] \notin DOMAIN NextSave(w)
    BY LastSaveIs
  <2>2. i \in endless \cap DOMAIN w
    BY <1>2, <1>9, <2>1, NextIn
  <2>3. \A k \in endless \cap DOMAIN NextSave(w) : NextSave(w)[k] \in endless
    BY <1>10
  <2> HIDE DEF endless
  <2>4. Ends(w)[i] \in endless
    BY <1>2, <2>2, <2>3, WalkKeeps
  <2> QED BY <1>10, <2>1, <2>4
<1>12. DOMAIN Plan(w) = {}
  BY <1>3, <1>11, PlanIs
<1> QED BY <1>0, <1>12

LEMMA ItemsStayFinite ==
  ASSUME HealInv PROVE IsFiniteSet(DOMAIN items) /\ DOMAIN items \in SUBSET Nat
<1>1. IsFiniteSet(DOMAIN first) /\ DOMAIN first \subseteq Nat /\ DOMAIN items \subseteq DOMAIN first
  BY VaultsAssumption DEF HealInv
<1> QED BY <1>1, FS_Subset

\* In whatever is left of a vault, the successors that a plan names lead to a record that
\* the plan leaves alone (plan).
THEOREM PlansLeadOut == Spec => []SuccessorsEnd
<1>1. HealInv => SuccessorsEnd
  BY ItemsStayFinite, ChainsEnd
<1> QED BY <1>1, HealReaches, PTL

\* What a completely executed plan leaves has no leftovers (plan).
THEOREM PassesSettle == Spec => []OnePassSettles
<1>1. HealInv => OnePassSettles
  BY ItemsStayFinite, PassSettles
<1> QED BY <1>1, HealReaches, PTL
=============================================================================
