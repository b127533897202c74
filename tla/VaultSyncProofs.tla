--------------------------- MODULE VaultSyncProofs ---------------------------
(***************************************************************************)
(* Proofs about VaultSync.tla: every variable keeps its type, so that what *)
(* any thread remembers of a record is of a record that was stored once,   *)
(* and a replaced record that the server still has is on its way to be     *)
(* deleted.  Records are only ever added, while the threads go on with     *)
(* what they have read.                                                    *)
(***************************************************************************)
EXTENDS VaultSync, FoldLemmas, SequenceTheorems

\* The types, over the records ever stored.
PageType(R)  == [ids : SUBSET R, read : BOOLEAN, news : SUBSET R]
Leftover(R)  == [succ : R, hidden : BOOLEAN]
SyncType(R)  ==
  [pc : {"idle", "list", "again", "classify", "write", "clean"},
   first : SUBSET Int, left : SUBSET Int, page : Partial(Int, PageType(R)),
   listed : SUBSET R, news : SUBSET R, gone : SUBSET R, fresh : SUBSET R]
HealType(R)  ==
  [pc : {"idle", "begin", "pick", "verify", "delete", "drop", "touch", "group", "hash",
         "purge", "dropcopy", "touchcopy"},
   todo : Partial(R, Leftover(R)), verified : SUBSET R, id : R \cup {None},
   groups : SUBSET SUBSET R, line : Seq(R), read : Seq(R)]
JobType(R)   ==
  [pc : {"idle", "upload", "touch", "insert", "get", "hide", "delete", "drop", "forget"},
   kind : {"none", "save", "rename", "create", "delete"}, old : R \cup {None}, new : R \cup {None}]
WorkType(R)  == [pc : {"off", "next", "call", "touch", "unhide"}, id : R \cup {None}, tries : Nat]
QueueType(R) == Seq([id : R, tries : 0 .. (Attempts - 1)])

\* The server has a record once, and nobody has one that it never had.
StoreOK(R, s) ==
  /\ R \subseteq Ids /\ s \in Seq(R)
  /\ \A m, n \in DOMAIN s : s[m] = s[n] => m = n

\* A thread that speaks of a record has one.
HealOK(R, r) ==
  /\ r \in HealType(R)
  /\ r.pc \in {"verify", "delete", "drop", "touch"} => r.id \in DOMAIN r.todo
  /\ r.pc \in {"purge", "dropcopy", "touchcopy"} => r.line # <<>>
JobOK(R, r)  ==
  /\ r \in JobType(R)
  /\ r.pc # "idle" /\ r.kind # "create" => r.old \in R
  /\ r.pc \in {"hide", "delete", "drop", "forget"} => r.kind # "create"
  /\ r.pc \in {"upload", "touch", "insert", "get", "hide"} => r.kind # "delete"
  /\ r.pc \in {"touch", "insert", "get"} => r.new \in R
WorkOK(R, q, w) ==
  /\ q \in QueueType(R)
  /\ w \in WorkType(R)
  /\ w.pc \in {"call", "touch", "unhide"} => w.id \in R /\ w.tries < Attempts
  /\ w.pc \in {"off", "next"} => w.id = None
BudgetType == [jobs : Nat, moves : Nat, faults : 0 .. MaxFaults, hash : Nat]

Recs == DOMAIN rec
TypeInv ==
  /\ StoreOK(Recs, store)
  /\ index \cup touched \cup hidden \cup keep \cup hashed \cup retired \subseteq Recs
  /\ stale \in Partial(Recs, Leftover(Recs))
  /\ sync \in SyncType(Recs)
  /\ DOMAIN heal = Healers /\ \A h \in Healers : HealOK(Recs, heal[h])
  /\ DOMAIN job = Jobs /\ \A j \in Jobs : JobOK(Recs, job[j])
  /\ WorkOK(Recs, queue, worker)
  /\ budget \in BudgetType

\* The calls that have failed.
Failed == MaxFaults - budget.faults

\* No delete has been tried more often than calls have failed.
Tried ==
  /\ \A n \in DOMAIN queue : queue[n].tries <= Failed
  /\ worker.pc = "call" => worker.tries <= Failed

\* What the worker has deleted does not come back.
Deleted == worker.pc \in {"touch", "unhide"} => worker.id \notin Stored

\* Who is going to delete a replaced record.
Queued(i)    == \E n \in DOMAIN queue : queue[n].id = i
IsReplacing(r) == r.pc \in {"drop", "forget"} /\ r.kind # "delete"
Replacing(i) == \E j \in Jobs : job[j].old = i /\ IsReplacing(job[j])
OnItsWay ==
  \A i \in hidden \cap Stored :
    Queued(i) \/ worker.id = i \/ Replacing(i) \/ Failed >= Attempts

DeletesOK == Tried /\ Deleted /\ OnItsWay

------------------------------------------------------------------------------
(* What heal.rs plans. *)

LEMMA LastSaveType ==
  ASSUME NEW items, DOMAIN items \in SUBSET Nat, IsFiniteSet(DOMAIN items)
  PROVE  /\ DOMAIN LastSave(items) \subseteq DOMAIN items
         /\ \A i \in DOMAIN LastSave(items) : LastSave(items)[i] \in DOMAIN items
<1> DEFINE D == DOMAIN items
           c == Cardinality(D)
           next == NextSave(items)
           walk == CHOOSE f : f = [n \in 0 .. c |->
                     [i \in D |-> IF n = 0 \/ i \notin DOMAIN next THEN i ELSE f[n - 1][next[i]]]]
<1>1. c \in Nat
  BY FS_CardinalityType
<1>2. DOMAIN next \subseteq D
  BY DEF NextSave, Files
<1>3. ASSUME NEW i \in DOMAIN next PROVE next[i] \in D
  <2>1. SavesOf(items, i) # {} /\ SavesOf(items, i) \subseteq D /\ next[i] = Min(SavesOf(items, i))
    BY DEF NextSave, SavesOf, Files
  <2> QED BY <2>1, LeastMember
<1>4. LastSave(items) = [i \in {j \in DOMAIN next : walk[c][j] \notin DOMAIN next} |-> walk[c][i]]
  BY DEF LastSave
<1> HIDE DEF next
<1>5. \A i \in D : walk[c][i] \in D
  <2>1. walk = Walk(c, D, next)
    BY DEF Walk
  <2> HIDE DEF D, c, walk
  <2>2. c \in Nat /\ DOMAIN next \subseteq D /\ \A i \in DOMAIN next : next[i] \in D
    BY <1>1, <1>2, <1>3
  <2>3. IsWalk(Walk(c, D, next), c, D, next)
    BY <2>2, WalkIs
  <2>4. c \in 0 .. c
    BY <2>2
  <2> QED BY <2>1, <2>3, <2>4 DEF IsWalk
<1> HIDE DEF walk, D, c
<1> QED BY <1>2, <1>4, <1>5 DEF D

\* A plan is about the items that it is given.
LEMMA PlanType ==
  ASSUME NEW items, DOMAIN items \in SUBSET Nat, IsFiniteSet(DOMAIN items)
  PROVE  /\ DOMAIN Plan(items) \subseteq DOMAIN items
         /\ \A i \in DOMAIN Plan(items) :
              Plan(items)[i].succ \in DOMAIN items /\ Plan(items)[i].identical \in BOOLEAN
<1> DEFINE D == DOMAIN items
           last == LastSave(items)
           older == Older(items)
           P == Copies(items) \cup older \cup DOMAIN last
<1>1. Copies(items) \subseteq D /\ older \subseteq D /\ DOMAIN last \subseteq D
  BY LastSaveType DEF Copies, Older, Comparable
<1>2. Plan(items) = [i \in P |->
         IF i \in Copies(items)
         THEN [succ |-> Keeper(items, i), identical |-> TRUE]
         ELSE IF i \in older
         THEN [succ |-> CHOOSE j \in Newest(items, i) : TRUE, identical |-> FALSE]
         ELSE [succ |-> last[i], identical |-> FALSE]]
  BY DEF Plan
<1>3. ASSUME NEW i \in Copies(items) PROVE Keeper(items, i) \in D
  <2>1. i \in {j \in D : items[j].print = items[i].print}
    BY <1>1
  <2>2. Min({j \in D : items[j].print = items[i].print}) \in {j \in D : items[j].print = items[i].print}
    <3> DEFINE S == {j \in D : items[j].print = items[i].print}
    <3>1. S \in SUBSET Nat /\ S # {}
      BY <2>1
    <3> HIDE DEF S
    <3> QED BY <3>1, LeastMember DEF S
  <2> QED BY <2>2 DEF Keeper
<1>4. ASSUME NEW i \in older PROVE (CHOOSE j \in Newest(items, i) : TRUE) \in D
  <2>1. Cardinality(Newest(items, i)) = 1
    BY DEF Older
  <2>2. Newest(items, i) # {}
    <3>1. Cardinality({}) = 0
      BY FS_EmptySet
    <3> QED BY <2>1, <3>1
  <2>3. Newest(items, i) \subseteq D
    BY DEF Newest, Versions, Comparable
  <2> QED BY <2>2, <2>3
<1>5. \A i \in DOMAIN last : last[i] \in D
  BY LastSaveType
<1> HIDE DEF last, older
<1>6. DOMAIN Plan(items) = P
  BY <1>2
<1>7. ASSUME NEW i \in P
      PROVE  Plan(items)[i].succ \in D /\ Plan(items)[i].identical \in BOOLEAN
  <2>1. CASE i \in Copies(items)
    <3>1. Plan(items)[i] = [succ |-> Keeper(items, i), identical |-> TRUE]
      BY <1>2, <2>1
    <3> QED BY <1>3, <2>1, <3>1
  <2>2. CASE i \notin Copies(items) /\ i \in older
    <3>1. Plan(items)[i] = [succ |-> CHOOSE j \in Newest(items, i) : TRUE, identical |-> FALSE]
      BY <1>2, <2>2
    <3> QED BY <1>4, <2>2, <3>1
  <2>3. CASE i \notin Copies(items) /\ i \notin older
    <3>1. Plan(items)[i] = [succ |-> last[i], identical |-> FALSE] /\ i \in DOMAIN last
      BY <1>2, <2>3
    <3> QED BY <1>5, <3>1
  <2> QED BY <2>1, <2>2, <2>3
<1> HIDE DEF P
<1>8. P \subseteq D
  BY <1>1 DEF P
<1> QED BY <1>6, <1>7, <1>8

-----------------------------------------------------------------------------
(* Sequences and partial functions. *)

LEMMA PartialIs ==
  ASSUME NEW S, NEW T, NEW f
  PROVE  f \in Partial(S, T) <=> DOMAIN f \subseteq S /\ f \in [DOMAIN f -> T]
<1>1. ASSUME f \in Partial(S, T) PROVE DOMAIN f \subseteq S /\ f \in [DOMAIN f -> T]
  <2>1. PICK D \in SUBSET S : f \in [D -> T]
    BY <1>1 DEF Partial
  <2>2. DOMAIN f = D
    BY <2>1
  <2> QED BY <2>1, <2>2
<1>2. ASSUME DOMAIN f \subseteq S, f \in [DOMAIN f -> T] PROVE f \in Partial(S, T)
  BY <1>2 DEF Partial
<1> QED BY <1>1, <1>2

LEMMA PartialLess ==
  ASSUME NEW S, NEW T, NEW f \in Partial(S, T), NEW D, D \subseteq DOMAIN f
  PROVE  Restrict(f, D) \in Partial(S, T) /\ DOMAIN Restrict(f, D) = D
<1>1. DOMAIN f \subseteq S /\ f \in [DOMAIN f -> T]
  BY PartialIs
<1>2. DOMAIN Restrict(f, D) = D /\ Restrict(f, D) \in [D -> T]
  BY <1>1 DEF Restrict
<1>3. D \subseteq S
  BY <1>1
<1> HIDE DEF Restrict
<1> QED BY <1>2, <1>3, PartialIs

LEMMA PartialGrows ==
  ASSUME NEW S, NEW T, NEW U, NEW V, S \subseteq U, T \subseteq V
  PROVE  Partial(S, T) \subseteq Partial(U, V)
<1> SUFFICES ASSUME NEW f \in Partial(S, T) PROVE f \in Partial(U, V)
  OBVIOUS
<1>1. DOMAIN f \subseteq S /\ f \in [DOMAIN f -> T]
  BY PartialIs
<1>2. DOMAIN f \subseteq U /\ f \in [DOMAIN f -> V]
  BY <1>1
<1> QED BY <1>2, PartialIs

LEMMA NothingPartial ==
  ASSUME NEW S, NEW T
  PROVE  NoPages \in Partial(S, T)
<1>1. DOMAIN NoPages = {} /\ NoPages \in [{} -> T]
  BY DEF NoPages
<1> QED BY <1>1, PartialIs

\* What a sequence of different things has without one of them.
LEMMA RemoveType ==
  ASSUME NEW R, NEW s \in Seq(R), \A m, n \in DOMAIN s : s[m] = s[n] => m = n, NEW i
  PROVE  /\ RemoveFirst(s, i) \in Seq(R)
         /\ \A m, n \in DOMAIN RemoveFirst(s, i) : RemoveFirst(s, i)[m] = RemoveFirst(s, i)[n] => m = n
         /\ ToSet(RemoveFirst(s, i)) = ToSet(s) \ {i}
<1>0. Len(s) \in Nat /\ DOMAIN s = 1 .. Len(s) /\ \A n \in 1 .. Len(s) : s[n] \in R
  BY LenProperties
<1>1. CASE ~ \E n \in 1 .. Len(s) : s[n] = i
  <2>1. RemoveFirst(s, i) = s
    BY <1>1 DEF RemoveFirst
  <2>2. i \notin ToSet(s)
    BY <1>0, <1>1 DEF ToSet
  <2> QED BY <2>1, <2>2
<1>2. CASE \E n \in 1 .. Len(s) : s[n] = i
  <2> DEFINE I == {n \in 1 .. Len(s) : s[n] = i}
             k == Min(I)
             a == SubSeq(s, 1, k - 1)
             b == SubSeq(s, k + 1, Len(s))
             t == RemoveFirst(s, i)
  <2>1. k \in I
    <3>1. I \in SUBSET Nat /\ I # {}
      BY <1>2
    <3> HIDE DEF I
    <3> QED BY <3>1, LeastMember
  <2>2. t = a \o b
    <3>1. SelectInSeq(s, LAMBDA v : v = i) = k
      BY <1>2 DEF SelectInSeq
    <3> QED BY <1>2, <3>1 DEF RemoveFirst, RemoveAt
  <2> HIDE DEF I, k, t
  <2>3. k \in 1 .. Len(s) /\ s[k] = i
    BY <2>1 DEF I
  <2>4. /\ a \in Seq(R) /\ Len(a) = k - 1
        /\ \A n \in 1 .. k - 1 : a[n] = s[n]
    BY <1>0, <2>3, SubSeqProperties
  <2>5. /\ b \in Seq(R) /\ Len(b) = Len(s) - k
        /\ \A n \in 1 .. Len(s) - k : b[n] = s[k + n]
    <3>1. k + 1 \in Int /\ Len(s) \in Int /\ \A n \in k + 1 .. Len(s) : s[n] \in R
      BY <1>0, <2>3
    <3>2. /\ b \in Seq(R) /\ Len(b) = IF k + 1 <= Len(s) THEN Len(s) - (k + 1) + 1 ELSE 0
          /\ \A n \in 1 .. Len(s) - (k + 1) + 1 : b[n] = s[(k + 1) + n - 1]
      BY <3>1, SubSeqProperties
    <3> HIDE DEF b
    <3>4. Len(b) = Len(s) - k
      <4>1. Len(s) \in Nat /\ k \in Nat /\ k <= Len(s) /\ (k + 1 <= Len(s) \/ k = Len(s))
        <5>1. \A l \in Nat : \A p \in 1 .. l : p \in Nat /\ p <= l /\ (p + 1 <= l \/ p = l)
          OBVIOUS
        <5> QED BY <1>0, <2>3, <5>1
      <4>2. CASE k + 1 <= Len(s)
        <5>1. Len(b) = Len(s) - (k + 1) + 1
          BY <3>2, <4>2
        <5> QED BY <4>1, <5>1
      <4>3. CASE k = Len(s)
        <5>1. ~(k + 1 <= Len(s)) /\ Len(s) - k = 0
          BY <4>1, <4>3
        <5> QED BY <3>2, <5>1
      <4> QED BY <4>1, <4>2, <4>3
    <3>5. ASSUME NEW n \in 1 .. Len(s) - k PROVE b[n] = s[k + n]
      <4>1. n \in 1 .. Len(s) - (k + 1) + 1 /\ (k + 1) + n - 1 = k + n
        BY <1>0, <2>3
      <4>2. b[n] = s[(k + 1) + n - 1]
        BY <3>2, <4>1
      <4> QED BY <4>1, <4>2
    <3> QED BY <3>2, <3>4, <3>5
  <2> HIDE DEF a, b
  <2>6. /\ t \in Seq(R) /\ Len(t) = Len(s) - 1
        /\ \A n \in 1 .. Len(s) - 1 : t[n] = IF n <= k - 1 THEN a[n] ELSE b[n - (k - 1)]
    <3>1. Len(a) + Len(b) = Len(s) - 1 /\ Len(a) = k - 1
      BY <1>0, <2>3, <2>4, <2>5
    <3>2. /\ t \in Seq(R) /\ Len(t) = Len(a) + Len(b)
          /\ \A n \in 1 .. Len(a) + Len(b) : t[n] = IF n <= Len(a) THEN a[n] ELSE b[n - Len(a)]
      BY <2>2, <2>4, <2>5, ConcatProperties, ZenonT(40)
    <3>3. ASSUME NEW n \in 1 .. Len(s) - 1
          PROVE  t[n] = IF n <= k - 1 THEN a[n] ELSE b[n - (k - 1)]
      <4>1. n \in 1 .. Len(a) + Len(b)
        BY <3>1
      <4>2. t[n] = IF n <= Len(a) THEN a[n] ELSE b[n - Len(a)]
        BY <3>2, <4>1
      <4> QED BY <3>1, <4>2
    <3>4. Len(t) = Len(s) - 1
      BY <3>1, <3>2
    <3> QED BY <3>2, <3>3, <3>4
  <2>7. \A n \in 1 .. Len(s) - 1 : t[n] = IF n < k THEN s[n] ELSE s[n + 1]
    <3> SUFFICES ASSUME NEW n \in 1 .. Len(s) - 1 PROVE t[n] = IF n < k THEN s[n] ELSE s[n + 1]
      OBVIOUS
    <3>1. CASE n < k
      <4>1. n \in 1 .. k - 1 /\ n <= k - 1
        BY <1>0, <2>3, <3>1
      <4> QED BY <2>4, <2>6, <3>1, <4>1
    <3>2. CASE ~(n < k)
      <4>1. n - (k - 1) \in 1 .. Len(s) - k /\ ~(n <= k - 1) /\ k + (n - (k - 1)) = n + 1
        BY <1>0, <2>3, <3>2
      <4> QED BY <2>5, <2>6, <3>2, <4>1
    <3> QED BY <3>1, <3>2
  <2>8. DOMAIN t = 1 .. Len(s) - 1
    BY <2>6, LenProperties
  <2>9. \A n \in DOMAIN t : \E m \in DOMAIN s : /\ m = (IF n < k THEN n ELSE n + 1)
                                                /\ t[n] = s[m] /\ m # k
    BY <1>0, <2>3, <2>7, <2>8
  <2>10. \A m, n \in DOMAIN t : t[m] = t[n] => m = n
    BY <1>0, <2>3, <2>8, <2>9
  <2>11. \A n \in DOMAIN t : t[n] \in ToSet(s) /\ t[n] # i
    BY <1>0, <2>3, <2>9 DEF ToSet
  <2>12. ASSUME NEW m \in DOMAIN s, s[m] # i PROVE \E n \in DOMAIN t : t[n] = s[m]
    <3>1. CASE m < k
      BY <1>0, <2>3, <2>7, <2>8, <3>1
    <3>2. CASE ~(m < k)
      <4>1. m # k /\ m - 1 \in 1 .. Len(s) - 1 /\ ~(m - 1 < k) /\ (m - 1) + 1 = m
        BY <1>0, <2>3, <2>12, <3>2
      <4> QED BY <2>7, <2>8, <4>1
    <3> QED BY <3>1, <3>2
  <2>13. ToSet(t) = ToSet(s) \ {i}
    BY <2>11, <2>12 DEF ToSet
  <2> QED BY <2>6, <2>10, <2>13 DEF t
<1> QED BY <1>1, <1>2

-----------------------------------------------------------------------------
(* The types. *)

\* Records come and nothing else changes of what a thread has.
LEMMA TypesGrow ==
  ASSUME NEW R, NEW S, R \subseteq S
  PROVE  /\ Partial(R, Leftover(R)) \subseteq Partial(S, Leftover(S))
         /\ SyncType(R) \subseteq SyncType(S)
         /\ \A r : HealOK(R, r) => HealOK(S, r)
         /\ \A r : JobOK(R, r) => JobOK(S, r)
         /\ \A q, w : WorkOK(R, q, w) => WorkOK(S, q, w)
<1>1. Partial(R, Leftover(R)) \subseteq Partial(S, Leftover(S))
  <2>1. Leftover(R) \subseteq Leftover(S)
    BY DEF Leftover
  <2> QED BY <2>1, PartialGrows
<1>2. Partial(Int, PageType(R)) \subseteq Partial(Int, PageType(S))
  <2>1. PageType(R) \subseteq PageType(S)
    BY DEF PageType
  <2> QED BY <2>1, PartialGrows
<1>3. SyncType(R) \subseteq SyncType(S)
  BY <1>2 DEF SyncType
<1>4. Seq(R) \subseteq Seq(S)
  BY SeqMonotonic
<1>5. ASSUME NEW r, HealOK(R, r) PROVE HealOK(S, r)
  <2>1. HealType(R) \subseteq HealType(S)
    BY <1>1, <1>4 DEF HealType
  <2> QED BY <1>5, <2>1 DEF HealOK
<1>6. ASSUME NEW r, JobOK(R, r) PROVE JobOK(S, r)
  BY <1>6 DEF JobOK, JobType
<1>7. ASSUME NEW q, NEW w, WorkOK(R, q, w) PROVE WorkOK(S, q, w)
  <2>1. QueueType(R) \subseteq QueueType(S)
    <3>1. [id : R, tries : 0 .. (Attempts - 1)] \subseteq [id : S, tries : 0 .. (Attempts - 1)]
      OBVIOUS
    <3> QED BY <3>1, SeqMonotonic DEF QueueType
  <2> QED BY <1>7, <2>1 DEF WorkOK, WorkType
<1> QED BY <1>1, <1>3, <1>5, <1>6, <1>7

\* A record is stored: everybody keeps what he has.
LEMMA UploadTypes ==
  ASSUME TypeInv, NEW i \in Unused, NEW r, Upload(i, r),
         UNCHANGED <<index, journal, leftover, deletes, sync, heal, retired>>,
         DOMAIN job' = Jobs, \A j \in Jobs : JobOK(Recs', job'[j]), budget' \in BudgetType
  PROVE  TypeInv'
<1>1. Recs' = Recs \cup {i} /\ i \in Ids /\ i \notin Recs
  BY DEF Upload, Unused, Recs
<1>2. StoreOK(Recs', store')
  <2>1. store \in Seq(Recs') /\ <<i>> \in Seq(Recs') /\ Recs' \subseteq Ids
    BY <1>1, SeqMonotonic DEF TypeInv, StoreOK
  <2>2. Len(<<i>>) = 1 /\ <<i>>[1] = i
    OBVIOUS
  <2> DEFINE s == <<i>> \o store
  <2>3. /\ s \in Seq(Recs') /\ Len(s) = 1 + Len(store)
        /\ \A n \in 1 .. 1 + Len(store) : s[n] = IF n <= 1 THEN i ELSE store[n - 1]
    <3>1. /\ s \in Seq(Recs') /\ Len(s) = Len(<<i>>) + Len(store)
          /\ \A n \in 1 .. Len(<<i>>) + Len(store) :
               s[n] = IF n <= Len(<<i>>) THEN <<i>>[n] ELSE store[n - Len(<<i>>)]
      BY <2>1, ConcatProperties
    <3> HIDE DEF s
    <3> QED BY <2>2, <3>1
  <2>4. /\ Len(store) \in Nat /\ DOMAIN store = 1 .. Len(store)
        /\ \A n \in DOMAIN store : store[n] \in Recs
    BY LenProperties DEF TypeInv, StoreOK
  <2>5. DOMAIN s = 1 .. 1 + Len(store)
    <3> HIDE DEF s
    <3> QED BY <2>3, LenProperties
  <2> HIDE DEF s
  <2>6. ASSUME NEW m \in DOMAIN s, NEW n \in DOMAIN s, s[m] = s[n] PROVE m = n
    <3>1. m \in Nat /\ n \in Nat /\ m >= 1 /\ n >= 1
      BY <2>4, <2>5
    <3>2. \A k \in DOMAIN s : k # 1 => k - 1 \in DOMAIN store /\ s[k] = store[k - 1] /\ s[k] # i
      BY <1>1, <2>3, <2>4, <2>5
    <3>3. s[1] = i
      BY <2>3, <2>4
    <3>4. (m = 1) = (n = 1)
      BY <2>6, <3>2, <3>3
    <3>5. m # 1 /\ n # 1 => m - 1 = n - 1
      BY <2>6, <3>2 DEF TypeInv, StoreOK
    <3> QED BY <3>1, <3>4, <3>5
  <2>7. store' = s
    BY DEF s, Upload
  <2> QED BY <2>1, <2>3, <2>6, <2>7 DEF StoreOK
<1>3. /\ Partial(Recs, Leftover(Recs)) \subseteq Partial(Recs', Leftover(Recs'))
      /\ SyncType(Recs) \subseteq SyncType(Recs')
      /\ \A q : HealOK(Recs, q) => HealOK(Recs', q)
      /\ \A q, w : WorkOK(Recs, q, w) => WorkOK(Recs', q, w)
  BY <1>1, TypesGrow
<1> QED BY <1>1, <1>2, <1>3 DEF TypeInv, journal, leftover, deletes

\* A delete takes one record, or none when it fails.
LEMMA DeleteTypes ==
  ASSUME TypeInv, NEW i, DeleteAnswered(i) \/ DeleteFailed(i)
  PROVE  /\ Recs' = Recs /\ StoreOK(Recs, store')
         /\ budget' \in BudgetType /\ store' \in {store, Without(i)}
<1>1. StoreOK(Recs, Without(i))
  BY RemoveType DEF TypeInv, StoreOK, Without
<1> QED
  BY <1>1, SyncAssumption DEF TypeInv, DeleteAnswered, DeleteFailed, Recs, BudgetType

LEMMA StoredKnown == TypeInv => Stored \subseteq Recs
  BY LenProperties DEF TypeInv, StoreOK, Stored, ToSet

LEMMA NoSyncType == ASSUME NEW R PROVE NoSync \in SyncType(R)
  BY NothingPartial DEF NoSync, SyncType

LEMMA NoHealOK == ASSUME NEW R PROVE NoHeal \in HealType(R)
  BY NothingPartial, EmptySeq DEF NoHeal, HealType

LEMMA StartSyncTypes == ASSUME TypeInv, StartSync PROVE TypeInv'
<1>1. sync' \in SyncType(Recs)
  <2>1. FirstPages \in SUBSET Int
    BY DEF FirstPages, Pages
  <2> QED BY <2>1, NoSyncType, NothingPartial DEF StartSync, SyncType, NoSync
<1> QED BY <1>1 DEF TypeInv, StartSync, server, leftover, deletes, Recs

\* A page has records that are stored.
LEMMA PageKnown ==
  ASSUME TypeInv, NEW p \in Nat
  PROVE  ToSet(PageOf(p)) \subseteq Recs
<1> DEFINE a == p * PageSize
           e == (p + 1) * PageSize
           b == Min({Len(store), e})
<1>1. Len(store) \in Nat /\ \A n \in 1 .. Len(store) : store[n] \in Recs
  BY LenProperties DEF TypeInv, StoreOK
<1>2. a \in Nat /\ e \in Nat
  BY SyncAssumption
<1> HIDE DEF a, e
<1>3. b \in Nat /\ b <= Len(store)
  <2>1. {Len(store), e} \in SUBSET Nat
    BY <1>1, <1>2
  <2> QED BY <2>1, LeastMember
<1> HIDE DEF b
<1>4. \A n \in a + 1 .. b : store[n] \in Recs
  BY <1>1, <1>2, <1>3
<1>5. SubSeq(store, a + 1, b) \in Seq(Recs)
  BY <1>2, <1>3, <1>4, SubSeqProperties
<1>6. PageOf(p) = SubSeq(store, a + 1, b)
  BY DEF a, b, e, PageOf
<1> QED BY <1>5, <1>6, LenProperties DEF ToSet

LEMMA AnswerPageTypes == ASSUME TypeInv, NEW p \in 0 .. Cardinality(Ids), AnswerPage(p) PROVE TypeInv'
<1>1. ToSet(PageOf(p)) \subseteq Recs
  <2>1. Cardinality(Ids) \in Nat
    BY SyncAssumption, FS_CardinalityType
  <2>2. p \in Nat
    BY <2>1
  <2> QED BY <2>2, PageKnown
<1>2. sync' \in SyncType(Recs)
  <2> DEFINE page == [q \in DOMAIN sync.page \cup {p} |->
                       IF q = p THEN [ids |-> ToSet(PageOf(p)), read |-> FALSE, news |-> {}]
                       ELSE sync.page[q]]
  <2>1. DOMAIN sync.page \subseteq Int /\ sync.page \in [DOMAIN sync.page -> PageType(Recs)]
    BY PartialIs DEF TypeInv, SyncType
  <2>2. [ids |-> ToSet(PageOf(p)), read |-> FALSE, news |-> {}] \in PageType(Recs)
    BY <1>1 DEF PageType
  <2>3. DOMAIN page \subseteq Int /\ page \in [DOMAIN page -> PageType(Recs)]
    BY <2>1, <2>2
  <2>4. page \in Partial(Int, PageType(Recs))
    <3> HIDE DEF page
    <3> QED BY <2>3, PartialIs
  <2>5. sync' = [sync EXCEPT !.left = @ \ {p}, !.page = page]
    BY DEF AnswerPage
  <2> HIDE DEF page
  <2> QED BY <2>4, <2>5 DEF TypeInv, SyncType
<1> QED BY <1>2 DEF TypeInv, AnswerPage, server, journal, leftover, deletes, Recs

LEMMA ReadPageTypes == ASSUME TypeInv, NEW p, ReadPage(p) PROVE TypeInv'
<1>1. sync' \in SyncType(Recs)
  <2> DEFINE page == [sync.page EXCEPT ![p].read = TRUE, ![p].news = sync.page[p].ids \ index]
  <2>1. DOMAIN sync.page \subseteq Int /\ sync.page \in [DOMAIN sync.page -> PageType(Recs)]
    BY PartialIs DEF TypeInv, SyncType
  <2>2. DOMAIN page \subseteq Int /\ page \in [DOMAIN page -> PageType(Recs)]
    BY <2>1 DEF ReadPage, PageType
  <2>3. page \in Partial(Int, PageType(Recs))
    <3> HIDE DEF page
    <3> QED BY <2>2, PartialIs
  <2>4. sync' = [sync EXCEPT !.page = page]
    BY DEF ReadPage, TypeInv, SyncType
  <2> HIDE DEF page
  <2> QED BY <2>3, <2>4 DEF TypeInv, SyncType
<1> QED BY <1>1 DEF TypeInv, ReadPage, server, journal, leftover, deletes, Recs

LEMMA FailPageTypes == ASSUME TypeInv, FailPage PROVE TypeInv'
  BY NoSyncType, SyncAssumption
  DEF TypeInv, FailPage, server, leftover, deletes, Recs, BudgetType

LEMMA MorePagesTypes == ASSUME TypeInv, MorePages PROVE TypeInv'
<1>1. NextPages \in SUBSET Int
  BY DEF NextPages, Pages
<1>2. sync' \in SyncType(Recs)
  BY <1>1 DEF MorePages, TypeInv, SyncType
<1> QED BY <1>2 DEF TypeInv, MorePages, server, journal, leftover, deletes, Recs

\* A listing is of records.
LEMMA ListedKnown == TypeInv => ListedOn(sync.page) \subseteq Recs /\ News(sync.page) \subseteq Recs
<1> SUFFICES ASSUME TypeInv PROVE ListedOn(sync.page) \subseteq Recs /\ News(sync.page) \subseteq Recs
  OBVIOUS
<1>1. sync.page \in [DOMAIN sync.page -> PageType(Recs)]
  BY PartialIs DEF TypeInv, SyncType
<1>2. ListedOn(sync.page) \subseteq Recs
  BY <1>1 DEF ListedOn, PageType
<1> QED BY <1>2 DEF News

LEMMA CompareIndexTypes == ASSUME TypeInv, CompareIndex PROVE TypeInv'
<1>1. sync' \in SyncType(Recs)
  <2>1. ListedOn(sync.page) \subseteq Recs /\ News(sync.page) \subseteq Recs
    BY ListedKnown
  <2>2. (index \ ListedOn(sync.page)) \ touched \subseteq Recs /\ sync.first \in SUBSET Int
    BY DEF TypeInv, SyncType
  <2> QED BY <2>1, <2>2, NoSyncType, NothingPartial DEF CompareIndex, SyncType, NoSync
<1> QED BY <1>1 DEF TypeInv, CompareIndex, server, journal, leftover, deletes, Recs

LEMMA ConfirmGoneTypes == ASSUME TypeInv, ConfirmGone PROVE TypeInv'
<1>1. sync' \in SyncType(Recs)
  <2>1. ListedOn(sync.page) \subseteq Recs /\ News(sync.page) \subseteq Recs
    BY ListedKnown
  <2> QED BY <2>1, NothingPartial DEF ConfirmGone, TypeInv, SyncType
<1> QED BY <1>1 DEF TypeInv, ConfirmGone, server, journal, leftover, deletes, Recs

LEMMA ClassifyTypes == ASSUME TypeInv, Classify PROVE TypeInv'
<1>1. stale' \in Partial(Recs, Leftover(Recs))
  BY PartialLess DEF TypeInv, Classify
<1>2. sync' \in SyncType(Recs)
  <2>1. \A c \in {"clean", "idle"} : [NoSync EXCEPT !.pc = c] \in SyncType(Recs)
    BY NothingPartial DEF NoSync, SyncType
  <2>2. Cleaning \in {"clean", "idle"}
    BY DEF Cleaning
  <2>3. ASSUME NEW fresh, fresh \subseteq Recs
        PROVE  [sync EXCEPT !.pc = "write", !.fresh = fresh] \in SyncType(Recs)
    BY <2>3 DEF TypeInv, SyncType
  <2>4. \A X : ((sync.listed \cap sync.news) \ index) \ X \subseteq Recs
    BY DEF TypeInv, SyncType
  <2> QED BY <2>1, <2>2, <2>3, <2>4 DEF Classify
<1>3. DOMAIN heal' = Healers /\ \A h \in Healers : HealOK(Recs, heal'[h])
  <2>1. HealOK(Recs, [NoHeal EXCEPT !.pc = "begin"])
    BY NothingPartial, EmptySeq DEF HealOK, HealType, NoHeal
  <2>2. heal' \in {heal, [heal EXCEPT !["round"] = [NoHeal EXCEPT !.pc = "begin"]]}
    BY DEF Classify
  <2> QED BY <2>1, <2>2 DEF TypeInv
<1>4. keep' \subseteq keep /\ touched' \subseteq touched
  BY DEF Classify
<1> QED BY <1>1, <1>2, <1>3, <1>4 DEF TypeInv, Classify, server, deletes, Recs

\* What heal.rs makes of an index.
LEMMA ApplyHealTypes ==
  ASSUME TypeInv, NEW shown, shown \subseteq Recs, ApplyHeal(shown)
  PROVE  index' \subseteq Recs /\ stale' \in Partial(Recs, Leftover(Recs))
<1> DEFINE items == [i \in shown \ keep |-> rec[i]]
<1>1. PICK plan : /\ plan = Plan(items)
                  /\ index' = shown \ {i \in DOMAIN plan \ DOMAIN stale : plan[i].identical}
                  /\ stale' = [i \in DOMAIN stale \cup (DOMAIN plan \ DOMAIN stale) |->
                       IF i \in DOMAIN plan \ DOMAIN stale
                       THEN [succ |-> plan[i].succ, hidden |-> plan[i].identical] ELSE stale[i]]
  BY DEF ApplyHeal
<1>2. DOMAIN items \in SUBSET Nat /\ IsFiniteSet(DOMAIN items) /\ DOMAIN items \subseteq Recs
  BY SyncAssumption, FS_Subset DEF TypeInv, StoreOK
<1> HIDE DEF items
<1>3. /\ DOMAIN plan \subseteq Recs
      /\ \A i \in DOMAIN plan : plan[i].succ \in Recs /\ plan[i].identical \in BOOLEAN
  BY <1>1, <1>2, PlanType
<1>4. DOMAIN stale \subseteq Recs /\ stale \in [DOMAIN stale -> Leftover(Recs)]
  BY PartialIs DEF TypeInv
<1>5. DOMAIN stale' \subseteq Recs /\ stale' \in [DOMAIN stale' -> Leftover(Recs)]
  BY <1>1, <1>3, <1>4 DEF Leftover
<1> QED BY <1>1, <1>5, PartialIs

LEMMA WriteIndexTypes == ASSUME TypeInv, WriteIndex PROVE TypeInv'
<1>1. index' \subseteq Recs /\ stale' \in Partial(Recs, Leftover(Recs))
  <2>1. (index \ (sync.gone \ touched)) \cup (sync.fresh \ (touched \cup hidden)) \subseteq Recs
    BY DEF TypeInv, SyncType
  <2> QED BY <2>1, ApplyHealTypes DEF WriteIndex
<1>2. sync' \in SyncType(Recs)
  BY NothingPartial DEF WriteIndex, NoSync, SyncType, Cleaning
<1>3. DOMAIN heal' = Healers /\ \A h \in Healers : HealOK(Recs, heal'[h])
  <2>1. HealOK(Recs, [NoHeal EXCEPT !.pc = "begin"])
    BY NothingPartial, EmptySeq DEF HealOK, HealType, NoHeal
  <2>2. heal' \in {heal, [heal EXCEPT !["round"] = [NoHeal EXCEPT !.pc = "begin"]]}
    BY DEF WriteIndex
  <2> QED BY <2>1, <2>2 DEF TypeInv
<1> QED BY <1>1, <1>2, <1>3 DEF TypeInv, WriteIndex, server, deletes, Recs

-----------------------------------------------------------------------------
(* The types: cleaning. *)

\* A cleaning thread goes on with r, and nothing else of the threads changes.
LEMMA HealStepTypes ==
  ASSUME TypeInv, NEW h \in Healers, NEW r, HealOK(Recs, r), heal' = [heal EXCEPT ![h] = r]
  PROVE  DOMAIN heal' = Healers /\ \A k \in Healers : HealOK(Recs, heal'[k])
BY DEF TypeInv

\* What a thread still has to do, when it has done with a leftover.
LEMMA RestType ==
  ASSUME TypeInv, NEW h \in Healers, NEW i
  PROVE  Rest(h, i) \in Partial(Recs, Leftover(Recs))
BY PartialLess DEF TypeInv, HealOK, HealType, Rest

LEMMA KeepTypes ==
  ASSUME TypeInv, NEW i, KeepAfterAll(i)
  PROVE  index' \cup keep' \subseteq Recs /\ stale' \in Partial(Recs, Leftover(Recs))
<1>1. stale' \in Partial(Recs, Leftover(Recs))
  BY PartialLess DEF TypeInv, KeepAfterAll
<1>2. DOMAIN stale \subseteq Recs
  BY PartialIs DEF TypeInv
<1> QED BY <1>1, <1>2 DEF TypeInv, KeepAfterAll

LEMMA BeginHealTypes == ASSUME TypeInv, NEW h \in Healers, BeginHeal(h) PROVE TypeInv'
<1>1. HealOK(Recs, [NoHeal EXCEPT !.pc = "pick", !.todo = stale])
  BY EmptySeq DEF TypeInv, HealOK, HealType, NoHeal
<1>2. DOMAIN heal' = Healers /\ \A k \in Healers : HealOK(Recs, heal'[k])
  BY <1>1, HealStepTypes DEF BeginHeal
<1> QED BY <1>2 DEF TypeInv, BeginHeal, server, journal, leftover, deletes, Recs

LEMMA PickLeftoverTypes == ASSUME TypeInv, NEW h \in Healers, PickLeftover(h) PROVE TypeInv'
<1>1. PICK i \in DOMAIN heal[h].todo :
        LET succ == heal[h].todo[i].succ
        IN  IF succ \in heal[h].verified \cup index
            THEN /\ heal' = [heal EXCEPT ![h].id = i,
                                         ![h].pc = IF succ \in heal[h].verified
                                                   THEN "delete" ELSE "verify"]
                 /\ UNCHANGED <<index, stale, keep>>
            ELSE /\ KeepAfterAll(i)
                 /\ heal' = [heal EXCEPT ![h].todo = Rest(h, i)]
  BY DEF PickLeftover
<1>2. DOMAIN heal[h].todo \subseteq Recs /\ heal[h] \in HealType(Recs) /\ heal[h].pc = "pick"
  BY PartialIs DEF TypeInv, HealOK, HealType, PickLeftover, HealAt
<1>3. index' \cup keep' \subseteq Recs /\ stale' \in Partial(Recs, Leftover(Recs))
  <2>1. CASE KeepAfterAll(i)
    BY <2>1, KeepTypes
  <2>2. CASE UNCHANGED <<index, stale, keep>>
    BY <2>2 DEF TypeInv
  <2> QED BY <1>1, <2>1, <2>2
<1>4. \A pc \in {"delete", "verify"} : HealOK(Recs, [heal[h] EXCEPT !.id = i, !.pc = pc])
  BY <1>2 DEF HealOK, HealType
<1>5. HealOK(Recs, [heal[h] EXCEPT !.todo = Rest(h, i)])
  BY <1>2, RestType DEF HealOK, HealType
<1>6. \/ \E pc \in {"delete", "verify"} : heal' = [heal EXCEPT ![h] = [heal[h] EXCEPT !.id = i, !.pc = pc]]
      \/ heal' = [heal EXCEPT ![h] = [heal[h] EXCEPT !.todo = Rest(h, i)]]
  BY <1>1
<1>7. DOMAIN heal' = Healers /\ \A k \in Healers : HealOK(Recs, heal'[k])
  BY <1>4, <1>5, <1>6, HealStepTypes
<1> QED BY <1>3, <1>7 DEF TypeInv, PickLeftover, server, journal, deletes, Recs

LEMMA VerifySuccessorTypes == ASSUME TypeInv, NEW h \in Healers, VerifySuccessor(h) PROVE TypeInv'
<1> DEFINE i == heal[h].id
           succ == heal[h].todo[i].succ
<1>1. /\ heal[h] \in HealType(Recs) /\ heal[h].pc = "verify" /\ i \in DOMAIN heal[h].todo
      /\ heal[h].todo \in [DOMAIN heal[h].todo -> Leftover(Recs)]
  BY PartialIs DEF TypeInv, HealOK, HealType, VerifySuccessor, HealAt
<1>2. succ \in Recs
  BY <1>1 DEF Leftover
<1>3. HealOK(Recs, [heal[h] EXCEPT !.verified = @ \cup {succ}, !.pc = "delete"])
  BY <1>1, <1>2 DEF HealOK, HealType
<1>4. HealOK(Recs, [heal[h] EXCEPT !.todo = Rest(h, i), !.id = None, !.pc = "pick"])
  BY <1>1, RestType DEF HealOK, HealType
<1>5. \/ /\ heal' = [heal EXCEPT ![h] = [heal[h] EXCEPT !.verified = @ \cup {succ}, !.pc = "delete"]]
         /\ UNCHANGED <<index, stale, keep>>
      \/ /\ heal' = [heal EXCEPT ![h] = [heal[h] EXCEPT !.todo = Rest(h, i), !.id = None, !.pc = "pick"]]
         /\ KeepAfterAll(i)
  BY DEF VerifySuccessor
<1> HIDE DEF i, succ
<1>6. index' \cup keep' \subseteq Recs /\ stale' \in Partial(Recs, Leftover(Recs))
  <2>1. CASE KeepAfterAll(i)
    BY <2>1, KeepTypes
  <2>2. CASE UNCHANGED <<index, stale, keep>>
    BY <2>2 DEF TypeInv
  <2> QED BY <1>5, <2>1, <2>2
<1>7. DOMAIN heal' = Healers /\ \A k \in Healers : HealOK(Recs, heal'[k])
  BY <1>3, <1>4, <1>5, HealStepTypes
<1> QED BY <1>6, <1>7 DEF TypeInv, VerifySuccessor, server, journal, deletes, Recs

LEMMA VerifyLaterTypes == ASSUME TypeInv, NEW h \in Healers, VerifyLater(h) PROVE TypeInv'
<1>1. heal[h] \in HealType(Recs)
  BY DEF TypeInv, HealOK
<1>2. HealOK(Recs, [heal[h] EXCEPT !.todo = Rest(h, heal[h].id), !.id = None, !.pc = "pick"])
  BY <1>1, RestType DEF HealOK, HealType
<1>3. heal' = [heal EXCEPT ![h] = [heal[h] EXCEPT !.todo = Rest(h, heal[h].id), !.id = None, !.pc = "pick"]]
  BY DEF VerifyLater
<1>4. DOMAIN heal' = Healers /\ \A k \in Healers : HealOK(Recs, heal'[k])
  BY <1>2, <1>3, HealStepTypes
<1>5. budget' \in BudgetType
  BY SyncAssumption DEF TypeInv, VerifyLater, BudgetType
<1> QED BY <1>4, <1>5 DEF TypeInv, VerifyLater, server, journal, leftover, deletes, Recs

LEMMA TouchKnown ==
  ASSUME TypeInv, NEW i \in Recs, Touch(i)
  PROVE  touched' \subseteq Recs
BY DEF TypeInv, Touch

LEMMA DeleteLeftoverTypes == ASSUME TypeInv, NEW h \in Healers, DeleteLeftover(h) PROVE TypeInv'
<1> DEFINE i == heal[h].id
<1>1. heal[h] \in HealType(Recs) /\ i \in DOMAIN heal[h].todo
  BY DEF TypeInv, HealOK, DeleteLeftover, HealAt
<1>2. \A pc \in {"touch", "drop"} : HealOK(Recs, [heal[h] EXCEPT !.pc = pc])
  BY <1>1 DEF HealOK, HealType
<1>3. HealOK(Recs, [heal[h] EXCEPT !.todo = Rest(h, i), !.id = None, !.pc = "pick"])
  BY <1>1, RestType DEF HealOK, HealType
<1>4. \/ \E pc \in {"touch", "drop"} : heal' = [heal EXCEPT ![h] = [heal[h] EXCEPT !.pc = pc]]
      \/ heal' = [heal EXCEPT ![h] = [heal[h] EXCEPT !.todo = Rest(h, i), !.id = None, !.pc = "pick"]]
  BY DEF DeleteLeftover
<1>5. DOMAIN heal' = Healers /\ \A k \in Healers : HealOK(Recs, heal'[k])
  BY <1>2, <1>3, <1>4, HealStepTypes
<1>6. Recs' = Recs /\ StoreOK(Recs, store') /\ budget' \in BudgetType
  BY DeleteTypes DEF DeleteLeftover
<1> QED BY <1>5, <1>6 DEF TypeInv, DeleteLeftover, journal, leftover, deletes

LEMMA DropLeftoverTypes == ASSUME TypeInv, NEW h \in Healers, DropLeftover(h) PROVE TypeInv'
<1>0. heal[h] \in HealType(Recs) /\ heal[h].id \in DOMAIN heal[h].todo
  BY DEF TypeInv, HealOK, DropLeftover, HealAt
<1>1. HealOK(Recs, [heal[h] EXCEPT !.pc = "touch"])
  BY <1>0 DEF HealOK, HealType
<1>2. heal' = [heal EXCEPT ![h] = [heal[h] EXCEPT !.pc = "touch"]]
  BY DEF DropLeftover
<1>3. DOMAIN heal' = Healers /\ \A k \in Healers : HealOK(Recs, heal'[k])
  BY <1>1, <1>2, HealStepTypes
<1> QED BY <1>3 DEF TypeInv, DropLeftover, server, journal, leftover, deletes, Recs

LEMMA ForgetLeftoverTypes == ASSUME TypeInv, NEW h \in Healers, ForgetLeftover(h) PROVE TypeInv'
<1> DEFINE i == heal[h].id
<1>1. heal[h] \in HealType(Recs) /\ i \in Recs
  BY PartialIs DEF TypeInv, HealOK, HealType, ForgetLeftover, HealAt
<1>2. HealOK(Recs, [heal[h] EXCEPT !.todo = Rest(h, i), !.id = None, !.pc = "pick"])
  BY <1>1, RestType DEF HealOK, HealType
<1>3. heal' = [heal EXCEPT ![h] = [heal[h] EXCEPT !.todo = Rest(h, i), !.id = None, !.pc = "pick"]]
  BY DEF ForgetLeftover
<1>4. DOMAIN heal' = Healers /\ \A k \in Healers : HealOK(Recs, heal'[k])
  BY <1>2, <1>3, HealStepTypes
<1>5. stale' \in Partial(Recs, Leftover(Recs))
  BY PartialLess DEF TypeInv, ForgetLeftover
<1>6. touched' \subseteq Recs
  BY <1>1, TouchKnown DEF ForgetLeftover
<1> QED BY <1>4, <1>5, <1>6 DEF TypeInv, ForgetLeftover, server, deletes, Recs

LEMMA GroupNamesTypes == ASSUME TypeInv, NEW h \in Healers, GroupNames(h) PROVE TypeInv'
<1> DEFINE groups == {g \in {{j \in index : rec[j].name = rec[i].name} : i \in index} : Cardinality(g) > 1}
<1>1. groups \in SUBSET SUBSET Recs
  BY DEF TypeInv
<1>2. HealOK(Recs, [NoHeal EXCEPT !.pc = "group", !.groups = groups])
  <2> HIDE DEF groups
  <2> QED BY <1>1, EmptySeq, NothingPartial DEF HealOK, HealType, NoHeal
<1>3. heal' = [heal EXCEPT ![h] = [NoHeal EXCEPT !.pc = "group", !.groups = groups]]
  BY DEF GroupNames
<1> HIDE DEF groups
<1>4. DOMAIN heal' = Healers /\ \A k \in Healers : HealOK(Recs, heal'[k])
  BY <1>2, <1>3, HealStepTypes
<1> QED BY <1>4 DEF TypeInv, GroupNames, server, journal, leftover, deletes, Recs

\* Files in order are a sequence of them.
LEMMA SortedType ==
  ASSUME NEW R, R \subseteq Ids, NEW g, g \subseteq R, NEW line \in Sorted(g)
  PROVE  line \in Seq(R) /\ (line = <<>> => g = {})
<1>1. IsFiniteSet(g) /\ Cardinality(g) \in Nat
  BY SyncAssumption, FS_Subset, FS_CardinalityType
<1>2. line \in [1 .. Cardinality(g) -> g]
  BY DEF Sorted
<1>3. line \in Seq(R) /\ Len(line) = Cardinality(g)
  <2>1. line \in [1 .. Cardinality(g) -> R]
    BY <1>2
  <2> QED BY <1>1, <2>1
<1>4. line = <<>> => Cardinality(g) = 0
  BY <1>3
<1> QED BY <1>1, <1>3, <1>4, FS_EmptySet

LEMMA NextGroupTypes == ASSUME TypeInv, NEW h \in Healers, NextGroup(h) PROVE TypeInv'
<1>0. PICK g \in heal[h].groups : \E line \in Sorted(g) :
        heal' = [heal EXCEPT ![h].groups = @ \ {g}, ![h].pc = "hash", ![h].line = line]
  BY DEF NextGroup
<1>1. PICK line \in Sorted(g) :
        heal' = [heal EXCEPT ![h].groups = @ \ {g}, ![h].pc = "hash", ![h].line = line]
  BY <1>0
<1>2. heal[h] \in HealType(Recs) /\ g \subseteq Recs /\ Recs \subseteq Ids
  BY DEF TypeInv, HealOK, HealType, StoreOK
<1>3. line \in Seq(Recs)
  BY <1>2, SortedType
<1>4. HealOK(Recs, [heal[h] EXCEPT !.groups = @ \ {g}, !.pc = "hash", !.line = line])
  BY <1>2, <1>3 DEF HealOK, HealType
<1>5. heal' = [heal EXCEPT ![h] = [heal[h] EXCEPT !.groups = @ \ {g}, !.pc = "hash", !.line = line]]
  BY <1>1
<1>6. DOMAIN heal' = Healers /\ \A k \in Healers : HealOK(Recs, heal'[k])
  BY <1>4, <1>5, HealStepTypes
<1> QED BY <1>6 DEF TypeInv, NextGroup, server, journal, leftover, deletes, Recs

LEMMA EndHealTypes == ASSUME TypeInv, NEW h \in Healers, EndHeal(h) PROVE TypeInv'
<1>1. HealOK(Recs, NoHeal)
  BY NoHealOK DEF HealOK, NoHeal
<1>2. DOMAIN heal' = Healers /\ \A k \in Healers : HealOK(Recs, heal'[k])
  BY <1>1, HealStepTypes DEF EndHeal
<1>3. sync' \in SyncType(Recs)
  BY NoSyncType DEF TypeInv, EndHeal
<1> QED BY <1>2, <1>3 DEF TypeInv, EndHeal, server, journal, leftover, deletes, Recs

LEMMA HashNextTypes == ASSUME TypeInv, NEW h \in Healers, HashNext(h) PROVE TypeInv'
<1> DEFINE i == Head(heal[h].line)
           read(ok) == IF ok THEN Append(heal[h].read, i) ELSE heal[h].read
<1>1. heal[h] \in HealType(Recs) /\ heal[h].line # <<>> /\ heal[h].pc = "hash"
  BY DEF TypeInv, HealOK, HashNext, HealAt
<1>2. i \in Recs /\ Tail(heal[h].line) \in Seq(Recs) /\ heal[h].read \in Seq(Recs)
  BY <1>1, HeadTailProperties DEF HealType
<1>3. \A ok : read(ok) \in Seq(Recs)
  BY <1>2, AppendProperties
<1>4. \E ok : heal' = [heal EXCEPT ![h] = [heal[h] EXCEPT !.line = Tail(@), !.read = read(ok)]]
  BY DEF HashNext
<1>5. hashed' \subseteq hashed \cup {i} /\ budget' \in BudgetType
  <2>1. CASE i \in hashed \/ budget.hash = 0
    BY <2>1 DEF TypeInv, HashNext
  <2>2. CASE i \notin hashed /\ budget.hash # 0
    <3>1. PICK ok \in {Readable(i)} \cup {b \in {FALSE} : budget.faults > 0} :
            /\ hashed' = IF ok THEN hashed \cup {i} ELSE hashed
            /\ budget' = [budget EXCEPT !.hash = @ - 1,
                                        !.faults = IF ok = Readable(i) THEN @ ELSE @ - 1]
      BY <2>2 DEF HashNext
    <3>2. ok # Readable(i) => budget.faults > 0
      OBVIOUS
    <3>3. budget \in BudgetType /\ budget.hash > 0 /\ MaxFaults \in Nat
      BY <2>2, SyncAssumption DEF TypeInv, BudgetType
    <3>4. CASE ok = Readable(i)
      <4>1. budget' = [budget EXCEPT !.hash = @ - 1]
        BY <3>1, <3>3, <3>4 DEF BudgetType
      <4>2. [budget EXCEPT !.hash = @ - 1] \in BudgetType
        BY <3>3 DEF BudgetType
      <4> QED BY <3>1, <4>1, <4>2
    <3>5. CASE ok # Readable(i)
      <4>1. budget' = [budget EXCEPT !.hash = @ - 1, !.faults = @ - 1] /\ budget.faults > 0
        BY <3>1, <3>2, <3>5
      <4>2. budget.hash - 1 \in Nat /\ budget.faults - 1 \in 0 .. MaxFaults
        BY <3>3, <4>1 DEF BudgetType
      <4>3. [budget EXCEPT !.hash = @ - 1, !.faults = @ - 1] \in BudgetType
        BY <3>3, <4>2 DEF BudgetType
      <4> QED BY <3>1, <4>1, <4>3
    <3> QED BY <3>4, <3>5
  <2> QED BY <2>1, <2>2
<1> HIDE DEF i, read
<1>6. \A ok : HealOK(Recs, [heal[h] EXCEPT !.line = Tail(@), !.read = read(ok)])
  BY <1>1, <1>2, <1>3 DEF HealOK, HealType
<1>7. DOMAIN heal' = Healers /\ \A k \in Healers : HealOK(Recs, heal'[k])
  BY <1>4, <1>6, HealStepTypes
<1> QED BY <1>2, <1>5, <1>7 DEF TypeInv, HashNext, server, journal, deletes, Recs

LEMMA ChooseCopiesTypes == ASSUME TypeInv, NEW h \in Healers, ChooseCopies(h) PROVE TypeInv'
<1> DEFINE read   == heal[h].read
           copies == {read[n] : n \in {k \in DOMAIN read : SameContent(read, k)}}
           pc     == IF copies = {} THEN "group" ELSE "purge"
<1>1. PICK line \in Sorted(copies) :
        heal' = [heal EXCEPT ![h].line = line, ![h].read = <<>>, ![h].pc = pc]
  BY DEF ChooseCopies
<1>2. heal[h] \in HealType(Recs) /\ Recs \subseteq Ids
  BY DEF TypeInv, HealOK, StoreOK
<1>3. copies \subseteq Recs
  <2>1. \A n \in DOMAIN read : read[n] \in Recs
    BY <1>2, LenProperties DEF HealType
  <2> HIDE DEF read
  <2> QED BY <2>1
<1> HIDE DEF copies
<1>4. line \in Seq(Recs) /\ (copies # {} => line # <<>>)
  BY <1>2, <1>3, SortedType
<1>5. HealOK(Recs, [heal[h] EXCEPT !.line = line, !.read = <<>>, !.pc = pc])
  BY <1>2, <1>4, EmptySeq DEF HealOK, HealType
<1>6. heal' = [heal EXCEPT ![h] = [heal[h] EXCEPT !.line = line, !.read = <<>>, !.pc = pc]]
  BY <1>1
<1>7. DOMAIN heal' = Healers /\ \A k \in Healers : HealOK(Recs, heal'[k])
  BY <1>5, <1>6, HealStepTypes
<1> QED BY <1>7 DEF TypeInv, ChooseCopies, server, journal, leftover, deletes, Recs

\* The copies that a thread still has to delete.
LEMMA NextCopyTypes ==
  ASSUME TypeInv, NEW h \in Healers, heal[h].line # <<>>, heal' = NextCopy(h)
  PROVE  DOMAIN heal' = Healers /\ \A k \in Healers : HealOK(Recs, heal'[k])
<1> DEFINE pc == IF Len(heal[h].line) = 1 THEN "group" ELSE "purge"
<1>1. heal[h] \in HealType(Recs) /\ heal[h].line \in Seq(Recs)
  BY DEF TypeInv, HealOK, HealType
<1>2. Tail(heal[h].line) \in Seq(Recs) /\ (pc = "purge" => Tail(heal[h].line) # <<>>)
  <2>1. Tail(heal[h].line) \in Seq(Recs) /\ Len(Tail(heal[h].line)) = Len(heal[h].line) - 1
    BY <1>1, HeadTailProperties
  <2>2. Len(heal[h].line) \in Nat /\ (Tail(heal[h].line) = <<>> => Len(Tail(heal[h].line)) = 0)
    BY <1>1, LenProperties, EmptySeq
  <2> QED BY <2>1, <2>2
<1>3. HealOK(Recs, [heal[h] EXCEPT !.line = Tail(@), !.pc = pc])
  BY <1>1, <1>2 DEF HealOK, HealType
<1>4. heal' = [heal EXCEPT ![h] = [heal[h] EXCEPT !.line = Tail(@), !.pc = pc]]
  BY DEF NextCopy
<1> QED BY <1>3, <1>4, HealStepTypes

LEMMA DeleteCopyTypes == ASSUME TypeInv, NEW h \in Healers, DeleteCopy(h) PROVE TypeInv'
<1>1. heal[h] \in HealType(Recs) /\ heal[h].line # <<>>
  BY DEF TypeInv, HealOK, DeleteCopy, HealAt
<1>2. HealOK(Recs, [heal[h] EXCEPT !.pc = "dropcopy"])
  BY <1>1 DEF HealOK, HealType
<1>3. heal' = [heal EXCEPT ![h] = [heal[h] EXCEPT !.pc = "dropcopy"]] \/ heal' = NextCopy(h)
  BY DEF DeleteCopy
<1>4. DOMAIN heal' = Healers /\ \A k \in Healers : HealOK(Recs, heal'[k])
  BY <1>1, <1>2, <1>3, NextCopyTypes, HealStepTypes
<1>5. Recs' = Recs /\ StoreOK(Recs, store') /\ budget' \in BudgetType
  BY DeleteTypes DEF DeleteCopy
<1> QED BY <1>4, <1>5 DEF TypeInv, DeleteCopy, journal, leftover, deletes

LEMMA DropCopyTypes == ASSUME TypeInv, NEW h \in Healers, DropCopy(h) PROVE TypeInv'
<1>0. heal[h] \in HealType(Recs) /\ heal[h].line # <<>>
  BY DEF TypeInv, HealOK, DropCopy, HealAt
<1>1. HealOK(Recs, [heal[h] EXCEPT !.pc = "touchcopy"])
  BY <1>0 DEF HealOK, HealType
<1>2. heal' = [heal EXCEPT ![h] = [heal[h] EXCEPT !.pc = "touchcopy"]]
  BY DEF DropCopy
<1>3. DOMAIN heal' = Healers /\ \A k \in Healers : HealOK(Recs, heal'[k])
  BY <1>1, <1>2, HealStepTypes
<1> QED BY <1>3 DEF TypeInv, DropCopy, server, journal, leftover, deletes, Recs

LEMMA TouchCopyTypes == ASSUME TypeInv, NEW h \in Healers, TouchCopy(h) PROVE TypeInv'
<1>1. heal[h].line # <<>> /\ heal[h].line \in Seq(Recs)
  BY DEF TypeInv, HealOK, HealType, TouchCopy, HealAt
<1>2. touched' \subseteq Recs
  BY <1>1, HeadTailProperties, TouchKnown DEF TouchCopy
<1>3. DOMAIN heal' = Healers /\ \A k \in Healers : HealOK(Recs, heal'[k])
  BY <1>1, NextCopyTypes DEF TouchCopy
<1> QED BY <1>2, <1>3 DEF TypeInv, TouchCopy, server, leftover, deletes, Recs

-----------------------------------------------------------------------------
(* The types: jobs and the delete queue. *)

\* A job goes on with r, and nothing else of the jobs changes.
LEMMA JobStepTypes ==
  ASSUME TypeInv, NEW j \in Jobs, NEW r, JobOK(Recs, r), job' = [job EXCEPT ![j] = r]
  PROVE  DOMAIN job' = Jobs /\ \A k \in Jobs : JobOK(Recs, job'[k])
BY DEF TypeInv

LEMMA NoJobOK == ASSUME NEW R PROVE JobOK(R, NoJob)
  BY DEF NoJob, JobOK, JobType

LEMMA BeginJobTypes == ASSUME TypeInv, NEW j \in Jobs, BeginJob(j) PROVE TypeInv'
<1>1. PICK kind \in JobKinds : \E old \in IF kind = "create" THEN {None} ELSE index :
        job' = [job EXCEPT ![j] = [pc |-> IF kind = "delete" THEN "delete" ELSE "upload",
                                   kind |-> kind, old |-> old, new |-> None]]
  BY DEF BeginJob
<1>2. PICK old \in IF kind = "create" THEN {None} ELSE index :
        job' = [job EXCEPT ![j] = [pc |-> IF kind = "delete" THEN "delete" ELSE "upload",
                                   kind |-> kind, old |-> old, new |-> None]]
  BY <1>1
<1>3. JobOK(Recs, [pc |-> IF kind = "delete" THEN "delete" ELSE "upload",
                   kind |-> kind, old |-> old, new |-> None])
  BY SyncAssumption DEF TypeInv, JobOK, JobType
<1>4. DOMAIN job' = Jobs /\ \A k \in Jobs : JobOK(Recs, job'[k])
  BY <1>2, <1>3, JobStepTypes
<1>5. budget' \in BudgetType
  BY DEF TypeInv, BeginJob, BudgetType
<1> QED BY <1>4, <1>5 DEF TypeInv, BeginJob, server, journal, leftover, deletes, Recs

LEMMA UploadNewTypes == ASSUME TypeInv, NEW j \in Jobs, UploadNew(j) PROVE TypeInv'
<1>1. PICK i \in Unused : \E r \in NewRecords(job[j].kind, job[j].old, i) :
       /\ Upload(i, r)
       /\ \/ /\ job' = [job EXCEPT ![j].new = i, ![j].pc = "touch"]
             /\ UNCHANGED budget
          \/ /\ budget.faults > 0
             /\ budget' = [budget EXCEPT !.faults = @ - 1]
             /\ job' = [job EXCEPT ![j] = NoJob]
  BY DEF UploadNew
<1>2. PICK r : /\ Upload(i, r)
               /\ \/ /\ job' = [job EXCEPT ![j].new = i, ![j].pc = "touch"]
                     /\ UNCHANGED budget
                  \/ /\ budget.faults > 0
                     /\ budget' = [budget EXCEPT !.faults = @ - 1]
                     /\ job' = [job EXCEPT ![j] = NoJob]
  BY <1>1
<1>3. Recs' = Recs \cup {i}
  BY <1>2 DEF Upload, Recs
<1>4. \A k \in Jobs : JobOK(Recs', job[k])
  BY <1>3, TypesGrow DEF TypeInv
<1>5. DOMAIN job' = Jobs /\ \A k \in Jobs : JobOK(Recs', job'[k])
  <2>1. JobOK(Recs', [job[j] EXCEPT !.new = i, !.pc = "touch"])
    BY <1>3, <1>4 DEF JobOK, JobType, UploadNew, JobAt
  <2>2. JobOK(Recs', NoJob)
    BY NoJobOK
  <2>3. \/ job' = [job EXCEPT ![j] = [job[j] EXCEPT !.new = i, !.pc = "touch"]]
        \/ job' = [job EXCEPT ![j] = NoJob]
    BY <1>2
  <2>4. DOMAIN job = Jobs
    BY DEF TypeInv
  <2> QED BY <1>4, <2>1, <2>2, <2>3, <2>4
<1>6. budget' \in BudgetType
  BY <1>2, SyncAssumption DEF TypeInv, BudgetType
<1> QED BY <1>2, <1>5, <1>6, UploadTypes DEF UploadNew

LEMMA UploadFailsTypes == ASSUME TypeInv, NEW j \in Jobs, UploadFails(j) PROVE TypeInv'
<1>1. DOMAIN job' = Jobs /\ \A k \in Jobs : JobOK(Recs, job'[k])
  BY NoJobOK, JobStepTypes DEF UploadFails
<1>2. budget' \in BudgetType
  BY SyncAssumption DEF TypeInv, UploadFails, BudgetType
<1> QED BY <1>1, <1>2 DEF TypeInv, UploadFails, server, journal, leftover, deletes, Recs

LEMMA TouchNewTypes == ASSUME TypeInv, NEW j \in Jobs, TouchNew(j) PROVE TypeInv'
<1>0. JobOK(Recs, job[j]) /\ job[j].pc = "touch"
  BY DEF TypeInv, TouchNew, JobAt
<1>1. JobOK(Recs, [job[j] EXCEPT !.pc = "insert"]) /\ job[j].new \in Recs
  BY <1>0 DEF JobOK, JobType
<1>2. DOMAIN job' = Jobs /\ \A k \in Jobs : JobOK(Recs, job'[k])
  BY <1>1, JobStepTypes DEF TouchNew
<1>3. touched' \subseteq Recs
  BY <1>1, TouchKnown DEF TouchNew
<1> QED BY <1>2, <1>3 DEF TypeInv, TouchNew, server, leftover, deletes, Recs

LEMMA InsertNewTypes == ASSUME TypeInv, NEW j \in Jobs, InsertNew(j) PROVE TypeInv'
<1>0. JobOK(Recs, job[j]) /\ job[j].pc = "insert"
  BY DEF TypeInv, InsertNew, JobAt
<1>1. JobOK(Recs, [job[j] EXCEPT !.pc = "get"]) /\ job[j].new \in Recs
  BY <1>0 DEF JobOK, JobType
<1>2. DOMAIN job' = Jobs /\ \A k \in Jobs : JobOK(Recs, job'[k])
  BY <1>1, JobStepTypes DEF InsertNew
<1> QED BY <1>1, <1>2 DEF TypeInv, InsertNew, server, journal, leftover, deletes, Recs

LEMMA GetNewTypes == ASSUME TypeInv, NEW j \in Jobs, GetNew(j) PROVE TypeInv'
<1>0. JobOK(Recs, job[j]) /\ job[j].pc = "get"
  BY DEF TypeInv, GetNew, JobAt
<1>1. job[j].kind # "create" => JobOK(Recs, [job[j] EXCEPT !.pc = "hide"])
  BY <1>0 DEF JobOK, JobType
<1>2. DOMAIN job' = Jobs /\ \A k \in Jobs : JobOK(Recs, job'[k])
  <2>1. \/ job[j].kind # "create" /\ job' = [job EXCEPT ![j] = [job[j] EXCEPT !.pc = "hide"]]
        \/ job' = [job EXCEPT ![j] = NoJob]
    BY DEF GetNew
  <2> QED BY <1>1, <2>1, NoJobOK, JobStepTypes
<1> QED BY <1>2 DEF TypeInv, GetNew, server, journal, leftover, deletes, Recs

LEMMA HideOldTypes == ASSUME TypeInv, NEW j \in Jobs, HideOld(j) PROVE TypeInv'
<1>0. JobOK(Recs, job[j]) /\ job[j].pc = "hide"
  BY DEF TypeInv, HideOld, JobAt
<1>1. JobOK(Recs, [job[j] EXCEPT !.pc = "drop"]) /\ job[j].old \in Recs
  BY <1>0 DEF JobOK, JobType
<1>2. DOMAIN job' = Jobs /\ \A k \in Jobs : JobOK(Recs, job'[k])
  BY <1>1, JobStepTypes DEF HideOld
<1> QED BY <1>1, <1>2 DEF TypeInv, HideOld, server, leftover, deletes, Recs

LEMMA DeleteNowTypes == ASSUME TypeInv, NEW j \in Jobs, DeleteNow(j) PROVE TypeInv'
<1>0. JobOK(Recs, job[j]) /\ job[j].pc = "delete"
  BY DEF TypeInv, DeleteNow, JobAt
<1>1. JobOK(Recs, [job[j] EXCEPT !.pc = "drop"])
  BY <1>0 DEF JobOK, JobType
<1>2. DOMAIN job' = Jobs /\ \A k \in Jobs : JobOK(Recs, job'[k])
  <2>1. \/ job' = [job EXCEPT ![j] = [job[j] EXCEPT !.pc = "drop"]]
        \/ job' = [job EXCEPT ![j] = NoJob]
    BY DEF DeleteNow
  <2> QED BY <1>1, <2>1, NoJobOK, JobStepTypes
<1>3. Recs' = Recs /\ StoreOK(Recs, store') /\ budget' \in BudgetType
  BY DeleteTypes DEF DeleteNow
<1> QED BY <1>2, <1>3 DEF TypeInv, DeleteNow, journal, leftover, deletes

LEMMA DropOldTypes == ASSUME TypeInv, NEW j \in Jobs, DropOld(j) PROVE TypeInv'
<1>0. JobOK(Recs, job[j]) /\ job[j].pc = "drop"
  BY DEF TypeInv, DropOld, JobAt
<1>1. JobOK(Recs, [job[j] EXCEPT !.pc = "forget"])
  BY <1>0 DEF JobOK, JobType
<1>2. DOMAIN job' = Jobs /\ \A k \in Jobs : JobOK(Recs, job'[k])
  BY <1>1, JobStepTypes DEF DropOld
<1> QED BY <1>2 DEF TypeInv, DropOld, server, journal, leftover, deletes, Recs

LEMMA ForgetOldTypes == ASSUME TypeInv, NEW j \in Jobs, ForgetOld(j) PROVE TypeInv'
<1> DEFINE i == job[j].old
<1>0. JobOK(Recs, job[j]) /\ job[j].pc = "forget"
  BY DEF TypeInv, ForgetOld, JobAt
<1>1. i \in Recs
  BY <1>0 DEF JobOK, JobType
<1>2. DOMAIN job' = Jobs /\ \A k \in Jobs : JobOK(Recs, job'[k])
  BY NoJobOK, JobStepTypes DEF ForgetOld
<1>3. touched' \subseteq Recs
  BY <1>1, TouchKnown DEF ForgetOld
<1>4. WorkOK(Recs, queue', worker')
  <2>1. [id |-> i, tries |-> 0] \in [id : Recs, tries : 0 .. (Attempts - 1)]
    BY <1>1, SyncAssumption
  <2>2. Append(queue, [id |-> i, tries |-> 0]) \in QueueType(Recs)
    <3> HIDE DEF i
    <3> QED BY <2>1, AppendProperties DEF TypeInv, WorkOK, QueueType
  <2>3. queue' \in QueueType(Recs)
    BY <2>2 DEF TypeInv, WorkOK, ForgetOld, deletes
  <2>4. worker' \in {worker, [NoWork EXCEPT !.pc = "next"]}
    BY DEF ForgetOld, deletes
  <2> QED BY <2>3, <2>4 DEF TypeInv, WorkOK, WorkType, NoWork
<1> QED BY <1>1, <1>2, <1>3, <1>4 DEF TypeInv, ForgetOld, server, leftover, Recs

LEMMA NextDeleteTypes == ASSUME TypeInv, NextDelete PROVE TypeInv'
<1>1. WorkOK(Recs, queue', worker')
  <2>1. CASE queue = <<>>
    BY <2>1 DEF NextDelete, TypeInv, WorkOK, WorkType, NoWork
  <2>2. CASE queue # <<>>
    <3>1. /\ Head(queue) \in [id : Recs, tries : 0 .. (Attempts - 1)]
          /\ Tail(queue) \in QueueType(Recs)
      BY <2>2, HeadTailProperties DEF TypeInv, WorkOK, QueueType
    <3>2. /\ worker' = [pc |-> "call", id |-> Head(queue).id, tries |-> Head(queue).tries]
          /\ queue' = Tail(queue)
      BY <2>2 DEF NextDelete
    <3>3. Head(queue).tries \in Nat /\ Head(queue).tries < Attempts
      BY <3>1, SyncAssumption
    <3> QED BY <3>1, <3>2, <3>3 DEF WorkOK, WorkType
  <2> QED BY <2>1, <2>2
<1> QED BY <1>1 DEF TypeInv, NextDelete, server, journal, leftover, Recs

LEMMA CallDeleteTypes == ASSUME TypeInv, CallDelete PROVE TypeInv'
<1>0. /\ worker \in WorkType(Recs) /\ worker.id \in Recs /\ worker.tries \in Nat
      /\ worker.pc = "call" /\ queue \in QueueType(Recs)
  BY DEF CallDelete, TypeInv, WorkOK, WorkType
<1>1. queue' \in QueueType(Recs)
  <2>1. CASE worker.tries + 1 < Attempts
    <3>1. [id |-> worker.id, tries |-> worker.tries + 1] \in [id : Recs, tries : 0 .. (Attempts - 1)]
      BY <1>0, <2>1, SyncAssumption
    <3>2. Append(queue, [id |-> worker.id, tries |-> worker.tries + 1]) \in QueueType(Recs)
      BY <1>0, <3>1, AppendProperties DEF QueueType
    <3> QED BY <1>0, <3>2 DEF CallDelete
  <2>2. CASE ~(worker.tries + 1 < Attempts)
    BY <1>0, <2>2 DEF CallDelete
  <2> QED BY <2>1, <2>2
<1>2. worker' \in {[worker EXCEPT !.pc = "touch"], [NoWork EXCEPT !.pc = "next"]}
  BY DEF CallDelete
<1>3. WorkOK(Recs, queue', worker')
  BY <1>0, <1>1, <1>2 DEF TypeInv, WorkOK, WorkType, NoWork
<1>4. Recs' = Recs /\ StoreOK(Recs, store') /\ budget' \in BudgetType
  BY DeleteTypes DEF CallDelete
<1> QED BY <1>3, <1>4 DEF TypeInv, CallDelete, journal, leftover

LEMMA TouchDeletedTypes == ASSUME TypeInv, TouchDeleted PROVE TypeInv'
<1>1. worker.id \in Recs /\ WorkOK(Recs, queue', worker')
  BY DEF TouchDeleted, TypeInv, WorkOK, WorkType
<1>2. touched' \subseteq Recs
  BY <1>1, TouchKnown DEF TouchDeleted
<1> QED BY <1>1, <1>2 DEF TypeInv, TouchDeleted, server, leftover, Recs

LEMMA UnhideTypes == ASSUME TypeInv, Unhide PROVE TypeInv'
<1>1. WorkOK(Recs, queue', worker')
  BY DEF Unhide, TypeInv, WorkOK, WorkType, NoWork
<1> QED BY <1>1 DEF TypeInv, Unhide, server, leftover, Recs

-----------------------------------------------------------------------------
(* The types: other clients, and every step. *)

LEMMA AddElsewhereTypes == ASSUME TypeInv, AddElsewhere PROVE TypeInv'
<1>1. PICK i \in Unused : \E r : Upload(i, r)
  BY DEF AddElsewhere
<1>2. PICK r : Upload(i, r)
  BY <1>1
<1>3. budget' \in BudgetType
  BY DEF TypeInv, AddElsewhere, Moved, BudgetType
<1>4. Recs' = Recs \cup {i}
  BY <1>2 DEF Upload, Recs
<1>5. DOMAIN job' = Jobs /\ \A k \in Jobs : JobOK(Recs', job'[k])
  BY <1>4, TypesGrow DEF TypeInv, AddElsewhere
<1> QED BY <1>2, <1>3, <1>5, UploadTypes DEF AddElsewhere

LEMMA DeleteElsewhereTypes == ASSUME TypeInv, DeleteElsewhere PROVE TypeInv'
<1>1. \A i : StoreOK(Recs, Without(i))
  BY RemoveType DEF TypeInv, StoreOK, Without
<1>2. budget' \in BudgetType
  BY DEF TypeInv, DeleteElsewhere, Moved, BudgetType
<1> QED BY <1>1, <1>2 DEF TypeInv, DeleteElsewhere, journal, leftover, deletes, Recs

LEMMA InitTypes == Init => TypeInv
<1> SUFFICES ASSUME Init PROVE TypeInv
  OBVIOUS
<1>1. PICK w \in Worlds :
        /\ rec = w.rec /\ store = w.store
        /\ LET plan == Plan(w.rec)
           IN  /\ index = ToSet(w.store) \ {i \in DOMAIN plan : plan[i].identical}
               /\ stale = [i \in DOMAIN plan |-> [succ |-> plan[i].succ, hidden |-> plan[i].identical]]
  BY DEF Init
<1>2. StoreOK(Recs, store)
  BY <1>1, WorldsAssumption DEF StoreOK, Recs, IsInjective
<1>3. index \subseteq Recs
  BY <1>1, <1>2, LenProperties DEF StoreOK, ToSet
<1>4. stale \in Partial(Recs, Leftover(Recs))
  <2> DEFINE plan == Plan(rec)
  <2>1. Recs \in SUBSET Nat /\ IsFiniteSet(Recs)
    BY <1>2, SyncAssumption, FS_Subset DEF StoreOK
  <2>2. DOMAIN plan \subseteq Recs /\ \A i \in DOMAIN plan : plan[i].succ \in Recs /\ plan[i].identical \in BOOLEAN
    BY <2>1, PlanType DEF Recs
  <2>3. stale = [i \in DOMAIN plan |-> [succ |-> plan[i].succ, hidden |-> plan[i].identical]]
    BY <1>1
  <2> HIDE DEF plan
  <2>4. DOMAIN stale \subseteq Recs /\ stale \in [DOMAIN stale -> Leftover(Recs)]
    BY <2>2, <2>3 DEF Leftover
  <2> QED BY <2>4, PartialIs
<1>5. sync \in SyncType(Recs)
  BY NoSyncType DEF Init
<1>6. DOMAIN heal = Healers /\ \A h \in Healers : HealOK(Recs, heal[h])
  <2>1. HealOK(Recs, NoHeal) /\ HealOK(Recs, [NoHeal EXCEPT !.pc = "begin"])
    BY EmptySeq, NothingPartial DEF HealOK, HealType, NoHeal
  <2> QED BY <2>1 DEF Init
<1>7. DOMAIN job = Jobs /\ \A j \in Jobs : JobOK(Recs, job[j])
  BY NoJobOK DEF Init
<1>8. WorkOK(Recs, queue, worker)
  BY EmptySeq DEF Init, WorkOK, WorkType, QueueType, NoWork
<1>9. budget \in BudgetType
  BY SyncAssumption DEF Init, BudgetType
<1> QED BY <1>2, <1>3, <1>4, <1>5, <1>6, <1>7, <1>8, <1>9 DEF TypeInv, Init

LEMMA NextTypes == TypeInv /\ [Next]_vars => TypeInv'
<1> SUFFICES ASSUME TypeInv, [Next]_vars PROVE TypeInv'
  OBVIOUS
<1>1. CASE UNCHANGED vars
  BY <1>1 DEF TypeInv, vars, server, journal, leftover, deletes, Recs
<1>2. CASE SyncStep
  BY <1>2, StartSyncTypes, MorePagesTypes, CompareIndexTypes, ConfirmGoneTypes, ClassifyTypes,
     WriteIndexTypes, AnswerPageTypes, ReadPageTypes DEF SyncStep
<1>3. CASE FailPage
  BY <1>3, FailPageTypes
<1>4. CASE WorkStep
  BY <1>4, NextDeleteTypes, CallDeleteTypes, TouchDeletedTypes, UnhideTypes DEF WorkStep
<1>5. ASSUME NEW h \in Healers, HealStep(h) PROVE TypeInv'
  BY <1>5, BeginHealTypes, PickLeftoverTypes, VerifySuccessorTypes, DeleteLeftoverTypes,
     DropLeftoverTypes, ForgetLeftoverTypes, GroupNamesTypes, NextGroupTypes, EndHealTypes,
     HashNextTypes, ChooseCopiesTypes, DeleteCopyTypes, DropCopyTypes, TouchCopyTypes DEF HealStep
<1>6. ASSUME NEW j \in Jobs, JobStep(j) PROVE TypeInv'
  BY <1>6, UploadNewTypes, UploadFailsTypes, TouchNewTypes, InsertNewTypes, GetNewTypes,
     HideOldTypes, DeleteNowTypes, DropOldTypes, ForgetOldTypes DEF JobStep
<1>7. CASE AddElsewhere \/ DeleteElsewhere
  BY <1>7, AddElsewhereTypes, DeleteElsewhereTypes
<1> QED BY <1>1, <1>2, <1>3, <1>4, <1>5, <1>6, <1>7, VerifyLaterTypes, BeginJobTypes DEF Next

\* What the delete queue has.
LEMMA QueueHas ==
  TypeInv => \A n \in DOMAIN queue : queue[n] \in [id : Recs, tries : 0 .. (Attempts - 1)]
<1> DEFINE T == [id : Recs, tries : 0 .. (Attempts - 1)]
<1>1. TypeInv => queue \in Seq(T)
  BY DEF TypeInv, WorkOK, QueueType
<1> HIDE DEF T
<1>2. queue \in Seq(T) => \A n \in DOMAIN queue : queue[n] \in T
  BY ElementOfSeq, LenProperties
<1> QED BY <1>1, <1>2 DEF T

LEMMA TypesGiveTypeOK == TypeInv => TypeOK
<1> SUFFICES ASSUME TypeInv PROVE TypeOK
  OBVIOUS
<1>1. store \in Seq(Ids) /\ Stored \subseteq Recs /\ Recs \subseteq Ids
  BY StoredKnown, SeqMonotonic DEF TypeInv, StoreOK
<1>2. stale \in Partial(Ids, [succ : Ids, hidden : BOOLEAN])
  <2> DEFINE T == [succ : Ids, hidden : BOOLEAN]
  <2>1. Leftover(Recs) \subseteq T
    BY <1>1 DEF Leftover
  <2>2. Partial(Recs, Leftover(Recs)) \subseteq Partial(Ids, T)
    <3> HIDE DEF T
    <3> QED BY <1>1, <2>1, PartialGrows
  <2>3. stale \in Partial(Recs, Leftover(Recs))
    BY DEF TypeInv
  <2> QED BY <2>2, <2>3
<1>3. \A n \in DOMAIN queue : queue[n].id \in Ids /\ queue[n].tries < Attempts
  <2>1. \A n \in DOMAIN queue : queue[n] \in [id : Recs, tries : 0 .. (Attempts - 1)]
    BY QueueHas
  <2>2. \A t \in 0 .. (Attempts - 1) : t < Attempts
    BY SyncAssumption
  <2> QED BY <1>1, <2>1, <2>2
<1>4. /\ worker.pc \in {"off", "next", "call", "touch", "unhide"}
      /\ sync.pc \in {"idle", "list", "again", "classify", "write", "clean"}
      /\ sync.listed \cup sync.news \cup sync.gone \cup sync.fresh \subseteq Ids
  BY <1>1 DEF TypeInv, WorkOK, WorkType, SyncType
<1>5. \A h \in Healers : ToSet(heal[h].line) \cup heal[h].verified \subseteq Ids
  <2> SUFFICES ASSUME NEW h \in Healers PROVE ToSet(heal[h].line) \cup heal[h].verified \subseteq Ids
    OBVIOUS
  <2>1. heal[h].line \in Seq(Recs) /\ heal[h].verified \subseteq Recs
    BY DEF TypeInv, HealOK, HealType
  <2> QED BY <1>1, <2>1, LenProperties DEF ToSet
<1>6. \A j \in Jobs : job[j].old \in Ids \cup {None} /\ job[j].new \in Ids \cup {None}
  BY <1>1 DEF TypeInv, JobOK, JobType
<1> QED BY <1>1, <1>2, <1>3, <1>4, <1>5, <1>6 DEF TypeInv, TypeOK, Recs

\* Every variable has its type, whatever other clients do and whichever calls fail.
THEOREM SyncTypes == Spec => []TypeOK
<1>1. Spec => []TypeInv
  BY InitTypes, NextTypes, PTL DEF Spec
<1> QED BY <1>1, TypesGiveTypeOK, PTL

-----------------------------------------------------------------------------
(* Replaced records are deleted. *)

\* What the server has after a step: a delete brings nothing, an upload a new record.
LEMMA StoredAfter ==
  ASSUME TypeInv
  PROVE  /\ \A i : ToSet(Without(i)) = Stored \ {i}
         /\ \A i, r : i \in Unused /\ Upload(i, r) => Stored' \cap Recs \subseteq Stored
<1>1. \A i : ToSet(Without(i)) = Stored \ {i}
  BY RemoveType DEF TypeInv, StoreOK, Without, Stored
<1>2. ASSUME NEW i \in Unused, NEW r, Upload(i, r) PROVE Stored' \cap Recs \subseteq Stored
  <2> DEFINE s == <<i>> \o store
  <2>1. store \in Seq(Ids) /\ <<i>> \in Seq(Ids) /\ i \notin Recs
    BY SeqMonotonic DEF TypeInv, StoreOK, Unused, Recs
  <2>2. Len(<<i>>) = 1 /\ <<i>>[1] = i /\ Len(store) \in Nat /\ DOMAIN store = 1 .. Len(store)
    BY <2>1, LenProperties
  <2>3. /\ s \in Seq(Ids) /\ Len(s) = Len(<<i>>) + Len(store)
        /\ \A n \in 1 .. Len(<<i>>) + Len(store) :
             s[n] = IF n <= Len(<<i>>) THEN <<i>>[n] ELSE store[n - Len(<<i>>)]
    BY <2>1, ConcatProperties
  <2>4. store' = s
    BY <1>2 DEF Upload
  <2> HIDE DEF s
  <2>5. DOMAIN s = 1 .. 1 + Len(store)
    BY <2>2, <2>3, LenProperties
  <2>6. ASSUME NEW n \in DOMAIN s PROVE s[n] = i \/ s[n] \in Stored
    <3>1. CASE n <= 1
      BY <2>2, <2>3, <2>5, <3>1
    <3>2. CASE ~(n <= 1)
      <4>1. n - 1 \in DOMAIN store /\ n \in 1 .. Len(<<i>>) + Len(store)
        BY <2>2, <2>5, <3>2
      <4>2. s[n] = store[n - 1]
        BY <2>2, <2>3, <3>2, <4>1
      <4> QED BY <4>1, <4>2 DEF Stored, ToSet
    <3> QED BY <3>1, <3>2
  <2>7. Stored' = {s[n] : n \in DOMAIN s}
    BY <2>4 DEF Stored, ToSet
  <2> QED BY <2>1, <2>6, <2>7
<1> QED BY <1>1, <1>2

\* A step that leaves the queue, the worker and the replaced records alone, and lets
\* every job go on that replaces one.
LEMMA QuietDeletes ==
  ASSUME TypeInv, DeletesOK, UNCHANGED <<deletes, hidden>>, Stored' \cap Recs \subseteq Stored,
         budget'.faults \in 0 .. MaxFaults, budget'.faults <= budget.faults,
         \A j \in Jobs : IsReplacing(job[j]) => IsReplacing(job'[j]) /\ job'[j].old = job[j].old
  PROVE  DeletesOK'
<1>1. Failed' >= Failed /\ Failed \in Nat /\ Failed' \in Nat
  BY SyncAssumption DEF Failed, TypeInv, BudgetType
<1>2. Tried'
  <2>1. \A n \in DOMAIN queue : queue[n].tries \in Nat
    <3>1. \A n \in DOMAIN queue : queue[n] \in [id : Recs, tries : 0 .. (Attempts - 1)]
      BY QueueHas
    <3> QED BY <3>1, SyncAssumption
  <2>2. worker.tries \in Nat
    BY DEF TypeInv, WorkOK, WorkType
  <2> QED BY <1>1, <2>1, <2>2 DEF DeletesOK, Tried, deletes
<1>3. Deleted'
  <2>1. worker.pc \in {"touch", "unhide"} => worker.id \in Recs
    BY DEF TypeInv, WorkOK
  <2> QED BY <2>1 DEF DeletesOK, Deleted, deletes
<1>4. OnItsWay'
  <2> SUFFICES ASSUME NEW i \in hidden' \cap Stored'
               PROVE  (Queued(i) \/ worker.id = i \/ Replacing(i) \/ Failed >= Attempts)'
    BY DEF OnItsWay
  <2>1. i \in hidden \cap Stored
    BY DEF TypeInv
  <2>2. Queued(i) \/ worker.id = i \/ Replacing(i) \/ Failed >= Attempts
    BY <2>1 DEF DeletesOK, OnItsWay
  <2>3. Queued(i) => Queued(i)'
    BY DEF Queued, deletes
  <2>4. worker.id = i => worker'.id = i
    BY DEF deletes
  <2>5. Replacing(i) => Replacing(i)'
    BY DEF Replacing
  <2>6. Failed >= Attempts => Failed' >= Attempts
    BY <1>1, SyncAssumption
  <2> QED BY <2>2, <2>3, <2>4, <2>5, <2>6
<1> QED BY <1>2, <1>3, <1>4 DEF DeletesOK

\* A call to delete a record, of whoever makes it.
LEMMA DeleteCalled ==
  ASSUME TypeInv, NEW i, DeleteAnswered(i) \/ DeleteFailed(i)
  PROVE  /\ Stored' \subseteq Stored /\ budget'.faults \in 0 .. MaxFaults /\ budget'.faults <= budget.faults
         /\ DeleteAnswered(i) => Stored' = Stored \ {i}
         /\ DeleteFailed(i) => Failed' = Failed + 1
<1>1. budget \in BudgetType
  BY DEF TypeInv
<1>2. store' \in {store, Without(i)} /\ (DeleteAnswered(i) => store' = Without(i))
  BY DEF DeleteAnswered, DeleteFailed
<1>3. ToSet(Without(i)) = Stored \ {i}
  BY StoredAfter
<1>4. Stored' \subseteq Stored /\ (DeleteAnswered(i) => Stored' = Stored \ {i})
  BY <1>2, <1>3 DEF Stored
<1>5. \/ budget' = budget /\ ~DeleteFailed(i)
      \/ budget.faults > 0 /\ budget'.faults = budget.faults - 1
  BY <1>1 DEF DeleteAnswered, DeleteFailed, BudgetType
<1>6. budget.faults \in 0 .. MaxFaults /\ MaxFaults \in Nat
  BY <1>1, SyncAssumption DEF BudgetType
<1>7. budget'.faults \in 0 .. MaxFaults /\ budget'.faults <= budget.faults
  BY <1>5, <1>6
<1>8. DeleteFailed(i) => Failed' = Failed + 1
  BY <1>5, <1>6 DEF Failed
<1> QED BY <1>4, <1>7, <1>8

\* Steps of the sync thread, of cleaning and of other clients are none of the jobs' and
\* the worker's.
LEMMA OthersDeletes ==
  ASSUME TypeInv, DeletesOK,
         \/ SyncStep \/ FailPage \/ AddElsewhere \/ DeleteElsewhere
         \/ \E h \in Healers : HealStep(h) \/ VerifyLater(h)
  PROVE  DeletesOK'
<1>1. UNCHANGED <<deletes, hidden, job>>
  <2>1. CASE SyncStep
    BY <2>1 DEF SyncStep, StartSync, MorePages, CompareIndex, ConfirmGone, Classify, WriteIndex,
       AnswerPage, ReadPage, journal
  <2>2. CASE FailPage \/ AddElsewhere \/ DeleteElsewhere
    BY <2>2 DEF FailPage, AddElsewhere, DeleteElsewhere, journal
  <2>3. ASSUME NEW h \in Healers, HealStep(h) \/ VerifyLater(h)
        PROVE  UNCHANGED <<deletes, hidden, job>>
    BY <2>3 DEF HealStep, VerifyLater, BeginHeal, PickLeftover, VerifySuccessor, DeleteLeftover,
       DropLeftover, ForgetLeftover, GroupNames, NextGroup, EndHeal, HashNext, ChooseCopies,
       DeleteCopy, DropCopy, TouchCopy, journal
  <2> QED BY <2>1, <2>2, <2>3
<1>2. budget \in BudgetType /\ budget.faults \in 0 .. MaxFaults /\ MaxFaults \in Nat
  BY SyncAssumption DEF TypeInv, BudgetType
<1>3. /\ Stored' \cap Recs \subseteq Stored
      /\ budget'.faults \in 0 .. MaxFaults /\ budget'.faults <= budget.faults
  <2>1. CASE SyncStep
    <3>1. UNCHANGED <<store, budget>>
      BY <2>1 DEF SyncStep, StartSync, MorePages, CompareIndex, ConfirmGone, Classify, WriteIndex,
         AnswerPage, ReadPage, server
    <3> QED BY <1>2, <3>1 DEF Stored
  <2>2. CASE FailPage
    <3>1. store' = store /\ budget' = [budget EXCEPT !.faults = @ - 1] /\ budget.faults > 0
      BY <2>2 DEF FailPage, server
    <3> QED BY <1>2, <3>1 DEF Stored, BudgetType
  <2>3. CASE AddElsewhere
    <3>1. Stored' \cap Recs \subseteq Stored
      BY <2>3, StoredAfter DEF AddElsewhere
    <3>2. budget'.faults = budget.faults
      BY <1>2, <2>3 DEF AddElsewhere, Moved, BudgetType
    <3> QED BY <1>2, <3>1, <3>2
  <2>4. CASE DeleteElsewhere
    <3>1. Stored' \subseteq Stored
      <4>1. PICK i : store' = Without(i)
        BY <2>4 DEF DeleteElsewhere
      <4>2. ToSet(Without(i)) = Stored \ {i}
        BY StoredAfter
      <4> QED BY <4>1, <4>2 DEF Stored
    <3>2. budget'.faults = budget.faults
      BY <1>2, <2>4 DEF DeleteElsewhere, Moved, BudgetType
    <3> QED BY <1>2, <3>1, <3>2
  <2>5. ASSUME NEW h \in Healers, HealStep(h) \/ VerifyLater(h)
        PROVE  /\ Stored' \cap Recs \subseteq Stored
               /\ budget'.faults \in 0 .. MaxFaults /\ budget'.faults <= budget.faults
    <3>1. CASE DeleteLeftover(h) \/ DeleteCopy(h)
      <4>1. PICK i : DeleteAnswered(i) \/ DeleteFailed(i)
        BY <3>1 DEF DeleteLeftover, DeleteCopy
      <4> QED BY <4>1, DeleteCalled
    <3>2. CASE HashNext(h)
      <4>1. budget' \in BudgetType /\ store' = store
        BY <3>2, HashNextTypes DEF TypeInv, HashNext, server
      <4>2. budget'.faults = budget.faults \/ budget'.faults = budget.faults - 1
        BY <1>2, <3>2 DEF HashNext, BudgetType
      <4>3. budget'.faults \in 0 .. MaxFaults
        BY <4>1 DEF BudgetType
      <4> QED BY <1>2, <4>1, <4>2, <4>3 DEF Stored
    <3>3. CASE VerifyLater(h)
      <4>1. store' = store /\ budget' = [budget EXCEPT !.faults = @ - 1] /\ budget.faults > 0
        BY <3>3 DEF VerifyLater, server
      <4> QED BY <1>2, <4>1 DEF Stored, BudgetType
    <3>4. CASE UNCHANGED <<store, budget>>
      BY <1>2, <3>4 DEF Stored
    <3> QED
      BY <2>5, <3>1, <3>2, <3>3, <3>4 DEF HealStep, BeginHeal, PickLeftover, VerifySuccessor,
         DropLeftover, ForgetLeftover, GroupNames, NextGroup, EndHeal, ChooseCopies, DropCopy,
         TouchCopy, server
  <2> QED BY <2>1, <2>2, <2>3, <2>4, <2>5
<1> QED BY <1>1, <1>3, QuietDeletes

\* Steps of a job that do not end it while it replaces a record, and hide none.
LEMMA JobDeletes ==
  ASSUME TypeInv, DeletesOK, NEW j \in Jobs,
         \/ BeginJob(j) \/ UploadNew(j) \/ UploadFails(j) \/ TouchNew(j) \/ InsertNew(j) \/ GetNew(j)
         \/ DeleteNow(j) \/ DropOld(j)
  PROVE  DeletesOK'
<1>0. DOMAIN job = Jobs /\ job[j] \in JobType(Recs) /\ JobOK(Recs, job[j])
  BY DEF TypeInv, JobOK
<1>1. UNCHANGED <<deletes, hidden>>
  BY DEF BeginJob, UploadNew, UploadFails, TouchNew, InsertNew, GetNew, DeleteNow, DropOld, journal
<1>2. budget \in BudgetType /\ budget.faults \in 0 .. MaxFaults /\ MaxFaults \in Nat
  BY SyncAssumption DEF TypeInv, BudgetType
<1>3. \A k \in Jobs : IsReplacing(job[k]) => IsReplacing(job'[k]) /\ job'[k].old = job[k].old
  <2>1. CASE DropOld(j)
    BY <1>0, <2>1 DEF DropOld, IsReplacing, JobType
  <2>2. CASE ~DropOld(j)
    <3>1. ~IsReplacing(job[j])
      BY <1>0, <2>2 DEF IsReplacing, BeginJob, UploadNew, UploadFails, TouchNew, InsertNew, GetNew,
         DeleteNow, JobAt
    <3>2. \E r : job' = [job EXCEPT ![j] = r]
      BY <2>2 DEF BeginJob, UploadNew, UploadFails, TouchNew, InsertNew, GetNew, DeleteNow
    <3> QED BY <1>0, <3>1, <3>2
  <2> QED BY <2>1, <2>2
<1>4. /\ Stored' \cap Recs \subseteq Stored
      /\ budget'.faults \in 0 .. MaxFaults /\ budget'.faults <= budget.faults
  <2>1. CASE UploadNew(j)
    <3>1. Stored' \cap Recs \subseteq Stored
      BY <2>1, StoredAfter DEF UploadNew
    <3>2. budget' = budget \/ (budget.faults > 0 /\ budget' = [budget EXCEPT !.faults = @ - 1])
      BY <2>1 DEF UploadNew
    <3> QED BY <1>2, <3>1, <3>2 DEF BudgetType
  <2>2. CASE UploadFails(j)
    <3>1. store' = store
      BY <2>2 DEF UploadFails, server
    <3>2. budget' = budget \/ (budget.faults > 0 /\ budget' = [budget EXCEPT !.faults = @ - 1])
      BY <2>2 DEF UploadFails
    <3> QED BY <1>2, <3>1, <3>2 DEF BudgetType, Stored
  <2>3. CASE DeleteNow(j)
    BY <2>3, DeleteCalled DEF DeleteNow
  <2>4. CASE BeginJob(j)
    BY <1>2, <2>4 DEF BeginJob, server, Stored, BudgetType
  <2>5. CASE UNCHANGED <<store, budget>>
    BY <1>2, <2>5 DEF Stored
  <2> QED
    BY <2>1, <2>2, <2>3, <2>4, <2>5 DEF TouchNew, InsertNew, GetNew, DropOld, server
<1> QED BY <1>1, <1>3, <1>4, QuietDeletes

\* A record is hidden when the job that replaced it is about to drop it.
LEMMA HideDeletes == ASSUME TypeInv, DeletesOK, NEW j \in Jobs, HideOld(j) PROVE DeletesOK'
<1>0. DOMAIN job = Jobs /\ job[j] \in JobType(Recs) /\ JobOK(Recs, job[j]) /\ job[j].pc = "hide"
  BY DEF TypeInv, JobOK, HideOld, JobAt
<1>1. /\ job' = [job EXCEPT ![j] = [job[j] EXCEPT !.pc = "drop"]]
      /\ hidden' = hidden \cup {job[j].old}
      /\ UNCHANGED <<store, queue, worker, budget>>
  BY DEF HideOld, server, deletes
<1>2. IsReplacing(job'[j]) /\ job'[j].old = job[j].old
  BY <1>0, <1>1 DEF IsReplacing, JobOK, JobType
<1>3. \A k \in Jobs : IsReplacing(job[k]) => IsReplacing(job'[k]) /\ job'[k].old = job[k].old
  BY <1>0, <1>1, <1>2
<1>4. Tried' /\ Deleted'
  BY <1>1 DEF DeletesOK, Tried, Deleted, Failed, Stored
<1>5. OnItsWay'
  <2> SUFFICES ASSUME NEW i \in hidden' \cap Stored'
               PROVE  (Queued(i) \/ worker.id = i \/ Replacing(i) \/ Failed >= Attempts)'
    BY DEF OnItsWay
  <2>1. CASE i = job[j].old
    BY <1>2, <2>1 DEF Replacing
  <2>2. CASE i # job[j].old
    <3>1. i \in hidden \cap Stored
      BY <1>1, <2>2 DEF Stored
    <3>2. Queued(i) \/ worker.id = i \/ Replacing(i) \/ Failed >= Attempts
      BY <3>1 DEF DeletesOK, OnItsWay
    <3>3. Replacing(i) => Replacing(i)'
      BY <1>3 DEF Replacing
    <3> QED BY <1>1, <3>2, <3>3 DEF Queued, Failed
  <2> QED BY <2>1, <2>2
<1> QED BY <1>4, <1>5 DEF DeletesOK

\* A job that ends puts the record that it replaced on the queue.
LEMMA ForgetDeletes == ASSUME TypeInv, DeletesOK, NEW j \in Jobs, ForgetOld(j) PROVE DeletesOK'
<1> DEFINE old == job[j].old
           entry == [id |-> old, tries |-> 0]
<1>0. DOMAIN job = Jobs /\ JobOK(Recs, job[j]) /\ job[j].pc = "forget" /\ old \in Recs
  BY DEF TypeInv, JobOK, ForgetOld, JobAt
<1>1. job' = [job EXCEPT ![j] = NoJob] /\ UNCHANGED <<store, hidden, budget>>
  BY DEF ForgetOld, server
<1>2. \/ job[j].kind = "delete" /\ UNCHANGED <<queue, worker>>
      \/ /\ job[j].kind # "delete" /\ queue' = Append(queue, entry)
         /\ worker' = IF worker.pc = "off" THEN [NoWork EXCEPT !.pc = "next"] ELSE worker
  BY DEF ForgetOld, deletes
<1>3. queue \in QueueType(Recs) /\ worker \in WorkType(Recs) /\ (worker.pc = "off" => worker.id = None)
  BY DEF TypeInv, WorkOK
<1>4. Failed \in Nat /\ Failed' = Failed
  BY <1>1, SyncAssumption DEF Failed, TypeInv, BudgetType
<1>5. /\ worker' = worker \/ (worker.pc = "off" /\ worker'.pc = "next" /\ worker'.id = None)
      /\ \A i \in Recs : worker.id = i => worker'.id = i
  <2>1. None \notin Recs
    BY SyncAssumption DEF TypeInv, StoreOK, None
  <2>2. worker' = worker \/ (worker.pc = "off" /\ worker'.pc = "next" /\ worker'.id = None)
    BY <1>2 DEF NoWork
  <2> QED BY <1>3, <2>1, <2>2
<1>6. /\ \A n \in DOMAIN queue : n \in DOMAIN queue' /\ queue'[n] = queue[n]
      /\ \A n \in DOMAIN queue' : n \in DOMAIN queue \/ queue'[n] = entry
      /\ job[j].kind # "delete" => \E n \in DOMAIN queue' : queue'[n] = entry
  <2>1. CASE job[j].kind = "delete"
    BY <1>2, <2>1
  <2>2. CASE job[j].kind # "delete"
    <3> DEFINE E == [id : Recs, tries : 0 .. (Attempts - 1)]
    <3>1. entry \in E /\ queue \in Seq(E) /\ queue' = Append(queue, entry)
      BY <1>0, <1>2, <1>3, <2>2, SyncAssumption DEF QueueType
    <3>0. QueueType(Recs) = Seq(E)
      BY DEF QueueType
    <3> HIDE DEF entry, E
    <3>2. /\ queue' \in QueueType(Recs) /\ Len(queue') = Len(queue) + 1
          /\ \A n \in 1 .. Len(queue) : queue'[n] = queue[n]
          /\ queue'[Len(queue) + 1] = entry
      BY <3>0, <3>1, AppendProperties
    <3>3. /\ Len(queue) \in Nat /\ DOMAIN queue = 1 .. Len(queue)
          /\ DOMAIN queue' = 1 .. Len(queue) + 1
      BY <1>3, <3>2, LenProperties DEF QueueType
    <3> QED BY <2>2, <3>2, <3>3
  <2> QED BY <2>1, <2>2
<1>7. Tried'
  <2>1. \A n \in DOMAIN queue' : queue'[n].tries <= Failed
    <3>1. entry.tries <= Failed
      BY <1>4
    <3> HIDE DEF entry
    <3> QED BY <1>6, <3>1 DEF DeletesOK, Tried
  <2>2. worker'.pc = "call" => worker'.tries <= Failed
    BY <1>5 DEF DeletesOK, Tried
  <2> QED BY <1>4, <2>1, <2>2 DEF Tried
<1>8. Deleted'
  BY <1>1, <1>5 DEF DeletesOK, Deleted, Stored
<1>9. OnItsWay'
  <2> SUFFICES ASSUME NEW i \in hidden' \cap Stored'
               PROVE  (Queued(i) \/ worker.id = i \/ Replacing(i) \/ Failed >= Attempts)'
    BY DEF OnItsWay
  <2>1. i \in hidden \cap Stored /\ i \in Recs
    BY <1>1 DEF Stored, TypeInv
  <2>2. Queued(i) \/ worker.id = i \/ Replacing(i) \/ Failed >= Attempts
    BY <2>1 DEF DeletesOK, OnItsWay
  <2>3. Queued(i) => Queued(i)'
    BY <1>6 DEF Queued
  <2>4. Replacing(i) => Replacing(i)' \/ Queued(i)'
    <3> SUFFICES ASSUME NEW k \in Jobs, job[k].old = i, IsReplacing(job[k])
                 PROVE  Replacing(i)' \/ Queued(i)'
      BY DEF Replacing
    <3>1. CASE k = j
      <4>1. job[j].kind # "delete" /\ entry.id = i
        BY <3>1 DEF IsReplacing
      <4> HIDE DEF entry
      <4> QED BY <1>6, <4>1 DEF Queued
    <3>2. CASE k # j
      BY <1>0, <1>1, <3>2 DEF Replacing
    <3> QED BY <3>1, <3>2
  <2> QED BY <1>4, <1>5, <2>1, <2>2, <2>3, <2>4
<1> QED BY <1>7, <1>8, <1>9 DEF DeletesOK

\* The worker takes the first of the queue.
LEMMA NextDeletes == ASSUME TypeInv, DeletesOK, NextDelete PROVE DeletesOK'
<1>1. queue \in QueueType(Recs) /\ worker.id = None
  BY DEF TypeInv, WorkOK, NextDelete
<1>2. UNCHANGED <<store, hidden, budget, job>>
  BY DEF NextDelete, server, journal
<1>3. None \notin Recs
  BY SyncAssumption DEF TypeInv, StoreOK, None
<1>4. CASE queue = <<>>
  <2>1. queue' = queue /\ worker'.pc = "off"
    BY <1>4 DEF NextDelete, NoWork
  <2>2. OnItsWay'
    <3> SUFFICES ASSUME NEW i \in hidden' \cap Stored'
                 PROVE  (Queued(i) \/ worker.id = i \/ Replacing(i) \/ Failed >= Attempts)'
      BY DEF OnItsWay
    <3>1. i \in hidden \cap Stored /\ i \in Recs
      BY <1>2 DEF Stored, TypeInv
    <3>2. Queued(i) \/ worker.id = i \/ Replacing(i) \/ Failed >= Attempts
      BY <3>1 DEF DeletesOK, OnItsWay
    <3> QED BY <1>1, <1>2, <1>3, <2>1, <3>1, <3>2 DEF Queued, Replacing, Failed
  <2> QED BY <1>2, <2>1, <2>2 DEF DeletesOK, Tried, Deleted, Failed
<1>5. CASE queue # <<>>
  <2>1. /\ queue' = Tail(queue)
        /\ worker'.pc = "call" /\ worker'.id = Head(queue).id /\ worker'.tries = Head(queue).tries
    BY <1>5 DEF NextDelete
  <2>2. /\ Len(queue) \in Nat \ {0} /\ DOMAIN queue = 1 .. Len(queue)
        /\ DOMAIN queue' = 1 .. Len(queue) - 1
        /\ \A n \in DOMAIN queue' : queue'[n] = queue[n + 1]
        /\ Head(queue) = queue[1]
    <3>1. /\ Tail(queue) \in QueueType(Recs) /\ Len(Tail(queue)) = Len(queue) - 1
          /\ \A n \in 1 .. Len(Tail(queue)) : Tail(queue)[n] = queue[n + 1]
      BY <1>1, <1>5, HeadTailProperties DEF QueueType
    <3>2. Len(queue) \in Nat \ {0} /\ DOMAIN queue = 1 .. Len(queue)
      BY <1>1, <1>5, LenProperties, EmptySeq DEF QueueType
    <3>3. DOMAIN Tail(queue) = 1 .. Len(queue) - 1
      BY <3>1, LenProperties DEF QueueType
    <3>4. Head(queue) = queue[1]
      BY <1>1, <1>5 DEF QueueType
    <3> QED BY <2>1, <3>1, <3>2, <3>3, <3>4
  <2>3. Tried'
    <3>1. \A n \in DOMAIN queue' : n + 1 \in DOMAIN queue
      BY <2>2
    <3>2. 1 \in DOMAIN queue
      BY <2>2
    <3> QED BY <1>2, <2>1, <2>2, <3>1, <3>2 DEF DeletesOK, Tried, Failed
  <2>4. Deleted'
    BY <2>1 DEF Deleted
  <2>5. OnItsWay'
    <3> SUFFICES ASSUME NEW i \in hidden' \cap Stored'
                 PROVE  (Queued(i) \/ worker.id = i \/ Replacing(i) \/ Failed >= Attempts)'
      BY DEF OnItsWay
    <3>1. i \in hidden \cap Stored /\ i \in Recs
      BY <1>2 DEF Stored, TypeInv
    <3>2. Queued(i) \/ worker.id = i \/ Replacing(i) \/ Failed >= Attempts
      BY <3>1 DEF DeletesOK, OnItsWay
    <3>3. Queued(i) => Queued(i)' \/ worker'.id = i
      <4> SUFFICES ASSUME NEW n \in DOMAIN queue, queue[n].id = i PROVE Queued(i)' \/ worker'.id = i
        BY DEF Queued
      <4>1. CASE n = 1
        BY <2>1, <2>2, <4>1
      <4>2. CASE n # 1
        <5>1. n - 1 \in DOMAIN queue' /\ queue'[n - 1] = queue[n]
          BY <2>2, <4>2
        <5> QED BY <5>1 DEF Queued
      <4> QED BY <4>1, <4>2
    <3> QED BY <1>1, <1>2, <1>3, <3>1, <3>2, <3>3 DEF Replacing, Failed
  <2> QED BY <2>3, <2>4, <2>5 DEF DeletesOK
<1> QED BY <1>4, <1>5

\* A call that fails puts the record back, until it has failed often enough.
LEMMA CallDeletes == ASSUME TypeInv, DeletesOK, CallDelete PROVE DeletesOK'
<1> DEFINE id == worker.id
           entry == [id |-> id, tries |-> worker.tries + 1]
           E == [id : Recs, tries : 0 .. (Attempts - 1)]
<1>0. /\ worker \in WorkType(Recs) /\ id \in Recs /\ worker.pc = "call" /\ worker.tries \in Nat
      /\ queue \in Seq(E) /\ None \notin Recs
  BY SyncAssumption DEF TypeInv, WorkOK, WorkType, QueueType, CallDelete, StoreOK, None
<1>1. UNCHANGED <<hidden, job>>
  BY DEF CallDelete, journal
<1>2. /\ Failed \in Nat /\ worker.tries <= Failed
      /\ \A n \in DOMAIN queue : queue[n].tries <= Failed /\ queue[n].tries \in Nat
  <2>1. \A n \in DOMAIN queue : queue[n] \in E
    <3> HIDE DEF E
    <3> QED BY <1>0, LenProperties
  <2> QED BY <1>0, <2>1, SyncAssumption DEF DeletesOK, Tried, Failed, TypeInv, BudgetType
<1>3. CASE DeleteAnswered(id) /\ worker' = [worker EXCEPT !.pc = "touch"] /\ queue' = queue
  <2>1. Stored' = Stored \ {id} /\ budget' = budget
    BY <1>3, DeleteCalled DEF DeleteAnswered
  <2>2. worker'.pc = "touch" /\ worker'.id = id
    BY <1>0, <1>3 DEF WorkType
  <2>3. OnItsWay'
    <3> SUFFICES ASSUME NEW i \in hidden' \cap Stored'
                 PROVE  (Queued(i) \/ worker.id = i \/ Replacing(i) \/ Failed >= Attempts)'
      BY DEF OnItsWay
    <3>1. i \in hidden \cap Stored
      BY <1>1, <2>1
    <3> QED BY <1>1, <1>3, <2>1, <2>2, <3>1 DEF DeletesOK, OnItsWay, Queued, Replacing, Failed
  <2> QED BY <1>3, <2>1, <2>2, <2>3 DEF DeletesOK, Tried, Deleted, Failed
<1>4. CASE /\ DeleteFailed(id) /\ worker' = [NoWork EXCEPT !.pc = "next"]
           /\ queue' = IF worker.tries + 1 < Attempts THEN Append(queue, entry) ELSE queue
  <2>1. Stored' \subseteq Stored /\ Failed' = Failed + 1
    BY <1>4, DeleteCalled
  <2>2. worker'.pc = "next"
    BY <1>4 DEF NoWork
  <2>3. /\ \A n \in DOMAIN queue : n \in DOMAIN queue' /\ queue'[n] = queue[n]
        /\ \A n \in DOMAIN queue' : n \in DOMAIN queue \/ queue'[n] = entry
        /\ worker.tries + 1 < Attempts => \E n \in DOMAIN queue' : queue'[n] = entry
    <3>1. CASE worker.tries + 1 < Attempts
      <4>1. entry \in E /\ queue' = Append(queue, entry)
        BY <1>0, <1>4, <3>1, SyncAssumption
      <4> HIDE DEF entry, E
      <4>2. /\ queue' \in Seq(E) /\ Len(queue') = Len(queue) + 1
            /\ \A n \in 1 .. Len(queue) : queue'[n] = queue[n]
            /\ queue'[Len(queue) + 1] = entry
        BY <1>0, <4>1, AppendProperties
      <4>3. /\ Len(queue) \in Nat /\ DOMAIN queue = 1 .. Len(queue)
            /\ DOMAIN queue' = 1 .. Len(queue) + 1
        BY <1>0, <4>2, LenProperties
      <4> QED BY <4>2, <4>3
    <3>2. CASE ~(worker.tries + 1 < Attempts)
      BY <1>4, <3>2
    <3> QED BY <3>1, <3>2
  <2>4. Tried'
    <3>1. entry.tries <= Failed'
      BY <1>0, <1>2, <2>1
    <3> HIDE DEF entry
    <3>2. \A n \in DOMAIN queue' : queue'[n].tries <= Failed'
      BY <1>2, <2>1, <2>3, <3>1
    <3> QED BY <2>2, <3>2 DEF Tried
  <2>5. OnItsWay'
    <3> SUFFICES ASSUME NEW i \in hidden' \cap Stored'
                 PROVE  (Queued(i) \/ worker.id = i \/ Replacing(i) \/ Failed >= Attempts)'
      BY DEF OnItsWay
    <3>1. Queued(i) \/ worker.id = i \/ Replacing(i) \/ Failed >= Attempts
      BY <1>1, <2>1 DEF DeletesOK, OnItsWay
    <3>2. Queued(i) => Queued(i)'
      BY <2>3 DEF Queued
    <3>3. Replacing(i) => Replacing(i)'
      BY <1>1 DEF Replacing
    <3>4. Failed >= Attempts => Failed' >= Attempts
      BY <1>2, <2>1, SyncAssumption
    <3>5. worker.id = i => Queued(i)' \/ Failed' >= Attempts
      <4>1. CASE worker.tries + 1 < Attempts
        <5>1. entry.id = worker.id
          OBVIOUS
        <5> HIDE DEF entry
        <5> QED BY <2>3, <4>1, <5>1 DEF Queued
      <4>2. CASE ~(worker.tries + 1 < Attempts)
        BY <1>0, <1>2, <2>1, <4>2, SyncAssumption
      <4> QED BY <4>1, <4>2
    <3> QED BY <3>1, <3>2, <3>3, <3>4, <3>5
  <2> QED BY <2>2, <2>4, <2>5 DEF DeletesOK, Deleted
<1> QED BY <1>3, <1>4 DEF CallDelete

\* What the worker does when a record is deleted: the server does not have it any more.
LEMMA WorkerDeletes == ASSUME TypeInv, DeletesOK, TouchDeleted \/ Unhide PROVE DeletesOK'
<1>0. worker \in WorkType(Recs) /\ worker.pc \in {"touch", "unhide"} /\ worker.id \notin Stored
  BY DEF TypeInv, WorkOK, TouchDeleted, Unhide, DeletesOK, Deleted
<1>1. UNCHANGED <<store, budget, queue, job>>
  BY DEF TouchDeleted, Unhide, server
<1>2. hidden' \subseteq hidden
  BY DEF TouchDeleted, Unhide
<1>3. worker'.pc # "call" /\ (worker'.pc \in {"touch", "unhide"} => worker'.id = worker.id)
  BY <1>0 DEF TouchDeleted, Unhide, WorkType, NoWork
<1>4. OnItsWay'
  <2> SUFFICES ASSUME NEW i \in hidden' \cap Stored'
               PROVE  (Queued(i) \/ worker.id = i \/ Replacing(i) \/ Failed >= Attempts)'
    BY DEF OnItsWay
  <2>1. i \in hidden \cap Stored /\ i # worker.id
    BY <1>0, <1>1, <1>2 DEF Stored
  <2> QED BY <1>1, <2>1 DEF DeletesOK, OnItsWay, Queued, Replacing, Failed
<1> QED BY <1>0, <1>1, <1>3, <1>4 DEF DeletesOK, Tried, Deleted, Failed, Stored

LEMMA InitDeletes == Init => DeletesOK
<1> SUFFICES ASSUME Init PROVE DeletesOK
  OBVIOUS
<1>1. DOMAIN queue = {} /\ worker.pc = "off" /\ hidden = {}
  BY DEF Init, NoWork
<1> QED BY <1>1 DEF DeletesOK, Tried, Deleted, OnItsWay

LEMMA NextDeletesOK == TypeInv /\ DeletesOK /\ [Next]_vars => DeletesOK'
<1> SUFFICES ASSUME TypeInv, DeletesOK, [Next]_vars PROVE DeletesOK'
  OBVIOUS
<1>1. CASE UNCHANGED vars
  BY <1>1 DEF vars, server, journal, deletes, DeletesOK, Tried, Deleted, OnItsWay, Queued, Replacing,
     Failed, Stored
<1>2. CASE \/ SyncStep \/ FailPage \/ AddElsewhere \/ DeleteElsewhere
           \/ \E h \in Healers : HealStep(h) \/ VerifyLater(h)
  BY <1>2, OthersDeletes
<1>3. CASE WorkStep
  BY <1>3, NextDeletes, CallDeletes, WorkerDeletes DEF WorkStep
<1>4. ASSUME NEW j \in Jobs, BeginJob(j) \/ JobStep(j) PROVE DeletesOK'
  BY <1>4, JobDeletes, HideDeletes, ForgetDeletes DEF JobStep
<1> QED BY <1>1, <1>2, <1>3, <1>4 DEF Next

\* A replaced record that the server still has is queued, or being deleted, or its job is
\* about to queue it, or as many calls have failed as a delete is tried: none is dropped.
THEOREM ReplacedAreDeleted == Spec => []ReplacedIsDeleted
<1>1. Spec => []TypeInv
  BY InitTypes, NextTypes, PTL DEF Spec
<1>2. Spec => []DeletesOK
  BY <1>1, InitDeletes, NextDeletesOK, PTL DEF Spec
<1>3. DeletesOK => ReplacedIsDeleted
  BY DEF DeletesOK, OnItsWay, Queued, Replacing, Failed, ReplacedIsDeleted
<1> QED BY <1>2, <1>3, PTL
=============================================================================
