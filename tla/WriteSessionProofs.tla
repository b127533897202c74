------------------------- MODULE WriteSessionProofs -------------------------
(***************************************************************************)
(* Proofs about WriteSession.tla: types, the handle counts that decide     *)
(* when a buffer is dropped, and the record that a save replaces.  The     *)
(* inductive invariant says besides what the job of each kind and step     *)
(* holds, that a handle is released once, and that there is room for what  *)
(* the jobs that were taken up may still make.  The last two parts are     *)
(* about what is dropped with a buffer, and about files that are not saved *)
(* yet.                                                                    *)
(***************************************************************************)
EXTENDS WriteSession, FiniteSetTheorems, TLAPS


IdJobs == {"flush", "release", "rename", "truncate"}
IdsMade == 1 .. made.id

\* What the jobs that were taken up may still make fits the bounds.
Room ==
  /\ made.id + Waiting(IdJobs) <= MaxId
  /\ made.fh + Waiting({"open"}) <= MaxFh
  /\ made.file + Waiting({"open"}) <= MaxFile

\* Records, handles and buffers that are referred to have been made.
Known ==
  /\ index \subseteq IdsMade
  /\ \A i \in Inos : node[i].kind = "remote" => node[i].id \in IdsMade
  /\ \A fh \in Fhs : handle[fh] # 0 => fh <= made.fh
  /\ \A fh \in open : handle[fh] # 0

\* The job of a save: its handle is open on the inode until it closes it itself, and
\* what it uploaded is in the record it made.
SaveJob(j) ==
  /\ j.fh \in Fhs /\ handle[j.fh] # 0
  /\ j.kind = "flush" <=> j.fh \in open
  /\ j.pc \in {"lock", "create", "upload", "drop", "settle", "repoint", "close"}
  /\ j.pc = "close" => j.kind = "release"
  /\ j.pc \in {"lock", "create", "upload"} => j.new = 0
  /\ j.pc \notin {"lock", "close"} => j.file \in Files /\ j.ino \in Inos
  /\ j.pc \in {"drop", "settle", "repoint"} => j.new \in IdsMade /\ rec[j.new].ver = j.ver

OpenJob(j) == j.pc = "attach" /\ j.ino \in Inos /\ j.id \in IdsMade /\ j.new = 0

TruncateJob(j) ==
  /\ j.pc \in {"upload", "drop", "repoint"} /\ j.ino \in Inos /\ j.id \in IdsMade
  /\ j.victim = 0
  /\ IF j.pc = "upload" THEN j.new = 0 ELSE j.new \in IdsMade

UnlinkJob(j) == j.pc \in {"delete", "discard"} /\ j.id \in IdsMade /\ j.name \in Names

RenameJob(j) ==
  /\ j.pc \in {"upload", "drop", "delete", "discard", "repoint"}
  /\ j.id \in IdsMade /\ j.name \in Names /\ rec[j.id].name \in Names
  /\ rec[j.id].ver = j.ver
  /\ j.pc \in {"delete", "discard"} => j.victim # 0
  /\ IF j.pc = "upload" THEN j.new = 0 ELSE j.new \in IdsMade /\ rec[j.new].ver = j.ver

JobShape(w) ==
  \/ job[w] = NoJob
  \/ Commits(w) /\ SaveJob(job[w])
  \/ job[w].kind = "open" /\ OpenJob(job[w])
  \/ job[w].kind = "truncate" /\ TruncateJob(job[w])
  \/ job[w].kind = "unlink" /\ UnlinkJob(job[w])
  \/ job[w].kind = "rename" /\ RenameJob(job[w])

\* A handle is released once.
OneRelease ==
  \A v, w \in Workers :
    job[v].kind = "release" /\ job[w].kind = "release" /\ v # w => job[v].fh # job[w].fh

\* The record behind a buffer exists.
Based ==
  \A f \in Files : target[f].kind = "existing" => target[f].id \in IdsMade

IInv ==
  /\ TypeOK /\ Room /\ Known /\ OneRelease /\ HandlesCounted /\ Based /\ TargetIsBase
  /\ \A w \in Workers : JobShape(w)
-----------------------------------------------------------------------------
\* The least number of a set is a member of it.
LEMMA MinMember ==
  ASSUME NEW S \in SUBSET Nat, S # {}
  PROVE  Min(S) \in S /\ \A y \in S : Min(S) <= y
<1> DEFINE Below(x) == {y \in S : y <= x}
           T == {Below(x) : x \in S}
<1>1. T \subseteq FiniteSubsetsOf(Nat)
  <2>1. ASSUME NEW x \in S PROVE Below(x) \subseteq Nat /\ IsFiniteSet(Below(x))
    <3>1. Below(x) \in SUBSET Nat /\ x \in Nat /\ \A s \in Below(x) : s <= x
      OBVIOUS
    <3> HIDE DEF Below
    <3> QED BY <3>1, FS_BoundedSetOfNaturals
  <2> QED BY <2>1 DEF FiniteSubsetsOf
<1>2. T # {}
  OBVIOUS
<1>3. PICK B \in T : \A C \in T : ~ (<<C, B>> \in StrictSubsetOrdering(Nat))
  <2> HIDE DEF T
  <2> QED BY <1>1, <1>2, WFMin, FS_StrictSubsetOrderingWellFounded
<1>4. PICK x \in S : B = Below(x)
  BY <1>3
<1>5. ASSUME NEW y \in S, y < x PROVE FALSE
  <2>1. x \in Nat /\ y \in Nat
    OBVIOUS
  <2>2. /\ Below(y) \subseteq Below(x)
        /\ x \in Below(x) /\ x \notin Below(y)
    <3>1. \A z \in S : z <= y => z <= x
      BY <1>5, <2>1
    <3>2. x <= x /\ ~(x <= y)
      BY <1>5, <2>1
    <3> QED BY <3>1, <3>2
  <2>3. <<Below(y), B>> \in StrictSubsetOrdering(Nat)
    BY <2>2, <1>1, <1>4 DEF StrictSubsetOrdering, FiniteSubsetsOf
  <2> QED BY <2>3, <1>3
<1>6. \A y \in S : x <= y
  BY <1>5
<1> QED BY <1>6 DEF Min

\* The holder of a name is a record of the index, with that name.
LEMMA HolderType ==
  ASSUME TypeOK, NEW n
  PROVE  Holder(n) # 0 => Holder(n) \in index /\ rec[Holder(n)].name = n
<1> DEFINE held == {id \in index : rec[id].name = n}
<1>1. held \in SUBSET Nat
  <2>1. index \subseteq Nat
    BY DEF TypeOK, Ids
  <2> QED BY <2>1
<1>2. CASE held = {}
  BY <1>2 DEF Holder
<1>3. CASE held # {}
  <2>1. Holder(n) = Min(held)
    BY <1>3 DEF Holder
  <2>2. Min(held) \in held
    <3> HIDE DEF held
    <3> QED BY <1>1, <1>3, MinMember
  <2> QED BY <2>1, <2>2
<1> QED BY <1>2, <1>3

\* free_name always finds a copy that is free: there are more copies than records.
LEMMA FreeNameType ==
  ASSUME TypeOK, NEW n \in Nat
  PROVE  FreeName(n) \in Nat
<1> DEFINE K == 0 .. MaxId
           free == {m \in Copies(n) : Holder(m) = 0}
           h == [k \in K |-> Holder(n + k * NNames)]
<1>1. MaxId \in Nat /\ NNames \in Nat \ {0}
  BY SessionAssumption
<1>2. free \in SUBSET Nat
  BY <1>1 DEF Copies
<1>3. free # {}
  <2> SUFFICES ASSUME free = {} PROVE FALSE
    OBVIOUS
  <2>1. \A k \in K : h[k] \in Ids /\ rec[h[k]].name = n + k * NNames
    BY HolderType, <1>1 DEF Copies, TypeOK
  <2>2. h \in [K -> Ids]
    BY <2>1
  <2>3. IsFiniteSet(K) /\ Cardinality(K) = MaxId + 1
    BY <1>1, FS_Interval
  <2>4. IsFiniteSet(Ids) /\ Cardinality(Ids) < MaxId + 1
    <3>1. /\ IsFiniteSet(1 .. MaxId)
          /\ Cardinality(1 .. MaxId) = IF 1 > MaxId THEN 0 ELSE MaxId - 1 + 1
      BY <1>1, FS_Interval
    <3> QED BY <1>1, <3>1 DEF Ids
  <2>5. PICK x, y \in K : x # y /\ h[x] = h[y]
    <3> HIDE DEF h, K
    <3> QED BY <2>2, <2>3, <2>4, FS_PigeonHole
  <2>6. n + x * NNames = n + y * NNames
    BY <2>1, <2>5
  <2>7. x = y
    BY <2>6, <1>1
  <2> QED BY <2>5, <2>7
<1>4. Min(free) \in free
  <2> HIDE DEF free
  <2> QED BY <1>2, <1>3, MinMember
<1> QED BY <1>2, <1>4 DEF FreeName
-----------------------------------------------------------------------------
(* Counting.                                                               *)

Waits(w, kinds) == job[w].kind \in kinds /\ job[w].new = 0

\* The jobs that wait are finitely many.
LEMMA WaitingType ==
  ASSUME NEW K
  PROVE  /\ IsFiniteSet({v \in Workers : Waits(v, K)})
         /\ Waiting(K) = Cardinality({v \in Workers : Waits(v, K)}) /\ Waiting(K) \in Nat
<1>1. IsFiniteSet(Workers)
  BY SessionAssumption
<1>2. {v \in Workers : Waits(v, K)} \in SUBSET Workers
  OBVIOUS
<1>3. IsFiniteSet({v \in Workers : Waits(v, K)})
  BY <1>1, <1>2, FS_Subset
<1>4. Waiting(K) = Cardinality({v \in Workers : Waits(v, K)})
  BY DEF Waiting, Waits
<1> QED BY <1>3, <1>4, FS_CardinalityType

\* No job starts to wait.
LEMMA WaitingShrinks ==
  ASSUME NEW K, \A v \in Workers : Waits(v, K)' => Waits(v, K)
  PROVE  Waiting(K)' <= Waiting(K) /\ Waiting(K)' \in Nat
<1> DEFINE S == {v \in Workers : Waits(v, K)}
           T == {v \in Workers : Waits(v, K)'}
<1>1. IsFiniteSet(S) /\ Waiting(K) = Cardinality(S)
  BY WaitingType
<1>2. T \in SUBSET S
  OBVIOUS
<1>3. Waiting(K)' = Cardinality(T)
  BY DEF Waiting, Waits
<1>4. IsFiniteSet(T) /\ Cardinality(T) <= Cardinality(S)
  <2> HIDE DEF S, T
  <2> QED BY <1>1, <1>2, FS_Subset
<1>5. Cardinality(T) \in Nat
  BY <1>4, FS_CardinalityType
<1> QED BY <1>1, <1>3, <1>4, <1>5

\* One job may start to wait.
LEMMA WaitingGrows ==
  ASSUME NEW K, NEW w \in Workers, \A v \in Workers \ {w} : Waits(v, K)' => Waits(v, K)
  PROVE  Waiting(K)' <= Waiting(K) + 1 /\ Waiting(K)' \in Nat
<1> DEFINE S == {v \in Workers : Waits(v, K)}
           T == {v \in Workers : Waits(v, K)'}
<1>1. IsFiniteSet(S) /\ Waiting(K) = Cardinality(S) /\ Waiting(K) \in Nat
  BY WaitingType
<1>2. T \in SUBSET (S \cup {w})
  OBVIOUS
<1>3. Waiting(K)' = Cardinality(T)
  BY DEF Waiting, Waits
<1>4. IsFiniteSet(T) /\ Cardinality(T) <= Cardinality(S) + 1
  <2> HIDE DEF S, T
  <2>1. IsFiniteSet(S \cup {w}) /\ Cardinality(S \cup {w}) <= Cardinality(S) + 1
    BY <1>1, FS_AddElement, FS_CardinalityType
  <2>2. IsFiniteSet(T) /\ Cardinality(T) <= Cardinality(S \cup {w})
    BY <2>1, <1>2, FS_Subset
  <2>3. Cardinality(T) \in Nat /\ Cardinality(S) \in Nat /\ Cardinality(S \cup {w}) \in Nat
    BY <2>1, <2>2, <1>1, FS_CardinalityType
  <2> QED BY <2>1, <2>2, <2>3
<1>5. Cardinality(T) \in Nat
  BY <1>4, FS_CardinalityType
<1> QED BY <1>1, <1>3, <1>4, <1>5

\* A job that waited made what it waited for.
LEMMA WaitingDone ==
  ASSUME NEW K, NEW w \in Workers, Waits(w, K), ~Waits(w, K)',
         \A v \in Workers : Waits(v, K)' => Waits(v, K)
  PROVE  Waiting(K)' + 1 <= Waiting(K) /\ Waiting(K)' \in Nat
<1> DEFINE S == {v \in Workers : Waits(v, K)}
           T == {v \in Workers : Waits(v, K)'}
<1>1. IsFiniteSet(S) /\ Waiting(K) = Cardinality(S) /\ Waiting(K) \in Nat
  BY WaitingType
<1>2. T \in SUBSET (S \ {w}) /\ w \in S
  OBVIOUS
<1>3. Waiting(K)' = Cardinality(T)
  BY DEF Waiting, Waits
<1>4. IsFiniteSet(T) /\ Cardinality(T) + 1 <= Cardinality(S)
  <2> HIDE DEF S, T
  <2>1. IsFiniteSet(S \ {w}) /\ Cardinality(S \ {w}) = Cardinality(S) - 1
    BY <1>1, <1>2, FS_RemoveElement
  <2>2. IsFiniteSet(T) /\ Cardinality(T) <= Cardinality(S \ {w})
    BY <2>1, <1>2, FS_Subset
  <2>3. Cardinality(T) \in Nat /\ Cardinality(S) \in Nat
    BY <2>1, <2>2, <1>1, FS_CardinalityType
  <2> QED BY <2>1, <2>2, <2>3
<1>5. Cardinality(T) \in Nat
  BY <1>4, FS_CardinalityType
<1> QED BY <1>1, <1>3, <1>4, <1>5

\* The write handles of an inode.
HandlesOf(i) == {fh \in Fhs : handle[fh] = i}

\* An inode has finitely many handles.
LEMMA HandlesFinite ==
  ASSUME NEW i
  PROVE  IsFiniteSet(HandlesOf(i)) /\ Cardinality(HandlesOf(i)) \in Nat
<1>1. IsFiniteSet(Fhs)
  <2>1. MaxFh \in Int /\ 1 \in Int
    BY SessionAssumption
  <2> QED BY <2>1, FS_Interval DEF Fhs
<1>2. HandlesOf(i) \in SUBSET Fhs
  BY DEF HandlesOf
<1> QED BY <1>1, <1>2, FS_Subset, FS_CardinalityType

\* alloc_fh: one handle more for one inode.
LEMMA HandleAdded ==
  ASSUME TypeOK, NEW fh \in Fhs, handle[fh] = 0, NEW i \in Inos,
         handle' = [handle EXCEPT ![fh] = i]
  PROVE  /\ Cardinality(HandlesOf(i))' = Cardinality(HandlesOf(i)) + 1
         /\ \A k \in Inos \ {i} : HandlesOf(k)' = HandlesOf(k)
<1>1. i # 0 /\ \A k \in Inos : k # 0
  BY DEF Inos
<1>2. HandlesOf(i)' = HandlesOf(i) \cup {fh}
  BY <1>1 DEF HandlesOf, TypeOK
<1>3. fh \notin HandlesOf(i)
  BY <1>1 DEF HandlesOf
<1>4. Cardinality(HandlesOf(i) \cup {fh}) = Cardinality(HandlesOf(i)) + 1
  BY <1>3, HandlesFinite, FS_AddElement
<1>5. \A k \in Inos \ {i} : HandlesOf(k)' = HandlesOf(k)
  BY <1>1 DEF HandlesOf, TypeOK
<1> QED BY <1>2, <1>4, <1>5

\* close_write_handle: one handle less for one inode.
LEMMA HandleRemoved ==
  ASSUME TypeOK, NEW fh \in Fhs, NEW i \in Inos, handle[fh] = i,
         handle' = [handle EXCEPT ![fh] = 0]
  PROVE  /\ Cardinality(HandlesOf(i))' = Cardinality(HandlesOf(i)) - 1
         /\ \A k \in Inos \ {i} : HandlesOf(k)' = HandlesOf(k)
<1>1. \A k \in Inos : k # 0
  BY DEF Inos
<1>2. HandlesOf(i)' = HandlesOf(i) \ {fh}
  BY <1>1 DEF HandlesOf, TypeOK
<1>3. fh \in HandlesOf(i)
  BY DEF HandlesOf
<1>4. Cardinality(HandlesOf(i) \ {fh}) = Cardinality(HandlesOf(i)) - 1
  BY <1>3, HandlesFinite, FS_RemoveElement
<1>5. \A k \in Inos \ {i} : HandlesOf(k)' = HandlesOf(k)
  BY <1>1 DEF HandlesOf, TypeOK
<1> QED BY <1>2, <1>4, <1>5
-----------------------------------------------------------------------------
(* What a step may make is within the bounds.                              *)

\* A job that waits is counted.
LEMMA WaitingSome ==
  ASSUME NEW K, NEW w \in Workers, Waits(w, K)
  PROVE  Waiting(K) \in Nat /\ Waiting(K) >= 1
<1> DEFINE S == {v \in Workers : Waits(v, K)}
<1>1. IsFiniteSet(S) /\ Waiting(K) = Cardinality(S) /\ Waiting(K) \in Nat
  BY WaitingType
<1>2. S # {}
  OBVIOUS
<1>3. Cardinality(S) # 0
  <2> HIDE DEF S
  <2> QED BY <1>1, <1>2, FS_EmptySet
<1> QED BY <1>1, <1>3

\* The numbers of what is made next.
LEMMA NextNumbers ==
  ASSUME TypeOK
  PROVE  /\ Made("id") = made.id + 1 /\ Made("ino") = made.ino + 1 /\ Made("file") = made.file + 1
         /\ Made("fh") = made.fh + 1 /\ Made("ver") = made.ver + 1
         /\ {made.id, made.ino, made.file, made.fh, made.ver} \subseteq Nat
         /\ {MaxId, MaxCreate, MaxFile, MaxFh} \subseteq Nat
  BY SessionAssumption DEF TypeOK, Counts, Made

\* A job that waits, and a request that was let in, may make what they need.
LEMMA RoomToMake ==
  ASSUME TypeOK, Room
  PROVE  /\ \A w \in Workers : Waits(w, IdJobs) => Made("id") \in Ids
         /\ \A w \in Workers : Waits(w, {"open"}) => Made("fh") \in Fhs /\ Made("file") \in Files
         /\ RoomForId => Made("id") \in Ids
         /\ RoomForOpen => Made("fh") \in Fhs /\ Made("file") \in Files
         /\ made.fh + Waiting({"open"}) < MaxFh => Made("fh") \in Fhs
<1>1. \A w \in Workers : Waits(w, IdJobs) => Made("id") \in Ids
  BY WaitingSome, NextNumbers DEF Room, Ids
<1>2. \A w \in Workers : Waits(w, {"open"}) => Made("fh") \in Fhs /\ Made("file") \in Files
  BY WaitingSome, NextNumbers DEF Room, Fhs, Files
<1>3. Waiting(IdJobs) \in Nat /\ Waiting({"open"}) \in Nat
  BY WaitingType
<1>4. RoomForId => Made("id") \in Ids
  BY <1>3, NextNumbers DEF RoomForId, IdJobs, Ids
<1>5. made.fh + Waiting({"open"}) < MaxFh => Made("fh") \in Fhs
  BY <1>3, NextNumbers DEF Fhs
<1>6. RoomForOpen => Made("fh") \in Fhs /\ Made("file") \in Files
  BY <1>3, NextNumbers DEF RoomForOpen, Fhs, Files
<1> QED BY <1>1, <1>2, <1>4, <1>5, <1>6

\* A handle's inode has a buffer.
LEMMA HandleHasBuffer ==
  ASSUME TypeOK, HandlesCounted, NEW fh \in Fhs, handle[fh] # 0
  PROVE  handle[fh] \in Inos /\ writer[handle[fh]].file \in Files
<1>1. handle[fh] \in Inos
  BY DEF TypeOK, OptIno
<1>2. fh \in HandlesOf(handle[fh])
  BY DEF HandlesOf
<1>3. Cardinality(HandlesOf(handle[fh])) # 0
  BY <1>2, HandlesFinite, FS_EmptySet
<1>4. writer[handle[fh]].handles # 0
  BY <1>1, <1>3 DEF HandlesCounted, HandlesOf
<1> QED BY <1>1, <1>4 DEF HandlesCounted, TypeOK
-----------------------------------------------------------------------------
(* Types. *)

VaultOK == index \subseteq Ids /\ rec \in [Ids -> [name : Nat, ver : Nat]]

\* What JobShape says of a job that is about to upload, to drop or to delete.
LEMMA UploadWaits ==
  ASSUME IInv, NEW w \in Workers
  PROVE  /\ Commits(w) /\ job[w].pc \in {"upload", "create"} => Waits(w, IdJobs)
         /\ job[w].kind \in {"truncate", "rename"} /\ job[w].pc = "upload" => Waits(w, IdJobs)
         /\ job[w].kind = "open" => Waits(w, {"open"})
<1>1. JobShape(w)
  BY DEF IInv
<1> QED
  BY <1>1 DEF JobShape, Waits, IdJobs, Commits, SaveJob, TruncateJob, RenameJob, OpenJob,
     NoJob

\* What a job names is a record, a buffer, an inode or a name.
LEMMA JobIds ==
  ASSUME IInv, NEW w \in Workers
  PROVE  /\ job[w].kind = "truncate" => job[w].id \in Ids /\ job[w].ino \in Inos
         /\ job[w].kind = "open" => job[w].id \in Ids /\ job[w].ino \in Inos
         /\ job[w].kind = "unlink" => job[w].id \in Ids /\ job[w].name \in Names
         /\ job[w].kind = "rename" => /\ job[w].id \in Ids /\ job[w].name \in Names
                                     /\ rec[job[w].id].name \in Names
         /\ job[w].kind \in {"truncate", "rename"} /\ job[w].pc # "upload" => job[w].new \in Ids
         /\ Saving(w, "drop") \/ Saving(w, "settle") \/ Saving(w, "repoint") =>
              /\ job[w].new \in Ids /\ job[w].file \in Files /\ job[w].ino \in Inos
<1>1. JobShape(w) /\ IdsMade \subseteq Ids
  <2>1. Waiting(IdJobs) \in Nat
    BY WaitingType
  <2> QED BY <2>1, NextNumbers DEF IInv, Room, IdsMade, Ids
<1>2. CASE job[w].kind \in {"flush", "release"}
  BY <1>1, <1>2 DEF JobShape, Commits, Saving, SaveJob, NoJob
<1>3. CASE job[w].kind \notin {"flush", "release"}
  BY <1>1, <1>3 DEF JobShape, Commits, Saving, TruncateJob, RenameJob, OpenJob, UnlinkJob, NoJob
<1> QED BY <1>2, <1>3

\* ingest_record keeps the types of the index.
LEMMA IngestType ==
  ASSUME VaultOK, Made("id") \in Ids, NEW n \in Nat, NEW v \in Nat, Ingest(n, v)
  PROVE  VaultOK'
  BY DEF VaultOK, Ingest

\* The records and the index.
LEMMA VaultNext == IInv /\ [Next]_vars => VaultOK'
<1> SUFFICES ASSUME IInv, [Next]_vars
             PROVE  VaultOK'
  OBVIOUS
<1>0. VaultOK /\ TypeOK /\ Room
  BY DEF IInv, TypeOK, VaultOK
<1> USE DEF VaultOK
<1>1. ASSUME NEW w \in Workers, Upload(w)
      PROVE  VaultOK'
  <2>1. Made("id") \in Ids /\ Ingest(job[w].name, job[w].ver)
    BY <1>1, <1>0, UploadWaits, RoomToMake DEF Upload
  <2>2. job[w].name \in Nat /\ job[w].ver \in Nat
    BY <1>1, <1>0, NextNumbers DEF Upload, TypeOK, Job
  <2> QED
    BY <1>0, <2>1, <2>2, IngestType
<1>2. ASSUME NEW w \in Workers, UploadCut(w)
      PROVE  VaultOK'
  <2>1. Made("id") \in Ids /\ Ingest(rec[job[w].id].name, Made("ver"))
    BY <1>2, <1>0, UploadWaits, RoomToMake DEF UploadCut, Doing
  <2>2. rec[job[w].id].name \in Nat /\ Made("ver") \in Nat
    BY <1>2, <1>0, JobIds, NextNumbers DEF UploadCut, Doing, TypeOK
  <2> QED
    BY <1>0, <2>1, <2>2, IngestType
<1>3. ASSUME NEW w \in Workers, UploadRenamed(w)
      PROVE  VaultOK'
  <2>1. Made("id") \in Ids /\ Ingest(job[w].name, job[w].ver)
    BY <1>3, <1>0, UploadWaits, RoomToMake DEF UploadRenamed, Doing
  <2>2. job[w].name \in Nat /\ job[w].ver \in Nat
    BY <1>3, <1>0, NextNumbers DEF UploadRenamed, Doing, TypeOK, Job
  <2> QED
    BY <1>0, <2>1, <2>2, IngestType
<1>4. ASSUME NEW n \in Names, AddedElsewhere(n)
      PROVE  VaultOK'
  <2>1. Made("id") \in Ids /\ Ingest(n, Made("ver"))
    BY <1>4, <1>0, RoomToMake DEF AddedElsewhere
  <2>2. n \in Nat /\ Made("ver") \in Nat
    BY <1>0, NextNumbers DEF Names
  <2> QED
    BY <1>0, <2>1, <2>2, IngestType
<1>5. ASSUME NEW w \in Workers, DropReplaced(w)
      PROVE  VaultOK'
  BY <1>5, <1>0 DEF DropReplaced, Hide
<1>6. ASSUME NEW w \in Workers, DropOld(w)
      PROVE  VaultOK'
  BY <1>6, <1>0 DEF DropOld, Hide
<1>7. ASSUME NEW w \in Workers, Delete(w)
      PROVE  VaultOK'
  BY <1>7, <1>0 DEF Delete, Hide
<1>8. ASSUME NEW id \in Ids, RemovedElsewhere(id)
      PROVE  VaultOK'
  BY <1>8, <1>0 DEF RemovedElsewhere, Hide
<1>9. ASSUME SetLen
      PROVE  UNCHANGED <<index, rec>>
  BY <1>9 DEF SetLen, vault
<1>10. ASSUME NEW n \in Names,
             Create(n) \/ Lookup(n) \/ OpenShared(n) \/ Truncate(n) \/ UnlinkPending(n)
      PROVE  UNCHANGED <<index, rec>>
  BY <1>10 DEF Create, Lookup, OpenShared, Truncate, UnlinkPending, vault
<1>11. ASSUME NEW n \in Names, NEW w \in Workers,
             OpenRemote(n, w) \/ TruncateRemote(n, w) \/ UnlinkRemote(n, w)
      PROVE  UNCHANGED <<index, rec>>
  BY <1>11 DEF OpenRemote, TruncateRemote, UnlinkRemote, vault
<1>12. ASSUME NEW n \in Names, NEW to \in Names, NEW w \in Workers,
             Rename(n, to, w)
      PROVE  UNCHANGED <<index, rec>>
  BY <1>12 DEF Rename, vault
<1>13. ASSUME NEW fh \in Fhs,
             Write(fh) \/ FlushClean(fh) \/ ReleaseClean(fh)
      PROVE  UNCHANGED <<index, rec>>
  BY <1>13 DEF Write, FlushClean, ReleaseClean, vault
<1>14. ASSUME NEW fh \in Fhs, NEW w \in Workers,
             Flush(fh, w) \/ ReleaseDirty(fh, w)
      PROVE  UNCHANGED <<index, rec>>
  BY <1>14 DEF Flush, ReleaseDirty, vault
<1>15. ASSUME NEW w \in Workers,
             BeginCommit(w) \/ UploadFails(w) \/ Settle(w) \/ RepointSaved(w) \/
             CloseReleased(w) \/ AttachLoaded(w) \/ JobFails(w) \/ RepointCut(w) \/
             KeepsVictim(w) \/ DiscardUnlinked(w) \/ DiscardVictim(w) \/
             RepointRenamed(w)
      PROVE  UNCHANGED <<index, rec>>
  BY <1>15 DEF BeginCommit, UploadFails, Settle, RepointSaved, CloseReleased,
     AttachLoaded, JobFails, RepointCut, KeepsVictim, DiscardUnlinked, DiscardVictim,
     RepointRenamed, vault
<1>16. ASSUME UNCHANGED <<index, rec>>
      PROVE  VaultOK'
  BY <1>16, <1>0
<1> QED
  BY <1>1, <1>2, <1>3, <1>4, <1>5, <1>6, <1>7, <1>8, <1>9, <1>10, <1>11, <1>12,
     <1>13, <1>14, <1>15, <1>16
  DEF Next, Request, JobStep, CommitStep, OtherStep, vars, vault, inodes, buffers, kernel
InodesOK ==
  /\ node \in [Inos -> Node] /\ inoOf \in [Ids -> OptIno] /\ pending \in [Names -> OptIno]

\* repoint_ino_to keeps the types of the inodes.
LEMMA RepointType ==
  ASSUME InodesOK, NEW i \in Inos, NEW old, NEW new \in Ids, Repoint(i, old, new)
  PROVE  InodesOK'
<1>1. Remote(new) \in Node
  BY DEF Remote, Node, OptId
<1>2. /\ node' = [node EXCEPT ![i] = Remote(new)]
      /\ inoOf' = [id \in Ids |-> IF id = new THEN i
                                  ELSE IF id = old /\ inoOf[id] = i THEN 0 ELSE inoOf[id]]
      /\ pending' = [n \in Names |-> IF node[i] = Pending(n) THEN 0 ELSE pending[n]]
  BY DEF Repoint
<1>3. node' \in [Inos -> Node]
  BY <1>1, <1>2 DEF InodesOK
<1>4. inoOf' \in [Ids -> OptIno]
  BY <1>2 DEF InodesOK, OptIno
<1>5. pending' \in [Names -> OptIno]
  BY <1>2 DEF InodesOK, OptIno
<1> QED BY <1>3, <1>4, <1>5 DEF InodesOK

\* The inode that a lookup gives a record.
LEMMA LookupType ==
  ASSUME TypeOK, NEW id \in Ids
  PROVE  InoForRemote(id) \in Inos
<1>1. inoOf[id] \in Inos \cup {0}
  BY DEF TypeOK, OptIno
<1>2. MaxCreate \in Nat /\ MaxId \in Nat /\ id \in 1 .. MaxId
  BY SessionAssumption DEF Ids
<1>3. MaxCreate + id \in Inos
  BY <1>2 DEF Inos
<1> QED BY <1>1, <1>3 DEF InoForRemote, HashedIno

\* A created file gets an inode within the bound.
LEMMA CreateIno == ASSUME TypeOK, made.ino < MaxCreate PROVE Made("ino") \in Inos
  BY NextNumbers, SessionAssumption DEF Inos

\* The inodes, their ids and the names of unsaved files.
LEMMA InodesNext == IInv /\ [Next]_vars => InodesOK'
<1> SUFFICES ASSUME IInv, [Next]_vars
             PROVE  InodesOK'
  OBVIOUS
<1>0. InodesOK /\ TypeOK
  BY DEF IInv, TypeOK, InodesOK
<1>1. ASSUME NEW n \in Names, Create(n)
      PROVE  InodesOK'
  <2>1. /\ node' = [node EXCEPT ![Made("ino")] = Pending(n)]
        /\ pending' = [pending EXCEPT ![n] = Made("ino")] /\ inoOf' = inoOf
    BY <1>1 DEF Create
  <2>2. Made("ino") \in Inos /\ Pending(n) \in Node
    BY <1>1, <1>0, CreateIno DEF Create, Pending, Node, Names, OptId
  <2> QED
    BY <1>0, <2>1, <2>2 DEF InodesOK, OptIno
<1>2. ASSUME NEW n \in Names, Lookup(n)
      PROVE  InodesOK'
  <2>1. CASE UNCHANGED <<node, inoOf>>
    BY <1>2, <1>0, <2>1 DEF Lookup, InodesOK
  <2>2. CASE Holder(n) # 0 /\ ~UNCHANGED <<node, inoOf>>
    <3> DEFINE id == Holder(n)
               i == InoForRemote(id)
    <3>1. /\ inoOf' = [inoOf EXCEPT ![id] = i] /\ pending' = pending
          /\ node' = [node EXCEPT ![i] = IF inoOf[id] # 0 THEN @ ELSE Remote(id)]
      BY <1>2, <2>2 DEF Lookup
    <3>2. id \in Ids /\ i \in Inos
      BY <1>0, <2>2, HolderType, LookupType DEF TypeOK
    <3>3. Remote(id) \in Node
      BY <3>2 DEF Remote, Node, OptId
    <3> HIDE DEF id, i
    <3> QED
      BY <1>0, <3>1, <3>2, <3>3 DEF InodesOK, OptIno
  <2> QED
    BY <1>2, <2>1, <2>2 DEF Lookup
<1>3. ASSUME NEW n \in Names, UnlinkPending(n)
      PROVE  InodesOK'
  <2>1. /\ node' = [node EXCEPT ![pending[n]] = NoNode]
        /\ pending' = [pending EXCEPT ![n] = 0] /\ inoOf' = inoOf
    BY <1>3 DEF UnlinkPending
  <2>2. NoNode \in Node
    BY DEF NoNode, Node, OptId
  <2> QED
    BY <1>0, <2>1, <2>2 DEF InodesOK, OptIno
<1>4. ASSUME NEW w \in Workers, RepointSaved(w)
      PROVE  InodesOK'
  BY <1>4, <1>0, JobIds, RepointType DEF RepointSaved
<1>5. ASSUME NEW w \in Workers, RepointCut(w)
      PROVE  InodesOK'
  <2>1. job[w].new \in Ids /\ job[w].ino \in Inos
    BY <1>5, JobIds DEF RepointCut, Doing
  <2> QED
    BY <1>5, <1>0, <2>1, RepointType DEF RepointCut
<1>6. ASSUME NEW w \in Workers, DiscardUnlinked(w)
      PROVE  InodesOK'
  BY <1>6, <1>0 DEF DiscardUnlinked, Unbind, InodesOK, OptIno
<1>7. ASSUME NEW w \in Workers, DiscardVictim(w)
      PROVE  InodesOK'
  BY <1>7, <1>0 DEF DiscardVictim, Unbind, InodesOK, OptIno
<1>8. ASSUME NEW w \in Workers, RepointRenamed(w)
      PROVE  InodesOK'
  <2>1. job[w].new \in Ids /\ job[w].id \in Ids
    BY <1>8, JobIds DEF RepointRenamed, Doing
  <2>2. CASE inoOf[job[w].id] # 0
    <3>1. inoOf[job[w].id] \in Inos
      BY <1>0, <2>1, <2>2 DEF InodesOK, OptIno
    <3> QED
      BY <1>8, <1>0, <2>1, <2>2, <3>1, RepointType DEF RepointRenamed
  <2>3. CASE inoOf[job[w].id] = 0
    BY <1>8, <1>0, <2>3 DEF RepointRenamed, inodes, InodesOK
  <2> QED
    BY <2>2, <2>3
<1>9. ASSUME SetLen
      PROVE  UNCHANGED <<node, inoOf, pending>>
  BY <1>9 DEF SetLen, inodes
<1>10. ASSUME NEW n \in Names,
             OpenShared(n) \/ Truncate(n) \/ AddedElsewhere(n)
      PROVE  UNCHANGED <<node, inoOf, pending>>
  BY <1>10 DEF OpenShared, Truncate, AddedElsewhere, inodes
<1>11. ASSUME NEW n \in Names, NEW w \in Workers,
             OpenRemote(n, w) \/ TruncateRemote(n, w) \/ UnlinkRemote(n, w)
      PROVE  UNCHANGED <<node, inoOf, pending>>
  BY <1>11 DEF OpenRemote, TruncateRemote, UnlinkRemote, inodes
<1>12. ASSUME NEW n \in Names, NEW to \in Names, NEW w \in Workers,
             Rename(n, to, w)
      PROVE  UNCHANGED <<node, inoOf, pending>>
  BY <1>12 DEF Rename, inodes
<1>13. ASSUME NEW fh \in Fhs,
             Write(fh) \/ FlushClean(fh) \/ ReleaseClean(fh)
      PROVE  UNCHANGED <<node, inoOf, pending>>
  BY <1>13 DEF Write, FlushClean, ReleaseClean, inodes
<1>14. ASSUME NEW fh \in Fhs, NEW w \in Workers,
             Flush(fh, w) \/ ReleaseDirty(fh, w)
      PROVE  UNCHANGED <<node, inoOf, pending>>
  BY <1>14 DEF Flush, ReleaseDirty, inodes
<1>15. ASSUME NEW id \in Ids,
             RemovedElsewhere(id)
      PROVE  UNCHANGED <<node, inoOf, pending>>
  BY <1>15 DEF RemovedElsewhere, inodes
<1>16. ASSUME NEW w \in Workers,
             BeginCommit(w) \/ Upload(w) \/ UploadFails(w) \/ DropReplaced(w) \/
             Settle(w) \/ CloseReleased(w) \/ AttachLoaded(w) \/ JobFails(w) \/
             UploadCut(w) \/ UploadRenamed(w) \/ DropOld(w) \/ Delete(w) \/
             KeepsVictim(w)
      PROVE  UNCHANGED <<node, inoOf, pending>>
  BY <1>16 DEF BeginCommit, Upload, UploadFails, DropReplaced, Settle, CloseReleased,
     AttachLoaded, JobFails, UploadCut, UploadRenamed, DropOld, Delete, KeepsVictim,
     inodes
<1>17. ASSUME UNCHANGED <<node, inoOf, pending>>
      PROVE  InodesOK'
  BY <1>17, <1>0 DEF InodesOK
<1> QED
  BY <1>1, <1>2, <1>3, <1>4, <1>5, <1>6, <1>7, <1>8, <1>9, <1>10, <1>11, <1>12,
     <1>13, <1>14, <1>15, <1>16, <1>17
  DEF Next, Request, JobStep, CommitStep, OtherStep, vars, vault, inodes, buffers, kernel
HandlesOK ==
  /\ writer \in [Inos -> [file : Files \cup {0}, handles : Nat]]
  /\ handle \in [Fhs -> OptIno]

\* attach_writer keeps the types of writers and handles.
LEMMA AttachType ==
  ASSUME HandlesOK, NEW i \in Inos, NEW f \in Files \cup {0}, Attach(i, f)
  PROVE  HandlesOK'
<1>1. /\ writer' = [writer EXCEPT ![i] =
           [file |-> IF writer[i].file # 0 THEN writer[i].file ELSE f,
            handles |-> writer[i].handles + 1]]
      /\ handle' = [handle EXCEPT ![Made("fh")] = i]
  BY DEF Attach, HandlesOK
<1>2. writer[i].file \in Files \cup {0} /\ writer[i].handles + 1 \in Nat
  BY DEF HandlesOK
<1> QED BY <1>1, <1>2 DEF HandlesOK, OptIno

\* close_write_handle of a handle that is open: the count does not go below 0.
LEMMA CloseType ==
  ASSUME TypeOK, HandlesCounted, NEW fh \in Fhs, handle[fh] # 0, CloseHandle(fh)
  PROVE  HandlesOK'
<1> DEFINE i == handle[fh]
<1>1. i \in Inos /\ writer[i].file \in Files
  BY HandleHasBuffer
<1>2. /\ handle' = [handle EXCEPT ![fh] = 0]
      /\ writer' = [writer EXCEPT ![i] = IF writer[i].handles = 1 THEN NoWriter
             ELSE [file |-> writer[i].file, handles |-> writer[i].handles - 1]]
  BY DEF CloseHandle
<1>3. writer[i].handles \in Nat \ {0} /\ writer[i] \in [file : Files \cup {0}, handles : Nat]
  <2>1. writer[i].handles # 0
    <3>1. 0 \notin Files
      BY DEF Files
    <3> QED BY <1>1, <3>1 DEF HandlesCounted
  <2> QED BY <1>1, <2>1 DEF TypeOK
<1>4. NoWriter \in [file : Files \cup {0}, handles : Nat]
  BY DEF NoWriter
<1>5. writer[i].handles - 1 \in Nat
  BY <1>3
<1> HIDE DEF i
<1> QED BY <1>1, <1>2, <1>3, <1>4, <1>5 DEF TypeOK, HandlesOK, OptIno

\* The handle of a save leads to a buffer.
LEMMA SaveHandle ==
  ASSUME IInv, NEW w \in Workers, Commits(w)
  PROVE  /\ job[w].fh \in Fhs /\ handle[job[w].fh] \in Inos
         /\ writer[handle[job[w].fh]].file \in Files
<1>1. job[w].fh \in Fhs /\ handle[job[w].fh] # 0
  <2>1. JobShape(w)
    BY DEF IInv
  <2> QED BY <2>1 DEF JobShape, Commits, SaveJob, NoJob
<1> QED BY <1>1, HandleHasBuffer DEF IInv

\* An open handle leads to a buffer.
LEMMA OpenHandle ==
  ASSUME IInv, NEW fh \in open
  PROVE  fh \in Fhs /\ handle[fh] \in Inos /\ writer[handle[fh]].file \in Files
<1>1. fh \in Fhs /\ handle[fh] # 0
  BY DEF IInv, TypeOK, Known
<1> QED BY <1>1, HandleHasBuffer DEF IInv

\* The handles and the buffers they share.
LEMMA HandlesNext == IInv /\ [Next]_vars => HandlesOK'
<1> SUFFICES ASSUME IInv, [Next]_vars
             PROVE  HandlesOK'
  OBVIOUS
<1>0. HandlesOK /\ TypeOK /\ Room /\ HandlesCounted
  BY DEF IInv, TypeOK, HandlesOK
<1>1. ASSUME NEW n \in Names, Create(n)
      PROVE  HandlesOK'
  <2>1. Made("ino") \in Inos /\ Made("file") \in Files
    BY <1>1, <1>0, CreateIno, RoomToMake DEF Create
  <2>2. Attach(Made("ino"), Made("file"))
    BY <1>1 DEF Create
  <2> QED
    BY <1>0, <2>1, <2>2, AttachType
<1>2. ASSUME NEW n \in Names, OpenShared(n)
      PROVE  HandlesOK'
  <2>1. dentry[n] \in Inos /\ Attach(dentry[n], 0)
    BY <1>2, <1>0 DEF OpenShared, TypeOK, OptIno
  <2> QED
    BY <1>0, <2>1, AttachType
<1>3. ASSUME NEW w \in Workers, AttachLoaded(w)
      PROVE  HandlesOK'
  <2>1. job[w].ino \in Inos /\ Made("file") \in Files /\ Attach(job[w].ino, Made("file"))
    BY <1>3, <1>0, JobIds, UploadWaits, RoomToMake DEF AttachLoaded, Doing
  <2> QED
    BY <1>0, <2>1, AttachType
<1>4. ASSUME NEW fh \in Fhs, ReleaseClean(fh)
      PROVE  HandlesOK'
  <2>1. fh \in open /\ CloseHandle(fh)
    BY <1>4 DEF ReleaseClean, Releasable
  <2>2. handle[fh] # 0
    BY <2>1, OpenHandle DEF Inos
  <2> QED
    BY <1>0, <2>1, <2>2, CloseType
<1>5. ASSUME NEW w \in Workers, CloseReleased(w)
      PROVE  HandlesOK'
  <2>1. Commits(w) /\ CloseHandle(job[w].fh)
    BY <1>5 DEF CloseReleased, Saving
  <2>2. job[w].fh \in Fhs /\ handle[job[w].fh] # 0
    BY <2>1, SaveHandle DEF Inos
  <2> QED
    BY <1>0, <2>1, <2>2, CloseType
<1>6. ASSUME SetLen
      PROVE  UNCHANGED <<writer, handle>>
  BY <1>6 DEF SetLen
<1>7. ASSUME NEW n \in Names,
             Lookup(n) \/ Truncate(n) \/ UnlinkPending(n) \/ AddedElsewhere(n)
      PROVE  UNCHANGED <<writer, handle>>
  BY <1>7 DEF Lookup, Truncate, UnlinkPending, AddedElsewhere
<1>8. ASSUME NEW n \in Names, NEW w \in Workers,
             OpenRemote(n, w) \/ TruncateRemote(n, w) \/ UnlinkRemote(n, w)
      PROVE  UNCHANGED <<writer, handle>>
  BY <1>8 DEF OpenRemote, TruncateRemote, UnlinkRemote
<1>9. ASSUME NEW n \in Names, NEW to \in Names, NEW w \in Workers,
             Rename(n, to, w)
      PROVE  UNCHANGED <<writer, handle>>
  BY <1>9 DEF Rename
<1>10. ASSUME NEW fh \in Fhs,
             Write(fh) \/ FlushClean(fh)
      PROVE  UNCHANGED <<writer, handle>>
  BY <1>10 DEF Write, FlushClean
<1>11. ASSUME NEW fh \in Fhs, NEW w \in Workers,
             Flush(fh, w) \/ ReleaseDirty(fh, w)
      PROVE  UNCHANGED <<writer, handle>>
  BY <1>11 DEF Flush, ReleaseDirty
<1>12. ASSUME NEW id \in Ids,
             RemovedElsewhere(id)
      PROVE  UNCHANGED <<writer, handle>>
  BY <1>12 DEF RemovedElsewhere
<1>13. ASSUME NEW w \in Workers,
             BeginCommit(w) \/ Upload(w) \/ UploadFails(w) \/ DropReplaced(w) \/
             Settle(w) \/ RepointSaved(w) \/ JobFails(w) \/ UploadCut(w) \/
             UploadRenamed(w) \/ DropOld(w) \/ RepointCut(w) \/ Delete(w) \/
             KeepsVictim(w) \/ DiscardUnlinked(w) \/ DiscardVictim(w) \/
             RepointRenamed(w)
      PROVE  UNCHANGED <<writer, handle>>
  BY <1>13 DEF BeginCommit, Upload, UploadFails, DropReplaced, Settle, RepointSaved,
     JobFails, UploadCut, UploadRenamed, DropOld, RepointCut, Delete, KeepsVictim,
     DiscardUnlinked, DiscardVictim, RepointRenamed
<1>14. ASSUME UNCHANGED <<writer, handle>>
      PROVE  HandlesOK'
  BY <1>14, <1>0 DEF HandlesOK
<1> QED
  BY <1>1, <1>2, <1>3, <1>4, <1>5, <1>6, <1>7, <1>8, <1>9, <1>10, <1>11, <1>12,
     <1>13, <1>14
  DEF Next, Request, JobStep, CommitStep, OtherStep, vars, vault, inodes, buffers, kernel
BuffersOK ==
  /\ target \in [Files -> Target] /\ gen \in [Files -> Nat] /\ committed \in [Files -> Nat]
  /\ lock \in [Files -> Workers \cup {0}] /\ arc \in Files \cup {0}

\* The targets a buffer may have.
LEMMA TargetTypes ==
  /\ Discarded \in Target /\ \A n \in Nat : NewFile(n) \in Target
  /\ TypeOK => \A id \in Ids : Existing(id) \in Target
  BY DEF Target, Discarded, NewFile, Existing, OptId, TypeOK

\* A discarded buffer still has a target.
LEMMA DiscardType ==
  ASSUME target \in [Files -> Target], NEW i, DiscardBuffer(i)
  PROVE  target' \in [Files -> Target]
<1>1. Discarded \in Target
  BY TargetTypes
<1> QED BY <1>1 DEF DiscardBuffer

\* So it has after its record was deleted.
LEMMA UnbindType ==
  ASSUME target \in [Files -> Target], NEW id, Unbind(id)
  PROVE  target' \in [Files -> Target]
  BY DiscardType DEF Unbind

\* What the buffers hold.
LEMMA BuffersNext == IInv /\ [Next]_vars => BuffersOK'
<1> SUFFICES ASSUME IInv, [Next]_vars
             PROVE  BuffersOK'
  OBVIOUS
<1>0. BuffersOK /\ TypeOK /\ Room
  BY DEF IInv, TypeOK, BuffersOK
<1>1. ASSUME NEW n \in Names, Create(n)
      PROVE  BuffersOK'
  <2>1. /\ target' = [target EXCEPT ![Made("file")] = NewFile(n)]
        /\ gen' = [gen EXCEPT ![Made("file")] = Made("ver")]
        /\ UNCHANGED <<committed, lock, arc>>
    BY <1>1 DEF Create
  <2>2. NewFile(n) \in Target /\ Made("ver") \in Nat
    BY <1>0, TargetTypes, NextNumbers DEF Names
  <2> QED
    BY <1>0, <2>1, <2>2 DEF BuffersOK
<1>2. ASSUME NEW fh \in Fhs, Write(fh)
      PROVE  BuffersOK'
  <2> DEFINE f == writer[handle[fh]].file
  <2>1. gen' = [gen EXCEPT ![f] = Made("ver")] /\ UNCHANGED <<target, committed, lock, arc>>
    BY <1>2 DEF Write
  <2>2. Made("ver") \in Nat
    BY <1>0, NextNumbers
  <2> HIDE DEF f
  <2> QED
    BY <1>0, <2>1, <2>2 DEF BuffersOK
<1>3. ASSUME SetLen
      PROVE  BuffersOK'
  BY <1>3, <1>0, NextNumbers DEF SetLen, BuffersOK, buffers
<1>4. ASSUME NEW n \in Names, Truncate(n)
      PROVE  BuffersOK'
  BY <1>4, <1>0 DEF Truncate, BuffersOK, buffers, TypeOK, OptIno
<1>5. ASSUME NEW n \in Names, UnlinkPending(n)
      PROVE  BuffersOK'
  BY <1>5, <1>0, DiscardType DEF UnlinkPending, BuffersOK
<1>6. ASSUME NEW w \in Workers, BeginCommit(w)
      PROVE  BuffersOK'
  <2> DEFINE f == writer[handle[job[w].fh]].file
  <2>1. f \in Files
    BY <1>6, SaveHandle DEF BeginCommit, Saving
  <2>2. /\ committed' = committed \/ committed' = [committed EXCEPT ![f] = gen[f]]
        /\ lock' = lock \/ lock' = [lock EXCEPT ![f] = w]
        /\ UNCHANGED <<target, gen, arc>>
    BY <1>6 DEF BeginCommit
  <2> HIDE DEF f
  <2> QED
    BY <1>0, <2>1, <2>2 DEF BuffersOK
<1>7. ASSUME NEW w \in Workers, UploadFails(w)
      PROVE  BuffersOK'
  BY <1>7, <1>0 DEF UploadFails, BuffersOK, buffers
<1>8. ASSUME NEW w \in Workers, Settle(w)
      PROVE  BuffersOK'
  <2>1. Existing(job[w].new) \in Target /\ job[w].ver \in Nat
    BY <1>8, <1>0, JobIds, TargetTypes DEF Settle, TypeOK, Job
  <2> QED
    BY <1>8, <1>0, <2>1 DEF Settle, BuffersOK
<1>9. ASSUME NEW w \in Workers, RepointSaved(w)
      PROVE  BuffersOK'
  BY <1>9, <1>0 DEF RepointSaved, BuffersOK, buffers
<1>10. ASSUME NEW w \in Workers, AttachLoaded(w)
      PROVE  BuffersOK'
  <2>1. Existing(job[w].id) \in Target /\ rec[job[w].id].ver \in Nat
    <3>1. job[w].id \in Ids
      BY <1>10, JobIds DEF AttachLoaded, Doing
    <3> QED BY <1>0, <3>1, TargetTypes DEF TypeOK
  <2>2. CASE UNCHANGED buffers
    BY <1>10, <1>0, <2>2 DEF AttachLoaded, BuffersOK, buffers
  <2>3. CASE ~UNCHANGED buffers
    BY <1>10, <1>0, <2>1, <2>3 DEF AttachLoaded, BuffersOK
  <2> QED
    BY <2>2, <2>3
<1>11. ASSUME NEW w \in Workers, DiscardUnlinked(w)
      PROVE  BuffersOK'
  BY <1>11, <1>0, UnbindType DEF DiscardUnlinked, BuffersOK
<1>12. ASSUME NEW w \in Workers, DiscardVictim(w)
      PROVE  BuffersOK'
  BY <1>12, <1>0, UnbindType DEF DiscardVictim, BuffersOK
<1>13. ASSUME NEW w \in Workers, RepointRenamed(w)
      PROVE  BuffersOK'
  <2>1. Existing(job[w].new) \in Target
    BY <1>13, <1>0, JobIds, TargetTypes DEF RepointRenamed, Doing
  <2>2. target' \in [Files -> Target]
    BY <1>13, <1>0, <2>1 DEF RepointRenamed, Retarget, BuffersOK
  <2> QED
    BY <1>13, <1>0, <2>2 DEF RepointRenamed, BuffersOK
<1>14. ASSUME NEW n \in Names,
             Lookup(n) \/ OpenShared(n) \/ AddedElsewhere(n)
      PROVE  UNCHANGED <<target, gen, committed, lock, arc>>
  BY <1>14 DEF Lookup, OpenShared, AddedElsewhere, buffers
<1>15. ASSUME NEW n \in Names, NEW w \in Workers,
             OpenRemote(n, w) \/ TruncateRemote(n, w) \/ UnlinkRemote(n, w)
      PROVE  UNCHANGED <<target, gen, committed, lock, arc>>
  BY <1>15 DEF OpenRemote, TruncateRemote, UnlinkRemote, buffers
<1>16. ASSUME NEW n \in Names, NEW to \in Names, NEW w \in Workers,
             Rename(n, to, w)
      PROVE  UNCHANGED <<target, gen, committed, lock, arc>>
  BY <1>16 DEF Rename, buffers
<1>17. ASSUME NEW fh \in Fhs,
             FlushClean(fh) \/ ReleaseClean(fh)
      PROVE  UNCHANGED <<target, gen, committed, lock, arc>>
  BY <1>17 DEF FlushClean, ReleaseClean, buffers
<1>18. ASSUME NEW fh \in Fhs, NEW w \in Workers,
             Flush(fh, w) \/ ReleaseDirty(fh, w)
      PROVE  UNCHANGED <<target, gen, committed, lock, arc>>
  BY <1>18 DEF Flush, ReleaseDirty, buffers
<1>19. ASSUME NEW id \in Ids,
             RemovedElsewhere(id)
      PROVE  UNCHANGED <<target, gen, committed, lock, arc>>
  BY <1>19 DEF RemovedElsewhere, buffers
<1>20. ASSUME NEW w \in Workers,
             Upload(w) \/ DropReplaced(w) \/ CloseReleased(w) \/ JobFails(w) \/
             UploadCut(w) \/ UploadRenamed(w) \/ DropOld(w) \/ RepointCut(w) \/
             Delete(w) \/ KeepsVictim(w)
      PROVE  UNCHANGED <<target, gen, committed, lock, arc>>
  BY <1>20 DEF Upload, DropReplaced, CloseReleased, JobFails, UploadCut, UploadRenamed,
     DropOld, RepointCut, Delete, KeepsVictim, buffers
<1>21. ASSUME UNCHANGED <<target, gen, committed, lock, arc>>
      PROVE  BuffersOK'
  BY <1>21, <1>0 DEF BuffersOK
<1> QED
  BY <1>1, <1>2, <1>3, <1>4, <1>5, <1>6, <1>7, <1>8, <1>9, <1>10, <1>11, <1>12,
     <1>13, <1>14, <1>15, <1>16, <1>17, <1>18, <1>19, <1>20, <1>21
  DEF Next, Request, JobStep, CommitStep, OtherStep, vars, vault, inodes, buffers, kernel
\* The records of the jobs that are taken up, and of their progress.
LEMMA JobMade ==
  /\ NoJob \in Job
  /\ \A i \in OptIno, id \in OptId :
       /\ [NoJob EXCEPT !.kind = "open", !.pc = "attach", !.ino = i, !.id = id] \in Job
       /\ [NoJob EXCEPT !.kind = "truncate", !.pc = "upload", !.ino = i, !.id = id] \in Job
  /\ \A id \in OptId, n \in Nat :
       [NoJob EXCEPT !.kind = "unlink", !.pc = "delete", !.id = id, !.name = n] \in Job
  /\ \A id \in OptId, victim \in OptId, n \in Nat, v \in Nat :
       [NoJob EXCEPT !.kind = "rename", !.pc = "upload", !.id = id, !.name = n,
                     !.ver = v, !.victim = victim] \in Job
  /\ \A fh \in Fhs :
       /\ [NoJob EXCEPT !.kind = "flush", !.pc = "lock", !.fh = fh] \in Job
       /\ [NoJob EXCEPT !.kind = "release", !.pc = "lock", !.fh = fh] \in Job
<1>1. NoJob \in Job
  BY DEF NoJob, Job, OptIno, OptId
<1> QED BY <1>1 DEF Job

\* Taking up a job, ending it and going on with it keep its type.
LEMMA StartType ==
  ASSUME TypeOK, NEW w \in Workers, NEW j \in Job, Start(w, j)
  PROVE  job' \in [Workers -> Job]
  BY DEF Start, TypeOK

\* A worker without a job.
LEMMA EndType ==
  ASSUME TypeOK, NEW w \in Workers, End(w)
  PROVE  job' \in [Workers -> Job]
<1>1. NoJob \in Job
  BY DEF NoJob, Job, OptIno, OptId
<1> QED BY <1>1 DEF End, TypeOK

\* A job that goes on.
LEMMA GoToType ==
  ASSUME TypeOK, NEW w \in Workers, NEW p, GoTo(w, p),
         p \in {"settle", "repoint", "close", "delete", "discard"}
  PROVE  job' \in [Workers -> Job]
<1>1. job' = [job EXCEPT ![w] = [job[w] EXCEPT !.pc = p]]
  BY DEF GoTo, TypeOK
<1>2. [job[w] EXCEPT !.pc = p] \in Job
  <2>1. job[w] \in Job
    BY DEF TypeOK
  <2> HIDE DEF TypeOK
  <2> QED BY <2>1 DEF Job
<1> QED BY <1>1, <1>2 DEF TypeOK

\* A job that has uploaded.
LEMMA MadeType ==
  ASSUME TypeOK, NEW w \in Workers, Made("id") \in Ids,
         job' = [job EXCEPT ![w].new = Made("id"), ![w].pc = "drop"]
  PROVE  job' \in [Workers -> Job]
<1>1. job' = [job EXCEPT ![w] = [job[w] EXCEPT !.new = Made("id"), !.pc = "drop"]]
  BY DEF TypeOK
<1>2. [job[w] EXCEPT !.new = Made("id"), !.pc = "drop"] \in Job
  <2>1. job[w] \in Job
    BY DEF TypeOK
  <2> QED BY <2>1 DEF Job, OptId
<1> QED BY <1>1, <1>2 DEF TypeOK

\* find_child answers with a record or with none.
LEMMA HolderId ==
  ASSUME TypeOK, NEW n
  PROVE  Holder(n) \in OptId
  BY HolderType DEF TypeOK, OptId

\* The plan of a save.
LEMMA PlanType ==
  ASSUME IInv, NEW w \in Workers, Commits(w)
  PROVE  Plan(w, writer[handle[job[w].fh]].file) \in Job
<1> DEFINE f == writer[handle[job[w].fh]].file
           j == [job[w] EXCEPT !.pc = "upload", !.ino = handle[job[w].fh], !.file = f,
                               !.id = target[f].id, !.ver = gen[f]]
<1>1. f \in Files /\ handle[job[w].fh] \in Inos
  BY SaveHandle
<1>2. target[f].id \in OptId /\ target[f].name \in Nat /\ gen[f] \in Nat /\ job[w] \in Job
  BY <1>1 DEF IInv, TypeOK, Target
<1>3. j \in Job
  <2> HIDE DEF f
  <2> QED BY <1>1, <1>2 DEF Job, OptIno
<1>4. \A n \in Nat : /\ [j EXCEPT !.name = n] \in Job
                     /\ [j EXCEPT !.name = n, !.pc = "create"] \in Job
  <2> HIDE DEF j
  <2> QED BY <1>3 DEF Job
<1>5. CASE target[f].kind = "existing" /\ target[f].id \in index
  <2>1. rec[target[f].id].name \in Nat
    BY <1>5 DEF IInv, TypeOK
  <2>2. Plan(w, f) = [j EXCEPT !.name = rec[target[f].id].name]
    BY <1>5 DEF Plan
  <2> QED BY <1>4, <2>1, <2>2
<1>6. CASE ~(target[f].kind = "existing" /\ target[f].id \in index)
  <2>1. FreeName(target[f].name) \in Nat
    BY <1>2, FreeNameType DEF IInv
  <2>2. Plan(w, f) = [j EXCEPT !.name = FreeName(target[f].name), !.pc = "create"]
    BY <1>6 DEF Plan
  <2> QED BY <1>4, <2>1, <2>2
<1> QED BY <1>5, <1>6

\* What the workers do.
LEMMA JobsNext == IInv /\ [Next]_vars => (job \in [Workers -> Job])'
<1> SUFFICES ASSUME IInv, [Next]_vars
             PROVE  (job \in [Workers -> Job])'
  OBVIOUS
<1>0. TypeOK /\ Room
  BY DEF IInv
<1>1. ASSUME NEW n \in Names, NEW w \in Workers, OpenRemote(n, w)
      PROVE  (job \in [Workers -> Job])'
  <2>1. Start(w, [NoJob EXCEPT !.kind = "open", !.pc = "attach", !.ino = dentry[n],
                        !.id = node[dentry[n]].id])
    BY <1>1 DEF OpenRemote
  <2>2. [NoJob EXCEPT !.kind = "open", !.pc = "attach", !.ino = dentry[n],
                        !.id = node[dentry[n]].id] \in Job
    <3>1. dentry[n] \in OptIno /\ node[dentry[n]].id \in OptId
      BY <1>1, <1>0 DEF OpenRemote, TruncateRemote, TypeOK, OptIno, Node
    <3> QED BY <3>1, JobMade DEF OptIno, OptId
  <2> QED
    BY <1>0, <2>1, <2>2, StartType
<1>2. ASSUME NEW n \in Names, NEW w \in Workers, TruncateRemote(n, w)
      PROVE  (job \in [Workers -> Job])'
  <2>1. Start(w, [NoJob EXCEPT !.kind = "truncate", !.pc = "upload", !.ino = dentry[n],
                        !.id = node[dentry[n]].id])
    BY <1>2 DEF TruncateRemote
  <2>2. [NoJob EXCEPT !.kind = "truncate", !.pc = "upload", !.ino = dentry[n],
                        !.id = node[dentry[n]].id] \in Job
    <3>1. dentry[n] \in OptIno /\ node[dentry[n]].id \in OptId
      BY <1>2, <1>0 DEF OpenRemote, TruncateRemote, TypeOK, OptIno, Node
    <3> QED BY <3>1, JobMade DEF OptIno, OptId
  <2> QED
    BY <1>0, <2>1, <2>2, StartType
<1>3. ASSUME NEW n \in Names, NEW w \in Workers, UnlinkRemote(n, w)
      PROVE  (job \in [Workers -> Job])'
  <2>1. Start(w, [NoJob EXCEPT !.kind = "unlink", !.pc = "delete", !.id = Holder(n), !.name = n])
    BY <1>3 DEF UnlinkRemote
  <2>2. [NoJob EXCEPT !.kind = "unlink", !.pc = "delete", !.id = Holder(n), !.name = n] \in Job
    <3>1. Holder(n) \in OptId /\ n \in Nat
      BY <1>0, HolderId DEF Names
    <3> QED BY <3>1, JobMade
  <2> QED
    BY <1>0, <2>1, <2>2, StartType
<1>4. ASSUME NEW n \in Names, NEW to \in Names, NEW w \in Workers, Rename(n, to, w)
      PROVE  (job \in [Workers -> Job])'
  <2> DEFINE j == [NoJob EXCEPT !.kind = "rename", !.pc = "upload", !.id = Holder(n),
                 !.name = to, !.ver = rec[Holder(n)].ver, !.victim = Holder(to)]
  <2>1. Start(w, j)
    BY <1>4 DEF Rename
  <2>2. Holder(n) \in Ids /\ Holder(to) \in OptId
    BY <1>4, <1>0, HolderId DEF Rename, OptId
  <2>3. rec[Holder(n)].ver \in Nat
    BY <1>0, <2>2 DEF TypeOK
  <2>4. j \in Job
    <3>1. Holder(n) \in OptId /\ to \in Nat
      BY <2>2 DEF OptId, Names
    <3> QED BY <2>2, <2>3, <3>1, JobMade
  <2> HIDE DEF j
  <2> QED
    BY <1>0, <2>1, <2>4, StartType
<1>5. ASSUME NEW fh \in Fhs, NEW w \in Workers, Flush(fh, w)
      PROVE  (job \in [Workers -> Job])'
  <2>1. Start(w, [NoJob EXCEPT !.kind = "flush", !.pc = "lock", !.fh = fh])
    BY <1>5 DEF Flush
  <2>2. [NoJob EXCEPT !.kind = "flush", !.pc = "lock", !.fh = fh] \in Job
    BY JobMade
  <2> QED
    BY <1>0, <2>1, <2>2, StartType
<1>6. ASSUME NEW fh \in Fhs, NEW w \in Workers, ReleaseDirty(fh, w)
      PROVE  (job \in [Workers -> Job])'
  <2>1. Start(w, [NoJob EXCEPT !.kind = "release", !.pc = "lock", !.fh = fh])
    BY <1>6 DEF ReleaseDirty
  <2>2. [NoJob EXCEPT !.kind = "release", !.pc = "lock", !.fh = fh] \in Job
    BY JobMade
  <2> QED
    BY <1>0, <2>1, <2>2, StartType
<1>7. ASSUME NEW w \in Workers, BeginCommit(w)
      PROVE  (job \in [Workers -> Job])'
  <2>1. Commits(w)
    BY <1>7 DEF BeginCommit, Saving
  <2>2. CASE Saved(w)
    BY <1>7, <1>0, <2>2, EndType, GoToType DEF Saved
  <2>3. CASE ~Saved(w)
    BY <1>7, <1>0, <2>1, <2>3, PlanType DEF BeginCommit, TypeOK
  <2> QED
    BY <2>2, <2>3
<1>8. ASSUME NEW w \in Workers, Upload(w)
      PROVE  (job \in [Workers -> Job])'
  <2>1. Made("id") \in Ids
    BY <1>8, <1>0, UploadWaits, RoomToMake DEF Upload
  <2> QED
    BY <1>8, <1>0, <2>1, MadeType DEF Upload
<1>9. ASSUME NEW w \in Workers, UploadCut(w)
      PROVE  (job \in [Workers -> Job])'
  <2>1. Made("id") \in Ids
    BY <1>9, <1>0, UploadWaits, RoomToMake DEF UploadCut, Doing
  <2> QED
    BY <1>9, <1>0, <2>1, MadeType DEF UploadCut
<1>10. ASSUME NEW w \in Workers, UploadRenamed(w)
      PROVE  (job \in [Workers -> Job])'
  <2>1. Made("id") \in Ids
    BY <1>10, <1>0, UploadWaits, RoomToMake DEF UploadRenamed, Doing
  <2> QED
    BY <1>10, <1>0, <2>1, MadeType DEF UploadRenamed
<1>11. ASSUME NEW w \in Workers, UploadFails(w)
      PROVE  (job \in [Workers -> Job])'
  BY <1>11, <1>0, EndType DEF UploadFails
<1>12. ASSUME NEW w \in Workers, CloseReleased(w)
      PROVE  (job \in [Workers -> Job])'
  BY <1>12, <1>0, EndType DEF CloseReleased
<1>13. ASSUME NEW w \in Workers, AttachLoaded(w)
      PROVE  (job \in [Workers -> Job])'
  BY <1>13, <1>0, EndType DEF AttachLoaded
<1>14. ASSUME NEW w \in Workers, JobFails(w)
      PROVE  (job \in [Workers -> Job])'
  BY <1>14, <1>0, EndType DEF JobFails
<1>15. ASSUME NEW w \in Workers, RepointCut(w)
      PROVE  (job \in [Workers -> Job])'
  BY <1>15, <1>0, EndType DEF RepointCut
<1>16. ASSUME NEW w \in Workers, DiscardUnlinked(w)
      PROVE  (job \in [Workers -> Job])'
  BY <1>16, <1>0, EndType DEF DiscardUnlinked
<1>17. ASSUME NEW w \in Workers, RepointRenamed(w)
      PROVE  (job \in [Workers -> Job])'
  BY <1>17, <1>0, EndType DEF RepointRenamed
<1>18. ASSUME NEW w \in Workers, DropReplaced(w)
      PROVE  (job \in [Workers -> Job])'
  BY <1>18, <1>0, GoToType DEF DropReplaced
<1>19. ASSUME NEW w \in Workers, Settle(w)
      PROVE  (job \in [Workers -> Job])'
  BY <1>19, <1>0, GoToType DEF Settle
<1>20. ASSUME NEW w \in Workers, DropOld(w)
      PROVE  (job \in [Workers -> Job])'
  BY <1>20, <1>0, GoToType DEF DropOld
<1>21. ASSUME NEW w \in Workers, Delete(w)
      PROVE  (job \in [Workers -> Job])'
  BY <1>21, <1>0, GoToType DEF Delete
<1>22. ASSUME NEW w \in Workers, KeepsVictim(w)
      PROVE  (job \in [Workers -> Job])'
  BY <1>22, <1>0, GoToType DEF KeepsVictim
<1>23. ASSUME NEW w \in Workers, DiscardVictim(w)
      PROVE  (job \in [Workers -> Job])'
  BY <1>23, <1>0, GoToType DEF DiscardVictim
<1>24. ASSUME NEW w \in Workers, RepointSaved(w)
      PROVE  (job \in [Workers -> Job])'
  BY <1>24, <1>0, EndType, GoToType DEF RepointSaved, Saved
<1>25. ASSUME SetLen
      PROVE  UNCHANGED <<job>>
  BY <1>25 DEF SetLen
<1>26. ASSUME NEW n \in Names,
             Create(n) \/ Lookup(n) \/ OpenShared(n) \/ Truncate(n) \/
             UnlinkPending(n) \/ AddedElsewhere(n)
      PROVE  UNCHANGED <<job>>
  BY <1>26 DEF Create, Lookup, OpenShared, Truncate, UnlinkPending, AddedElsewhere
<1>27. ASSUME NEW fh \in Fhs,
             Write(fh) \/ FlushClean(fh) \/ ReleaseClean(fh)
      PROVE  UNCHANGED <<job>>
  BY <1>27 DEF Write, FlushClean, ReleaseClean
<1>28. ASSUME NEW id \in Ids,
             RemovedElsewhere(id)
      PROVE  UNCHANGED <<job>>
  BY <1>28 DEF RemovedElsewhere
<1>29. ASSUME UNCHANGED <<job>>
      PROVE  (job \in [Workers -> Job])'
  BY <1>29, <1>0 DEF TypeOK
<1> QED
  BY <1>1, <1>2, <1>3, <1>4, <1>5, <1>6, <1>7, <1>8, <1>9, <1>10, <1>11, <1>12,
     <1>13, <1>14, <1>15, <1>16, <1>17, <1>18, <1>19, <1>20, <1>21, <1>22, <1>23, <1>24,
     <1>25, <1>26, <1>27, <1>28, <1>29
  DEF Next, Request, JobStep, CommitStep, OtherStep, vars, vault, inodes, buffers, kernel
KernelOK ==
  /\ dentry \in [Names -> OptIno]
  /\ open \subseteq Fhs /\ flushed \subseteq Fhs /\ absent \subseteq Names

\* What the kernel holds.
LEMMA KernelNext == IInv /\ [Next]_vars => KernelOK'
<1> SUFFICES ASSUME IInv, [Next]_vars
             PROVE  KernelOK'
  OBVIOUS
<1>0. KernelOK /\ TypeOK /\ Room
  BY DEF IInv, TypeOK, KernelOK
<1>1. ASSUME NEW n \in Names, Create(n)
      PROVE  KernelOK'
  <2>1. Made("ino") \in Inos /\ Made("fh") \in Fhs
    BY <1>1, <1>0, CreateIno, RoomToMake DEF Create
  <2> QED
    BY <1>1, <1>0, <2>1 DEF Create, Attach, KernelOK, OptIno
<1>2. ASSUME NEW n \in Names, Lookup(n)
      PROVE  KernelOK'
  <2>1. /\ pending[n] \in OptIno /\ 0 \in OptIno
        /\ Holder(n) # 0 => InoForRemote(Holder(n)) \in OptIno
    BY <1>0, HolderType, LookupType DEF TypeOK, OptIno
  <2>2. \E i \in OptIno : dentry' = [dentry EXCEPT ![n] = i]
    BY <1>2, <2>1 DEF Lookup
  <2>3. UNCHANGED <<open, flushed, absent>>
    BY <1>2 DEF Lookup
  <2> QED
    BY <1>0, <2>2, <2>3 DEF KernelOK
<1>3. ASSUME NEW n \in Names, OpenShared(n)
      PROVE  KernelOK'
  <2>1. Made("fh") \in Fhs
    BY <1>3, <1>0, RoomToMake DEF OpenShared
  <2> QED
    BY <1>3, <1>0, <2>1 DEF OpenShared, Attach, KernelOK
<1>4. ASSUME NEW w \in Workers, AttachLoaded(w)
      PROVE  KernelOK'
  <2>1. Made("fh") \in Fhs
    BY <1>4, <1>0, UploadWaits, RoomToMake DEF AttachLoaded, Doing
  <2> QED
    BY <1>4, <1>0, <2>1 DEF AttachLoaded, Attach, KernelOK
<1>5. ASSUME NEW n \in Names, UnlinkPending(n)
      PROVE  KernelOK'
  BY <1>5, <1>0 DEF UnlinkPending, KernelOK, OptIno
<1>6. ASSUME NEW n \in Names, AddedElsewhere(n)
      PROVE  KernelOK'
  BY <1>6, <1>0 DEF AddedElsewhere, KernelOK
<1>7. ASSUME NEW n \in Names, NEW to \in Names, NEW w \in Workers, Rename(n, to, w)
      PROVE  KernelOK'
  BY <1>7, <1>0 DEF Rename, KernelOK
<1>8. ASSUME NEW fh \in Fhs, Write(fh)
      PROVE  KernelOK'
  BY <1>8, <1>0 DEF Write, KernelOK
<1>9. ASSUME NEW fh \in Fhs, FlushClean(fh)
      PROVE  KernelOK'
  BY <1>9, <1>0 DEF FlushClean, KernelOK
<1>10. ASSUME NEW fh \in Fhs, NEW w \in Workers, Flush(fh, w)
      PROVE  KernelOK'
  BY <1>10, <1>0 DEF Flush, KernelOK
<1>11. ASSUME NEW fh \in Fhs, ReleaseClean(fh)
      PROVE  KernelOK'
  BY <1>11, <1>0 DEF ReleaseClean, KernelOK
<1>12. ASSUME NEW fh \in Fhs, NEW w \in Workers, ReleaseDirty(fh, w)
      PROVE  KernelOK'
  BY <1>12, <1>0 DEF ReleaseDirty, KernelOK
<1>13. ASSUME NEW w \in Workers, DiscardUnlinked(w)
      PROVE  KernelOK'
  <2>1. job[w].name \in Names
    BY <1>13, JobIds DEF DiscardUnlinked, Doing
  <2> QED
    BY <1>13, <1>0, <2>1 DEF DiscardUnlinked, KernelOK, OptIno
<1>14. ASSUME NEW w \in Workers, RepointRenamed(w)
      PROVE  KernelOK'
  <2>1. job[w].name \in Names /\ rec[job[w].id].name \in Names
    BY <1>14, JobIds DEF RepointRenamed, Doing
  <2> QED
    BY <1>14, <1>0, <2>1 DEF RepointRenamed, KernelOK, OptIno
<1>15. ASSUME SetLen
      PROVE  UNCHANGED <<dentry, open, flushed, absent>>
  BY <1>15 DEF SetLen, kernel
<1>16. ASSUME NEW n \in Names,
             Truncate(n)
      PROVE  UNCHANGED <<dentry, open, flushed, absent>>
  BY <1>16 DEF Truncate, kernel
<1>17. ASSUME NEW n \in Names, NEW w \in Workers,
             OpenRemote(n, w) \/ TruncateRemote(n, w) \/ UnlinkRemote(n, w)
      PROVE  UNCHANGED <<dentry, open, flushed, absent>>
  BY <1>17 DEF OpenRemote, TruncateRemote, UnlinkRemote, kernel
<1>18. ASSUME NEW id \in Ids,
             RemovedElsewhere(id)
      PROVE  UNCHANGED <<dentry, open, flushed, absent>>
  BY <1>18 DEF RemovedElsewhere, kernel
<1>19. ASSUME NEW w \in Workers,
             BeginCommit(w) \/ Upload(w) \/ UploadFails(w) \/ DropReplaced(w) \/
             Settle(w) \/ RepointSaved(w) \/ CloseReleased(w) \/ JobFails(w) \/
             UploadCut(w) \/ UploadRenamed(w) \/ DropOld(w) \/ RepointCut(w) \/
             Delete(w) \/ KeepsVictim(w) \/ DiscardVictim(w)
      PROVE  UNCHANGED <<dentry, open, flushed, absent>>
  BY <1>19 DEF BeginCommit, Upload, UploadFails, DropReplaced, Settle, RepointSaved,
     CloseReleased, JobFails, UploadCut, UploadRenamed, DropOld, RepointCut, Delete,
     KeepsVictim, DiscardVictim, kernel
<1>20. ASSUME UNCHANGED <<dentry, open, flushed, absent>>
      PROVE  KernelOK'
  BY <1>20, <1>0 DEF KernelOK
<1> QED
  BY <1>1, <1>2, <1>3, <1>4, <1>5, <1>6, <1>7, <1>8, <1>9, <1>10, <1>11, <1>12,
     <1>13, <1>14, <1>15, <1>16, <1>17, <1>18, <1>19, <1>20
  DEF Next, Request, JobStep, CommitStep, OtherStep, vars, vault, inodes, buffers, kernel

\* What was made is counted within the bounds.
LEMMA CountsType ==
  ASSUME TypeOK
  PROVE  /\ Made("id") \in Ids => [made EXCEPT !.id = @ + 1] \in Counts
         /\ Made("id") \in Ids => [made EXCEPT !.id = @ + 1, !.ver = @ + 1] \in Counts
         /\ [made EXCEPT !.ver = @ + 1] \in Counts /\ [made EXCEPT !.ver = Made("ver")] \in Counts
         /\ Made("fh") \in Fhs => [made EXCEPT !.fh = @ + 1] \in Counts
         /\ Made("fh") \in Fhs /\ Made("file") \in Files =>
              [made EXCEPT !.file = Made("file"), !.fh = @ + 1] \in Counts
         /\ Made("fh") \in Fhs /\ Made("file") \in Files /\ made.ino < MaxCreate =>
              [made EXCEPT !.ino = Made("ino"), !.file = Made("file"), !.ver = Made("ver"),
                           !.fh = @ + 1] \in Counts
<1>1. made \in Counts
  BY DEF TypeOK
<1>2. {MaxId, MaxCreate, MaxFile, MaxFh} \subseteq Nat
  BY SessionAssumption
<1>3. /\ Made("id") \in Ids => made.id + 1 \in 0 .. MaxId
      /\ Made("fh") \in Fhs => made.fh + 1 \in 0 .. MaxFh
      /\ Made("file") \in Files => Made("file") \in 0 .. MaxFile
      /\ made.ino < MaxCreate => Made("ino") \in 0 .. MaxCreate
      /\ made.ver + 1 \in Nat /\ Made("ver") \in Nat
  BY <1>1, <1>2, NextNumbers DEF Counts, Ids, Fhs, Files
<1> QED BY <1>1, <1>3 DEF Counts

\* What was made stays within the bounds.
LEMMA CountsNext == IInv /\ [Next]_vars => (made \in Counts)'
<1> SUFFICES ASSUME IInv, [Next]_vars
             PROVE  (made \in Counts)'
  OBVIOUS
<1>0. TypeOK /\ Room
  BY DEF IInv
<1>1. ASSUME NEW n \in Names, Create(n)
      PROVE  (made \in Counts)'
  BY <1>1, <1>0, RoomToMake, CountsType DEF Create
<1>2. ASSUME NEW n \in Names, OpenShared(n)
      PROVE  (made \in Counts)'
  BY <1>2, <1>0, RoomToMake, CountsType DEF OpenShared
<1>3. ASSUME NEW fh \in Fhs, Write(fh)
      PROVE  (made \in Counts)'
  BY <1>3, <1>0, CountsType DEF Write
<1>4. ASSUME SetLen
      PROVE  (made \in Counts)'
  BY <1>4, <1>0, CountsType DEF SetLen
<1>5. ASSUME NEW w \in Workers, Upload(w)
      PROVE  (made \in Counts)'
  BY <1>5, <1>0, UploadWaits, RoomToMake, CountsType DEF Upload
<1>6. ASSUME NEW w \in Workers, AttachLoaded(w)
      PROVE  (made \in Counts)'
  BY <1>6, <1>0, UploadWaits, RoomToMake, CountsType DEF AttachLoaded, Doing
<1>7. ASSUME NEW w \in Workers, UploadCut(w)
      PROVE  (made \in Counts)'
  BY <1>7, <1>0, UploadWaits, RoomToMake, CountsType DEF UploadCut, Doing
<1>8. ASSUME NEW w \in Workers, UploadRenamed(w)
      PROVE  (made \in Counts)'
  BY <1>8, <1>0, UploadWaits, RoomToMake, CountsType DEF UploadRenamed, Doing
<1>9. ASSUME NEW n \in Names, AddedElsewhere(n)
      PROVE  (made \in Counts)'
  BY <1>9, <1>0, RoomToMake, CountsType DEF AddedElsewhere
<1>10. ASSUME NEW n \in Names,
             Lookup(n) \/ Truncate(n) \/ UnlinkPending(n)
      PROVE  UNCHANGED <<made>>
  BY <1>10 DEF Lookup, Truncate, UnlinkPending
<1>11. ASSUME NEW n \in Names, NEW w \in Workers,
             OpenRemote(n, w) \/ TruncateRemote(n, w) \/ UnlinkRemote(n, w)
      PROVE  UNCHANGED <<made>>
  BY <1>11 DEF OpenRemote, TruncateRemote, UnlinkRemote
<1>12. ASSUME NEW n \in Names, NEW to \in Names, NEW w \in Workers,
             Rename(n, to, w)
      PROVE  UNCHANGED <<made>>
  BY <1>12 DEF Rename
<1>13. ASSUME NEW fh \in Fhs,
             FlushClean(fh) \/ ReleaseClean(fh)
      PROVE  UNCHANGED <<made>>
  BY <1>13 DEF FlushClean, ReleaseClean
<1>14. ASSUME NEW fh \in Fhs, NEW w \in Workers,
             Flush(fh, w) \/ ReleaseDirty(fh, w)
      PROVE  UNCHANGED <<made>>
  BY <1>14 DEF Flush, ReleaseDirty
<1>15. ASSUME NEW id \in Ids,
             RemovedElsewhere(id)
      PROVE  UNCHANGED <<made>>
  BY <1>15 DEF RemovedElsewhere
<1>16. ASSUME NEW w \in Workers,
             BeginCommit(w) \/ UploadFails(w) \/ DropReplaced(w) \/ Settle(w) \/
             RepointSaved(w) \/ CloseReleased(w) \/ JobFails(w) \/ DropOld(w) \/
             RepointCut(w) \/ Delete(w) \/ KeepsVictim(w) \/ DiscardUnlinked(w) \/
             DiscardVictim(w) \/ RepointRenamed(w)
      PROVE  UNCHANGED <<made>>
  BY <1>16 DEF BeginCommit, UploadFails, DropReplaced, Settle, RepointSaved,
     CloseReleased, JobFails, DropOld, RepointCut, Delete, KeepsVictim, DiscardUnlinked,
     DiscardVictim, RepointRenamed
<1>17. ASSUME UNCHANGED <<made>>
      PROVE  (made \in Counts)'
  BY <1>17, <1>0 DEF TypeOK
<1> QED
  BY <1>1, <1>2, <1>3, <1>4, <1>5, <1>6, <1>7, <1>8, <1>9, <1>10, <1>11, <1>12,
     <1>13, <1>14, <1>15, <1>16, <1>17
  DEF Next, Request, JobStep, CommitStep, OtherStep, vars, vault, inodes, buffers, kernel

\* Every step keeps the types.
LEMMA TypeNext == IInv /\ [Next]_vars => TypeOK'
<1> SUFFICES ASSUME IInv, [Next]_vars
             PROVE  TypeOK'
  OBVIOUS
<1>1. VaultOK' /\ InodesOK' /\ HandlesOK' /\ BuffersOK' /\ KernelOK'
  BY VaultNext, InodesNext, HandlesNext, BuffersNext, KernelNext
<1>2. (job \in [Workers -> Job])' /\ (made \in Counts)'
  BY JobsNext, CountsNext
<1> QED BY <1>1, <1>2 DEF TypeOK, VaultOK, InodesOK, HandlesOK, BuffersOK, KernelOK
-----------------------------------------------------------------------------
(* The bounds. *)

\* No job starts to wait for room.
Calm == \A v \in Workers :
  \/ job'[v] = NoJob
  \/ job'[v].kind = job[v].kind /\ (job'[v].new = 0 => job[v].new = 0)

\* If no job starts to wait, no more wait.
LEMMA CalmWaiting ==
  ASSUME Calm
  PROVE  /\ Waiting(IdJobs)' <= Waiting(IdJobs) /\ Waiting(IdJobs)' \in Nat
         /\ Waiting({"open"})' <= Waiting({"open"}) /\ Waiting({"open"})' \in Nat
<1>1. \A v \in Workers : Waits(v, IdJobs)' => Waits(v, IdJobs)
  BY DEF Calm, Waits, IdJobs, NoJob
<1>2. \A v \in Workers : Waits(v, {"open"})' => Waits(v, {"open"})
  BY DEF Calm, Waits, NoJob
<1>3. Waiting(IdJobs)' <= Waiting(IdJobs) /\ Waiting(IdJobs)' \in Nat
  BY <1>1, WaitingShrinks
<1>4. Waiting({"open"})' <= Waiting({"open"}) /\ Waiting({"open"})' \in Nat
  BY <1>2, WaitingShrinks
<1> QED BY <1>3, <1>4

\* A job that ends or goes on does not start to wait.
LEMMA JobCalm ==
  ASSUME TypeOK
  PROVE  /\ UNCHANGED job => Calm
         /\ \A w \in Workers : End(w) => Calm
         /\ \A w \in Workers : \A p : GoTo(w, p) => Calm
<1>1. UNCHANGED job => Calm
  BY DEF Calm
<1>2. ASSUME NEW w \in Workers, End(w) PROVE Calm
  BY <1>2 DEF End, Calm, TypeOK
<1>3. ASSUME NEW w \in Workers, NEW p, GoTo(w, p) PROVE Calm
  <2>1. \A v \in Workers : job'[v].kind = job[v].kind /\ job'[v].new = job[v].new
    BY <1>3 DEF GoTo, TypeOK, Job
  <2> QED BY <2>1 DEF Calm
<1> QED BY <1>1, <1>2, <1>3

\* A step that makes nothing and lets nothing in keeps the room.
LEMMA RoomKept ==
  ASSUME TypeOK, Room, Calm, made' = made \/ made' = [made EXCEPT !.ver = made.ver + 1]
  PROVE  Room'
<1>1. made'.id = made.id /\ made'.fh = made.fh /\ made'.file = made.file
  BY DEF TypeOK, Counts
<1>2. /\ Waiting(IdJobs) \in Nat /\ Waiting({"open"}) \in Nat
      /\ Waiting(IdJobs)' <= Waiting(IdJobs) /\ Waiting(IdJobs)' \in Nat
      /\ Waiting({"open"})' <= Waiting({"open"}) /\ Waiting({"open"})' \in Nat
  BY WaitingType, CalmWaiting
<1> QED BY <1>1, <1>2, NextNumbers DEF Room

\* A job that will make a record is taken up.
LEMMA RoomStarts ==
  ASSUME TypeOK, Room, RoomForId, NEW w \in Workers, NEW j, j.kind \in IdJobs, Start(w, j),
         UNCHANGED made
  PROVE  Room'
<1>1. \A v \in Workers \ {w} : job'[v] = job[v]
  BY DEF Start, TypeOK
<1>2. job'[w] = j
  BY DEF Start, TypeOK
<1>3. Waiting(IdJobs)' <= Waiting(IdJobs) + 1 /\ Waiting(IdJobs)' \in Nat
  <2>1. \A v \in Workers \ {w} : Waits(v, IdJobs)' => Waits(v, IdJobs)
    BY <1>1 DEF Waits
  <2> QED BY <2>1, WaitingGrows
<1>4. Waiting({"open"})' <= Waiting({"open"}) /\ Waiting({"open"})' \in Nat
  <2>1. \A v \in Workers : Waits(v, {"open"})' => Waits(v, {"open"})
    BY <1>1, <1>2 DEF Waits, IdJobs
  <2> QED BY <2>1, WaitingShrinks
<1>5. Waiting(IdJobs) \in Nat /\ Waiting({"open"}) \in Nat
  BY WaitingType
<1> QED BY <1>3, <1>4, <1>5, NextNumbers DEF Room, RoomForId, IdJobs

\* A record is made by a job that waited.
LEMMA RoomDone ==
  ASSUME TypeOK, Room, NEW w \in Workers, Waits(w, IdJobs), Made("id") \in Ids,
         job' = [job EXCEPT ![w].new = Made("id"), ![w].pc = "drop"],
         made' = [made EXCEPT !.id = @ + 1] \/ made' = [made EXCEPT !.id = @ + 1, !.ver = @ + 1]
  PROVE  Room'
<1>1. made'.id = made.id + 1 /\ made'.fh = made.fh /\ made'.file = made.file
  BY DEF TypeOK, Counts
<1>2. /\ \A v \in Workers \ {w} : job'[v] = job[v]
      /\ job'[w].new # 0 /\ job'[w].kind = job[w].kind
  BY DEF TypeOK, Job, Ids
<1>3. Waiting(IdJobs)' + 1 <= Waiting(IdJobs) /\ Waiting(IdJobs)' \in Nat
  <2>1. ~Waits(w, IdJobs)' /\ \A v \in Workers : Waits(v, IdJobs)' => Waits(v, IdJobs)
    BY <1>2 DEF Waits
  <2> QED BY <2>1, WaitingDone
<1>4. Waiting({"open"})' <= Waiting({"open"}) /\ Waiting({"open"})' \in Nat
  <2>1. \A v \in Workers : Waits(v, {"open"})' => Waits(v, {"open"})
    BY <1>2 DEF Waits
  <2> QED BY <2>1, WaitingShrinks
<1>5. Waiting(IdJobs) \in Nat /\ Waiting({"open"}) \in Nat
  BY WaitingType
<1> QED BY <1>1, <1>3, <1>4, <1>5, NextNumbers DEF Room

\* What the jobs may make, and what was made, fits the bounds.
LEMMA RoomNext == IInv /\ [Next]_vars => Room'
<1> SUFFICES ASSUME IInv, [Next]_vars
             PROVE  Room'
  OBVIOUS
<1>0. TypeOK /\ Room
  BY DEF IInv
<1>00. Waiting(IdJobs) \in Nat /\ Waiting({"open"}) \in Nat
  BY WaitingType
<1>1. ASSUME NEW n \in Names, Create(n)
      PROVE  Room'
  <2>1. /\ Waiting(IdJobs)' <= Waiting(IdJobs) /\ Waiting(IdJobs)' \in Nat
        /\ Waiting({"open"})' <= Waiting({"open"}) /\ Waiting({"open"})' \in Nat
    BY <1>1, <1>0, JobCalm, CalmWaiting DEF Create
  <2>2. made'.id = made.id /\ made'.fh = made.fh + 1 /\ made'.file = made.file + 1
    BY <1>1, <1>0, NextNumbers DEF Create, TypeOK, Counts
  <2>3. RoomForOpen
    BY <1>1 DEF Create
  <2> QED
    BY <1>0, <1>00, <2>1, <2>2, <2>3, NextNumbers DEF Room, RoomForOpen, RoomForId, IdJobs
<1>2. ASSUME NEW n \in Names, OpenShared(n)
      PROVE  Room'
  <2>1. /\ Waiting(IdJobs)' <= Waiting(IdJobs) /\ Waiting(IdJobs)' \in Nat
        /\ Waiting({"open"})' <= Waiting({"open"}) /\ Waiting({"open"})' \in Nat
    BY <1>2, <1>0, JobCalm, CalmWaiting DEF OpenShared
  <2>2. made'.id = made.id /\ made'.fh = made.fh + 1 /\ made'.file = made.file
    BY <1>2, <1>0, NextNumbers DEF OpenShared, TypeOK, Counts
  <2>3. made.fh + Waiting({"open"}) < MaxFh
    BY <1>2 DEF OpenShared
  <2> QED
    BY <1>0, <1>00, <2>1, <2>2, <2>3, NextNumbers DEF Room, RoomForOpen, RoomForId, IdJobs
<1>3. ASSUME NEW n \in Names, AddedElsewhere(n)
      PROVE  Room'
  <2>1. /\ Waiting(IdJobs)' <= Waiting(IdJobs) /\ Waiting(IdJobs)' \in Nat
        /\ Waiting({"open"})' <= Waiting({"open"}) /\ Waiting({"open"})' \in Nat
    BY <1>3, <1>0, JobCalm, CalmWaiting DEF AddedElsewhere
  <2>2. made'.id = made.id + 1 /\ made'.fh = made.fh /\ made'.file = made.file
    BY <1>3, <1>0, NextNumbers DEF AddedElsewhere, TypeOK, Counts
  <2>3. RoomForId
    BY <1>3 DEF AddedElsewhere
  <2> QED
    BY <1>0, <1>00, <2>1, <2>2, <2>3, NextNumbers DEF Room, RoomForOpen, RoomForId, IdJobs
<1>4. ASSUME NEW n \in Names, NEW w \in Workers, OpenRemote(n, w)
      PROVE  Room'
  <2>1. RoomForOpen /\ UNCHANGED made
    BY <1>4 DEF OpenRemote
  <2>2. /\ \A v \in Workers \ {w} : job'[v] = job[v]
        /\ job'[w].kind = "open"
    BY <1>4, <1>0 DEF OpenRemote, Start, TypeOK, NoJob
  <2>3. Waiting({"open"})' <= Waiting({"open"}) + 1 /\ Waiting({"open"})' \in Nat
    <3>1. \A v \in Workers \ {w} : Waits(v, {"open"})' => Waits(v, {"open"})
      BY <2>2 DEF Waits
    <3> QED BY <3>1, WaitingGrows
  <2>4. Waiting(IdJobs)' <= Waiting(IdJobs) /\ Waiting(IdJobs)' \in Nat
    <3>1. \A v \in Workers : Waits(v, IdJobs)' => Waits(v, IdJobs)
      BY <2>2 DEF Waits, IdJobs
    <3> QED BY <3>1, WaitingShrinks
  <2> QED
    BY <1>0, <1>00, <2>1, <2>3, <2>4, NextNumbers DEF Room, RoomForOpen
<1>5. ASSUME NEW n \in Names, NEW w \in Workers, TruncateRemote(n, w)
      PROVE  Room'
  <2> DEFINE j == [NoJob EXCEPT !.kind = "truncate", !.pc = "upload", !.ino = dentry[n],
                        !.id = node[dentry[n]].id]
  <2>1. Start(w, j) /\ RoomForId /\ UNCHANGED made
    BY <1>5 DEF TruncateRemote
  <2>2. j.kind \in IdJobs
    BY DEF NoJob, IdJobs
  <2> HIDE DEF j
  <2> QED
    BY <1>0, <2>1, <2>2, RoomStarts
<1>6. ASSUME NEW n \in Names, NEW to \in Names, NEW w \in Workers, Rename(n, to, w)
      PROVE  Room'
  <2> DEFINE j == [NoJob EXCEPT !.kind = "rename", !.pc = "upload", !.id = Holder(n),
                 !.name = to, !.ver = rec[Holder(n)].ver, !.victim = Holder(to)]
  <2>1. Start(w, j) /\ RoomForId /\ UNCHANGED made
    BY <1>6 DEF Rename
  <2>2. j.kind \in IdJobs
    BY DEF NoJob, IdJobs
  <2> HIDE DEF j
  <2> QED
    BY <1>0, <2>1, <2>2, RoomStarts
<1>7. ASSUME NEW fh \in Fhs, NEW w \in Workers, Flush(fh, w)
      PROVE  Room'
  <2> DEFINE j == [NoJob EXCEPT !.kind = "flush", !.pc = "lock", !.fh = fh]
  <2>1. Start(w, j) /\ RoomForId /\ UNCHANGED made
    BY <1>7 DEF Flush
  <2>2. j.kind \in IdJobs
    BY DEF NoJob, IdJobs
  <2> HIDE DEF j
  <2> QED
    BY <1>0, <2>1, <2>2, RoomStarts
<1>8. ASSUME NEW fh \in Fhs, NEW w \in Workers, ReleaseDirty(fh, w)
      PROVE  Room'
  <2> DEFINE j == [NoJob EXCEPT !.kind = "release", !.pc = "lock", !.fh = fh]
  <2>1. Start(w, j) /\ RoomForId /\ UNCHANGED made
    BY <1>8 DEF ReleaseDirty
  <2>2. j.kind \in IdJobs
    BY DEF NoJob, IdJobs
  <2> HIDE DEF j
  <2> QED
    BY <1>0, <2>1, <2>2, RoomStarts
<1>9. ASSUME NEW n \in Names, NEW w \in Workers, UnlinkRemote(n, w)
      PROVE  Room'
  <2>1. /\ \A v \in Workers \ {w} : job'[v] = job[v]
        /\ job'[w].kind = "unlink"
    BY <1>9, <1>0 DEF UnlinkRemote, Start, TypeOK, NoJob
  <2>2. \A v \in Workers : Waits(v, IdJobs)' => Waits(v, IdJobs)
    BY <2>1 DEF Waits, IdJobs
  <2>3. \A v \in Workers : Waits(v, {"open"})' => Waits(v, {"open"})
    BY <2>1 DEF Waits
  <2>4. Waiting(IdJobs)' <= Waiting(IdJobs) /\ Waiting(IdJobs)' \in Nat
    BY <2>2, WaitingShrinks
  <2>5. Waiting({"open"})' <= Waiting({"open"}) /\ Waiting({"open"})' \in Nat
    BY <2>3, WaitingShrinks
  <2>6. UNCHANGED made
    BY <1>9 DEF UnlinkRemote
  <2> QED
    BY <1>0, <1>00, <2>4, <2>5, <2>6, NextNumbers DEF Room
<1>10. ASSUME NEW w \in Workers, AttachLoaded(w)
      PROVE  Room'
  <2>1. Waits(w, {"open"}) /\ End(w)
    BY <1>10, UploadWaits DEF AttachLoaded, Doing
  <2>2. ~Waits(w, {"open"})' /\ \A v \in Workers : Waits(v, {"open"})' => Waits(v, {"open"})
    BY <2>1, <1>0 DEF End, NoJob, Waits, TypeOK
  <2>3. Waiting({"open"})' + 1 <= Waiting({"open"}) /\ Waiting({"open"})' \in Nat
    BY <2>1, <2>2, WaitingDone
  <2>4. Waiting(IdJobs)' <= Waiting(IdJobs) /\ Waiting(IdJobs)' \in Nat
    BY <2>1, <1>0, JobCalm, CalmWaiting
  <2>5. /\ made'.id = made.id /\ made'.fh = made.fh + 1
        /\ made'.file = made.file \/ made'.file = made.file + 1
    BY <1>10, <1>0, NextNumbers DEF AttachLoaded, TypeOK, Counts
  <2> QED
    BY <1>0, <1>00, <2>3, <2>4, <2>5, NextNumbers DEF Room
<1>11. ASSUME NEW w \in Workers, Upload(w)
      PROVE  Room'
  BY <1>11, <1>0, UploadWaits, RoomToMake, RoomDone DEF Upload
<1>12. ASSUME NEW w \in Workers, UploadCut(w)
      PROVE  Room'
  BY <1>12, <1>0, UploadWaits, RoomToMake, RoomDone DEF UploadCut, Doing
<1>13. ASSUME NEW w \in Workers, UploadRenamed(w)
      PROVE  Room'
  BY <1>13, <1>0, UploadWaits, RoomToMake, RoomDone DEF UploadRenamed, Doing
<1>14. ASSUME NEW fh \in Fhs, Write(fh)
      PROVE  Room'
  <2>1. Calm /\ made' = [made EXCEPT !.ver = made.ver + 1]
    BY <1>14, <1>0, JobCalm, NextNumbers DEF Write
  <2> QED
    BY <1>0, <2>1, RoomKept
<1>15. ASSUME SetLen
      PROVE  Room'
  <2>1. Calm /\ made' = [made EXCEPT !.ver = made.ver + 1]
    BY <1>15, <1>0, JobCalm DEF SetLen
  <2> QED
    BY <1>0, <2>1, RoomKept
<1>16. ASSUME NEW w \in Workers, BeginCommit(w)
      PROVE  Room'
  <2>1. CASE Saved(w)
    BY <1>16, <1>0, <2>1, JobCalm, RoomKept DEF BeginCommit, Saved
  <2>2. CASE ~Saved(w)
    <3> DEFINE f == writer[handle[job[w].fh]].file
    <3>1. job' = [job EXCEPT ![w] = Plan(w, f)] /\ UNCHANGED made
      BY <1>16, <2>2 DEF BeginCommit
    <3>2. Plan(w, f).kind = job[w].kind /\ Plan(w, f).new = job[w].new
      <4> HIDE DEF f
      <4> QED BY <1>0 DEF Plan, TypeOK, Job
    <3>3. Calm
      <4> HIDE DEF f
      <4> QED BY <1>0, <3>1, <3>2 DEF Calm, TypeOK
    <3> QED
      BY <1>0, <3>1, <3>3, RoomKept
  <2> QED
    BY <2>1, <2>2
<1>17. ASSUME NEW w \in Workers, RepointSaved(w)
      PROVE  Room'
  BY <1>17, <1>0, JobCalm, RoomKept DEF RepointSaved, Saved
<1>18. ASSUME NEW w \in Workers, UploadFails(w)
      PROVE  Room'
  BY <1>18, <1>0, JobCalm, RoomKept DEF UploadFails
<1>19. ASSUME NEW w \in Workers, CloseReleased(w)
      PROVE  Room'
  BY <1>19, <1>0, JobCalm, RoomKept DEF CloseReleased
<1>20. ASSUME NEW w \in Workers, JobFails(w)
      PROVE  Room'
  BY <1>20, <1>0, JobCalm, RoomKept DEF JobFails
<1>21. ASSUME NEW w \in Workers, RepointCut(w)
      PROVE  Room'
  BY <1>21, <1>0, JobCalm, RoomKept DEF RepointCut
<1>22. ASSUME NEW w \in Workers, DiscardUnlinked(w)
      PROVE  Room'
  BY <1>22, <1>0, JobCalm, RoomKept DEF DiscardUnlinked
<1>23. ASSUME NEW w \in Workers, RepointRenamed(w)
      PROVE  Room'
  BY <1>23, <1>0, JobCalm, RoomKept DEF RepointRenamed
<1>24. ASSUME NEW w \in Workers, DropReplaced(w)
      PROVE  Room'
  BY <1>24, <1>0, JobCalm, RoomKept DEF DropReplaced
<1>25. ASSUME NEW w \in Workers, Settle(w)
      PROVE  Room'
  BY <1>25, <1>0, JobCalm, RoomKept DEF Settle
<1>26. ASSUME NEW w \in Workers, DropOld(w)
      PROVE  Room'
  BY <1>26, <1>0, JobCalm, RoomKept DEF DropOld
<1>27. ASSUME NEW w \in Workers, Delete(w)
      PROVE  Room'
  BY <1>27, <1>0, JobCalm, RoomKept DEF Delete
<1>28. ASSUME NEW w \in Workers, KeepsVictim(w)
      PROVE  Room'
  BY <1>28, <1>0, JobCalm, RoomKept DEF KeepsVictim
<1>29. ASSUME NEW w \in Workers, DiscardVictim(w)
      PROVE  Room'
  BY <1>29, <1>0, JobCalm, RoomKept DEF DiscardVictim
<1>30. ASSUME NEW n \in Names,
             Lookup(n) \/ Truncate(n) \/ UnlinkPending(n)
      PROVE  UNCHANGED <<job, made>>
  BY <1>30 DEF Lookup, Truncate, UnlinkPending
<1>31. ASSUME NEW fh \in Fhs,
             FlushClean(fh) \/ ReleaseClean(fh)
      PROVE  UNCHANGED <<job, made>>
  BY <1>31 DEF FlushClean, ReleaseClean
<1>32. ASSUME NEW id \in Ids,
             RemovedElsewhere(id)
      PROVE  UNCHANGED <<job, made>>
  BY <1>32 DEF RemovedElsewhere
<1>33. ASSUME UNCHANGED <<job, made>>
      PROVE  Room'
  BY <1>33, <1>0, JobCalm, RoomKept
<1> QED
  BY <1>1, <1>2, <1>3, <1>4, <1>5, <1>6, <1>7, <1>8, <1>9, <1>10, <1>11, <1>12,
     <1>13, <1>14, <1>15, <1>16, <1>17, <1>18, <1>19, <1>20, <1>21, <1>22, <1>23, <1>24,
     <1>25, <1>26, <1>27, <1>28, <1>29, <1>30, <1>31, <1>32, <1>33
  DEF Next, Request, JobStep, CommitStep, OtherStep, vars, vault, inodes, buffers, kernel
-----------------------------------------------------------------------------
(* Records, handles and jobs. *)

\* What was made stays made, and records do not change.
Stays ==
  /\ made'.id \in Nat /\ made.id <= made'.id /\ made.fh <= made'.fh
  /\ \A id \in IdsMade : rec'[id] = rec[id]

\* ingest_record leaves the records there are.
LEMMA IngestStays ==
  ASSUME TypeOK, NEW n, NEW v, Ingest(n, v),
         made' = [made EXCEPT !.id = @ + 1] \/ made' = [made EXCEPT !.id = @ + 1, !.ver = @ + 1]
  PROVE  Stays
<1>1. made'.id = made.id + 1 /\ made'.fh = made.fh /\ made.id \in Nat /\ made.fh \in Nat
  BY NextNumbers DEF TypeOK, Counts
<1>2. \A id \in IdsMade : id # Made("id")
  BY NextNumbers DEF IdsMade
<1>3. \A id \in IdsMade : rec'[id] = rec[id]
  BY <1>2 DEF Ingest, TypeOK
<1> QED BY <1>1, <1>3 DEF Stays

\* Every step leaves the records as they are.
LEMMA StaysNext == IInv /\ [Next]_vars => Stays
<1> SUFFICES ASSUME IInv, [Next]_vars
             PROVE  Stays
  OBVIOUS
<1>0. TypeOK /\ made.id \in Nat /\ made.fh \in Nat
  BY NextNumbers DEF IInv
<1>1. ASSUME NEW n \in Names, Create(n)
      PROVE  Stays
  BY <1>1, <1>0, NextNumbers DEF Create, Stays, TypeOK, Counts, vault
<1>2. ASSUME NEW n \in Names, OpenShared(n)
      PROVE  Stays
  BY <1>2, <1>0, NextNumbers DEF OpenShared, Stays, TypeOK, Counts, vault
<1>3. ASSUME NEW fh \in Fhs, Write(fh)
      PROVE  Stays
  BY <1>3, <1>0, NextNumbers DEF Write, Stays, TypeOK, Counts, vault
<1>4. ASSUME SetLen
      PROVE  Stays
  BY <1>4, <1>0, NextNumbers DEF SetLen, Stays, TypeOK, Counts, vault
<1>5. ASSUME NEW w \in Workers, AttachLoaded(w)
      PROVE  Stays
  <2>1. made'.id = made.id /\ made'.fh = made.fh + 1 /\ UNCHANGED rec
    BY <1>5, <1>0 DEF AttachLoaded, TypeOK, Counts, vault
  <2> QED
    BY <1>0, <2>1 DEF Stays
<1>6. ASSUME NEW w \in Workers, Upload(w)
      PROVE  Stays
  BY <1>6, <1>0, IngestStays DEF Upload
<1>7. ASSUME NEW w \in Workers, UploadCut(w)
      PROVE  Stays
  BY <1>7, <1>0, IngestStays DEF UploadCut
<1>8. ASSUME NEW w \in Workers, UploadRenamed(w)
      PROVE  Stays
  BY <1>8, <1>0, IngestStays DEF UploadRenamed
<1>9. ASSUME NEW n \in Names, AddedElsewhere(n)
      PROVE  Stays
  BY <1>9, <1>0, IngestStays DEF AddedElsewhere
<1>10. ASSUME NEW n \in Names,
             Lookup(n) \/ Truncate(n) \/ UnlinkPending(n)
      PROVE  UNCHANGED <<rec, made>>
  BY <1>10 DEF Lookup, Truncate, UnlinkPending, vault, Hide
<1>11. ASSUME NEW n \in Names, NEW w \in Workers,
             OpenRemote(n, w) \/ TruncateRemote(n, w) \/ UnlinkRemote(n, w)
      PROVE  UNCHANGED <<rec, made>>
  BY <1>11 DEF OpenRemote, TruncateRemote, UnlinkRemote, vault, Hide
<1>12. ASSUME NEW n \in Names, NEW to \in Names, NEW w \in Workers,
             Rename(n, to, w)
      PROVE  UNCHANGED <<rec, made>>
  BY <1>12 DEF Rename, vault, Hide
<1>13. ASSUME NEW fh \in Fhs,
             FlushClean(fh) \/ ReleaseClean(fh)
      PROVE  UNCHANGED <<rec, made>>
  BY <1>13 DEF FlushClean, ReleaseClean, vault, Hide
<1>14. ASSUME NEW fh \in Fhs, NEW w \in Workers,
             Flush(fh, w) \/ ReleaseDirty(fh, w)
      PROVE  UNCHANGED <<rec, made>>
  BY <1>14 DEF Flush, ReleaseDirty, vault, Hide
<1>15. ASSUME NEW id \in Ids,
             RemovedElsewhere(id)
      PROVE  UNCHANGED <<rec, made>>
  BY <1>15 DEF RemovedElsewhere, vault, Hide
<1>16. ASSUME NEW w \in Workers,
             BeginCommit(w) \/ UploadFails(w) \/ DropReplaced(w) \/ Settle(w) \/
             RepointSaved(w) \/ CloseReleased(w) \/ JobFails(w) \/ DropOld(w) \/
             RepointCut(w) \/ Delete(w) \/ KeepsVictim(w) \/ DiscardUnlinked(w) \/
             DiscardVictim(w) \/ RepointRenamed(w)
      PROVE  UNCHANGED <<rec, made>>
  BY <1>16 DEF BeginCommit, UploadFails, DropReplaced, Settle, RepointSaved,
     CloseReleased, JobFails, DropOld, RepointCut, Delete, KeepsVictim, DiscardUnlinked,
     DiscardVictim, RepointRenamed, vault, Hide
<1>17. ASSUME UNCHANGED <<rec, made>>
      PROVE  Stays
  BY <1>17, <1>0 DEF Stays
<1> QED
  BY <1>1, <1>2, <1>3, <1>4, <1>5, <1>6, <1>7, <1>8, <1>9, <1>10, <1>11, <1>12,
     <1>13, <1>14, <1>15, <1>16, <1>17
  DEF Next, Request, JobStep, CommitStep, OtherStep, vars, vault, inodes, buffers, kernel

\* Records that were made stay made.
LEMMA StaysIds ==
  ASSUME TypeOK, Stays
  PROVE  IdsMade \subseteq IdsMade'
<1>1. made.id \in Nat /\ made'.id \in Nat /\ made.id <= made'.id
  BY NextNumbers DEF Stays
<1> QED BY <1>1 DEF IdsMade

\* A new record is counted.
LEMMA IngestKnown ==
  ASSUME TypeOK, index \subseteq IdsMade, NEW n, NEW v, Ingest(n, v),
         made' = [made EXCEPT !.id = @ + 1] \/ made' = [made EXCEPT !.id = @ + 1, !.ver = @ + 1]
  PROVE  index' \subseteq IdsMade' /\ Made("id") \in IdsMade'
<1>1. made'.id = made.id + 1 /\ made.id \in Nat /\ Made("id") = made.id + 1
  BY NextNumbers DEF TypeOK, Counts
<1>2. IdsMade \subseteq IdsMade' /\ Made("id") \in IdsMade'
  BY <1>1 DEF IdsMade
<1>3. index' = index \cup {Made("id")}
  BY DEF Ingest
<1> QED BY <1>2, <1>3

\* The index shows records that were made.
LEMMA IndexNext == IInv /\ [Next]_vars => (index \subseteq IdsMade)'
<1> SUFFICES ASSUME IInv, [Next]_vars
             PROVE  (index \subseteq IdsMade)'
  OBVIOUS
<1>0. TypeOK /\ index \subseteq IdsMade /\ IdsMade \subseteq IdsMade'
  BY StaysNext, StaysIds DEF IInv, Known
<1>1. ASSUME NEW w \in Workers, Upload(w)
      PROVE  (index \subseteq IdsMade)'
  BY <1>1, <1>0, IngestKnown DEF Upload
<1>2. ASSUME NEW w \in Workers, UploadCut(w)
      PROVE  (index \subseteq IdsMade)'
  BY <1>2, <1>0, IngestKnown DEF UploadCut
<1>3. ASSUME NEW w \in Workers, UploadRenamed(w)
      PROVE  (index \subseteq IdsMade)'
  BY <1>3, <1>0, IngestKnown DEF UploadRenamed
<1>4. ASSUME NEW n \in Names, AddedElsewhere(n)
      PROVE  (index \subseteq IdsMade)'
  BY <1>4, <1>0, IngestKnown DEF AddedElsewhere
<1>5. ASSUME NEW w \in Workers, DropReplaced(w)
      PROVE  (index \subseteq IdsMade)'
  BY <1>5, <1>0 DEF DropReplaced, Hide
<1>6. ASSUME NEW w \in Workers, DropOld(w)
      PROVE  (index \subseteq IdsMade)'
  BY <1>6, <1>0 DEF DropOld, Hide
<1>7. ASSUME NEW w \in Workers, Delete(w)
      PROVE  (index \subseteq IdsMade)'
  BY <1>7, <1>0 DEF Delete, Hide
<1>8. ASSUME NEW id \in Ids, RemovedElsewhere(id)
      PROVE  (index \subseteq IdsMade)'
  BY <1>8, <1>0 DEF RemovedElsewhere, Hide
<1>9. ASSUME SetLen
      PROVE  UNCHANGED <<index>>
  BY <1>9 DEF SetLen, vault
<1>10. ASSUME NEW n \in Names,
             Create(n) \/ Lookup(n) \/ OpenShared(n) \/ Truncate(n) \/ UnlinkPending(n)
      PROVE  UNCHANGED <<index>>
  BY <1>10 DEF Create, Lookup, OpenShared, Truncate, UnlinkPending, vault
<1>11. ASSUME NEW n \in Names, NEW w \in Workers,
             OpenRemote(n, w) \/ TruncateRemote(n, w) \/ UnlinkRemote(n, w)
      PROVE  UNCHANGED <<index>>
  BY <1>11 DEF OpenRemote, TruncateRemote, UnlinkRemote, vault
<1>12. ASSUME NEW n \in Names, NEW to \in Names, NEW w \in Workers,
             Rename(n, to, w)
      PROVE  UNCHANGED <<index>>
  BY <1>12 DEF Rename, vault
<1>13. ASSUME NEW fh \in Fhs,
             Write(fh) \/ FlushClean(fh) \/ ReleaseClean(fh)
      PROVE  UNCHANGED <<index>>
  BY <1>13 DEF Write, FlushClean, ReleaseClean, vault
<1>14. ASSUME NEW fh \in Fhs, NEW w \in Workers,
             Flush(fh, w) \/ ReleaseDirty(fh, w)
      PROVE  UNCHANGED <<index>>
  BY <1>14 DEF Flush, ReleaseDirty, vault
<1>15. ASSUME NEW w \in Workers,
             BeginCommit(w) \/ UploadFails(w) \/ Settle(w) \/ RepointSaved(w) \/
             CloseReleased(w) \/ AttachLoaded(w) \/ JobFails(w) \/ RepointCut(w) \/
             KeepsVictim(w) \/ DiscardUnlinked(w) \/ DiscardVictim(w) \/
             RepointRenamed(w)
      PROVE  UNCHANGED <<index>>
  BY <1>15 DEF BeginCommit, UploadFails, Settle, RepointSaved, CloseReleased,
     AttachLoaded, JobFails, RepointCut, KeepsVictim, DiscardUnlinked, DiscardVictim,
     RepointRenamed, vault
<1>16. ASSUME UNCHANGED <<index>>
      PROVE  (index \subseteq IdsMade)'
  BY <1>16, <1>0
<1> QED
  BY <1>1, <1>2, <1>3, <1>4, <1>5, <1>6, <1>7, <1>8, <1>9, <1>10, <1>11, <1>12,
     <1>13, <1>14, <1>15, <1>16
  DEF Next, Request, JobStep, CommitStep, OtherStep, vars, vault, inodes, buffers, kernel

NodesKnown == \A i \in Inos : node[i].kind = "remote" => node[i].id \in IdsMade

\* One inode gets another node.
LEMMA NodeSet ==
  ASSUME TypeOK, NodesKnown, IdsMade \subseteq IdsMade', NEW i, NEW x,
         node' = [node EXCEPT ![i] = x], x.kind = "remote" => x.id \in IdsMade'
  PROVE  NodesKnown'
  BY DEF TypeOK, NodesKnown

\* The record that a job repoints an inode to was made.
LEMMA NewKnown ==
  ASSUME IInv, NEW w \in Workers
  PROVE  /\ Saving(w, "drop") \/ Saving(w, "settle") \/ Saving(w, "repoint") =>
              job[w].new \in IdsMade /\ rec[job[w].new].ver = job[w].ver
         /\ job[w].kind \in {"truncate", "rename"} /\ job[w].pc # "upload" => job[w].new \in IdsMade
         /\ job[w].kind \in {"open", "truncate", "unlink", "rename"} => job[w].id \in IdsMade
<1>1. JobShape(w)
  BY DEF IInv
<1>2. CASE job[w].kind \in {"flush", "release"}
  BY <1>1, <1>2 DEF JobShape, Commits, Saving, SaveJob, NoJob
<1>3. CASE job[w].kind \notin {"flush", "release"}
  BY <1>1, <1>3 DEF JobShape, Commits, Saving, TruncateJob, RenameJob, OpenJob, UnlinkJob, NoJob
<1> QED BY <1>2, <1>3

\* An inode leads to a record that was made.
LEMMA NodesNext == IInv /\ [Next]_vars => NodesKnown'
<1> SUFFICES ASSUME IInv, [Next]_vars
             PROVE  NodesKnown'
  OBVIOUS
<1>0. TypeOK /\ NodesKnown /\ index \subseteq IdsMade /\ IdsMade \subseteq IdsMade'
  BY StaysNext, StaysIds DEF IInv, Known, NodesKnown
<1>1. ASSUME NEW n \in Names, Create(n)
      PROVE  NodesKnown'
  <2>1. node' = [node EXCEPT ![Made("ino")] = Pending(n)] /\ Pending(n).kind # "remote"
    BY <1>1 DEF Create, Pending
  <2> QED
    BY <1>0, <2>1, NodeSet
<1>2. ASSUME NEW n \in Names, Lookup(n)
      PROVE  NodesKnown'
  <2>1. CASE UNCHANGED node
    BY <1>0, <2>1 DEF NodesKnown
  <2>2. CASE ~UNCHANGED node
    <3> DEFINE id == Holder(n)
               x == IF inoOf[id] # 0 THEN node[InoForRemote(id)] ELSE Remote(id)
    <3>1. id # 0 /\ node' = [node EXCEPT ![InoForRemote(id)] = x]
      BY <1>2, <2>2 DEF Lookup
    <3>2. id \in index /\ id \in Ids
      BY <1>0, <3>1, HolderType DEF TypeOK
    <3>3. x.kind = "remote" => x.id \in IdsMade
      <4>1. InoForRemote(id) \in Inos
        BY <1>0, <3>2, LookupType
      <4> QED BY <1>0, <3>2, <4>1 DEF NodesKnown, Remote
    <3> HIDE DEF x
    <3> QED
      BY <1>0, <3>1, <3>3, NodeSet
  <2> QED
    BY <2>1, <2>2
<1>3. ASSUME NEW n \in Names, UnlinkPending(n)
      PROVE  NodesKnown'
  <2>1. node' = [node EXCEPT ![pending[n]] = NoNode] /\ NoNode.kind # "remote"
    BY <1>3 DEF UnlinkPending, NoNode
  <2> QED
    BY <1>0, <2>1, NodeSet
<1>4. ASSUME NEW w \in Workers, RepointSaved(w)
      PROVE  NodesKnown'
  <2>1. /\ node' = [node EXCEPT ![job[w].ino] = Remote(job[w].new)]
        /\ Remote(job[w].new).id \in IdsMade
    BY <1>4, NewKnown DEF RepointSaved, Repoint, Remote
  <2> QED
    BY <1>0, <2>1, NodeSet
<1>5. ASSUME NEW w \in Workers, RepointCut(w)
      PROVE  NodesKnown'
  <2>1. /\ node' = [node EXCEPT ![job[w].ino] = Remote(job[w].new)]
        /\ Remote(job[w].new).id \in IdsMade
    BY <1>5, NewKnown DEF RepointCut, Repoint, Remote, Doing
  <2> QED
    BY <1>0, <2>1, NodeSet
<1>6. ASSUME NEW w \in Workers, RepointRenamed(w)
      PROVE  NodesKnown'
  <2>1. CASE UNCHANGED node
    BY <1>0, <2>1 DEF NodesKnown
  <2>2. CASE ~UNCHANGED node
    <3>1. /\ node' = [node EXCEPT ![inoOf[job[w].id]] = Remote(job[w].new)]
          /\ Remote(job[w].new).id \in IdsMade
      BY <1>6, <2>2, NewKnown DEF RepointRenamed, inodes, Repoint, Remote, Doing
    <3> QED
      BY <1>0, <3>1, NodeSet
  <2> QED
    BY <2>1, <2>2
<1>7. ASSUME SetLen
      PROVE  UNCHANGED <<node>>
  BY <1>7 DEF SetLen, inodes
<1>8. ASSUME NEW n \in Names,
             OpenShared(n) \/ Truncate(n) \/ AddedElsewhere(n)
      PROVE  UNCHANGED <<node>>
  BY <1>8 DEF OpenShared, Truncate, AddedElsewhere, inodes
<1>9. ASSUME NEW n \in Names, NEW w \in Workers,
             OpenRemote(n, w) \/ TruncateRemote(n, w) \/ UnlinkRemote(n, w)
      PROVE  UNCHANGED <<node>>
  BY <1>9 DEF OpenRemote, TruncateRemote, UnlinkRemote, inodes
<1>10. ASSUME NEW n \in Names, NEW to \in Names, NEW w \in Workers,
             Rename(n, to, w)
      PROVE  UNCHANGED <<node>>
  BY <1>10 DEF Rename, inodes
<1>11. ASSUME NEW fh \in Fhs,
             Write(fh) \/ FlushClean(fh) \/ ReleaseClean(fh)
      PROVE  UNCHANGED <<node>>
  BY <1>11 DEF Write, FlushClean, ReleaseClean, inodes
<1>12. ASSUME NEW fh \in Fhs, NEW w \in Workers,
             Flush(fh, w) \/ ReleaseDirty(fh, w)
      PROVE  UNCHANGED <<node>>
  BY <1>12 DEF Flush, ReleaseDirty, inodes
<1>13. ASSUME NEW id \in Ids,
             RemovedElsewhere(id)
      PROVE  UNCHANGED <<node>>
  BY <1>13 DEF RemovedElsewhere, inodes
<1>14. ASSUME NEW w \in Workers,
             BeginCommit(w) \/ Upload(w) \/ UploadFails(w) \/ DropReplaced(w) \/
             Settle(w) \/ CloseReleased(w) \/ AttachLoaded(w) \/ JobFails(w) \/
             UploadCut(w) \/ UploadRenamed(w) \/ DropOld(w) \/ Delete(w) \/
             KeepsVictim(w) \/ DiscardUnlinked(w) \/ DiscardVictim(w)
      PROVE  UNCHANGED <<node>>
  BY <1>14 DEF BeginCommit, Upload, UploadFails, DropReplaced, Settle, CloseReleased,
     AttachLoaded, JobFails, UploadCut, UploadRenamed, DropOld, Delete, KeepsVictim,
     DiscardUnlinked, DiscardVictim, inodes
<1>15. ASSUME UNCHANGED <<node>>
      PROVE  NodesKnown'
  BY <1>15, <1>0 DEF NodesKnown
<1> QED
  BY <1>1, <1>2, <1>3, <1>4, <1>5, <1>6, <1>7, <1>8, <1>9, <1>10, <1>11, <1>12,
     <1>13, <1>14, <1>15
  DEF Next, Request, JobStep, CommitStep, OtherStep, vars, vault, inodes, buffers, kernel
HandlesKnown ==
  /\ \A fh \in Fhs : handle[fh] # 0 => fh <= made.fh
  /\ \A fh \in open : handle[fh] # 0

\* A handle is opened.
LEMMA AttachKnown ==
  ASSUME TypeOK, HandlesKnown, NEW i \in Inos, NEW f, Attach(i, f), Made("fh") \in Fhs,
         made'.fh = made.fh + 1
  PROVE  HandlesKnown'
<1>1. /\ handle' = [handle EXCEPT ![made.fh + 1] = i] /\ open' = open \cup {made.fh + 1}
      /\ i # 0 /\ made.fh + 1 \in Fhs /\ made.fh \in Nat /\ Fhs \subseteq Nat
  <2>1. Made("fh") = made.fh + 1 /\ made.fh \in Nat /\ MaxFh \in Nat
    BY NextNumbers
  <2>2. i # 0 /\ Fhs \subseteq Nat
    BY <2>1 DEF Inos, Fhs
  <2> QED BY <2>1, <2>2 DEF Attach
<1>2. handle \in [Fhs -> OptIno] /\ open \subseteq Fhs
  BY DEF TypeOK
<1> QED BY <1>1, <1>2 DEF HandlesKnown

\* The handle of a save that runs.
LEMMA SaveFh ==
  ASSUME IInv, NEW w \in Workers, Commits(w)
  PROVE  /\ job[w].fh \in Fhs /\ handle[job[w].fh] # 0 /\ job[w].fh <= made.fh
         /\ job[w].kind = "flush" <=> job[w].fh \in open
<1>1. JobShape(w)
  BY DEF IInv
<1>2. /\ job[w].fh \in Fhs /\ handle[job[w].fh] # 0
      /\ job[w].kind = "flush" <=> job[w].fh \in open
  BY <1>1 DEF JobShape, Commits, SaveJob, NoJob
<1> QED BY <1>2 DEF IInv, Known

\* Handles were opened, and an open one has an inode.
LEMMA HandlesKnownNext == IInv /\ [Next]_vars => HandlesKnown'
<1> SUFFICES ASSUME IInv, [Next]_vars
             PROVE  HandlesKnown'
  OBVIOUS
<1>0. TypeOK /\ HandlesKnown /\ Room
  BY DEF IInv, Known, HandlesKnown
<1>00. made.fh \in Nat /\ made'.fh \in Nat /\ made.fh <= made'.fh /\ Fhs \subseteq Nat
  BY <1>0, StaysNext, CountsNext, NextNumbers DEF Stays, Fhs, Counts
<1>1. ASSUME NEW n \in Names, Create(n)
      PROVE  HandlesKnown'
  <2>1. Attach(Made("ino"), Made("file")) /\ Made("ino") \in Inos /\ Made("fh") \in Fhs
    BY <1>1, <1>0, CreateIno, RoomToMake DEF Create
  <2>2. made'.fh = made.fh + 1
    BY <1>1, <1>0 DEF Create, TypeOK, Counts
  <2> QED
    BY <1>0, <2>1, <2>2, AttachKnown
<1>2. ASSUME NEW n \in Names, OpenShared(n)
      PROVE  HandlesKnown'
  <2>1. Attach(dentry[n], 0) /\ dentry[n] \in Inos /\ Made("fh") \in Fhs
    BY <1>2, <1>0, RoomToMake DEF OpenShared, TypeOK, OptIno
  <2>2. made'.fh = made.fh + 1
    BY <1>2, <1>0 DEF OpenShared, TypeOK, Counts
  <2> QED
    BY <1>0, <2>1, <2>2, AttachKnown
<1>3. ASSUME NEW w \in Workers, AttachLoaded(w)
      PROVE  HandlesKnown'
  <2>1. Attach(job[w].ino, Made("file")) /\ job[w].ino \in Inos /\ Made("fh") \in Fhs
    BY <1>3, <1>0, JobIds, UploadWaits, RoomToMake DEF AttachLoaded, Doing
  <2>2. made'.fh = made.fh + 1
    BY <1>3, <1>0 DEF AttachLoaded, TypeOK, Counts
  <2> QED
    BY <1>0, <2>1, <2>2, AttachKnown
<1>4. ASSUME NEW fh \in Fhs, ReleaseClean(fh)
      PROVE  HandlesKnown'
  <2>1. handle' = [handle EXCEPT ![fh] = 0] /\ open' = open \ {fh}
    BY <1>4 DEF ReleaseClean, CloseHandle
  <2> QED
    BY <1>0, <1>00, <2>1 DEF HandlesKnown, TypeOK
<1>5. ASSUME NEW fh \in Fhs, NEW w \in Workers, ReleaseDirty(fh, w)
      PROVE  HandlesKnown'
  <2>1. handle' = handle /\ open' = open \ {fh}
    BY <1>5 DEF ReleaseDirty
  <2> QED
    BY <1>0, <1>00, <2>1 DEF HandlesKnown, TypeOK
<1>6. ASSUME NEW w \in Workers, CloseReleased(w)
      PROVE  HandlesKnown'
  <2>1. Commits(w) /\ job[w].kind = "release"
    <3>1. JobShape(w)
      BY DEF IInv
    <3> QED BY <1>6, <3>1 DEF CloseReleased, Saving, JobShape, SaveJob, Commits, NoJob
  <2>2. job[w].fh \notin open
    BY <2>1, SaveFh
  <2>3. handle' = [handle EXCEPT ![job[w].fh] = 0] /\ open' = open
    BY <1>6 DEF CloseReleased, CloseHandle, kernel
  <2> QED
    BY <1>0, <1>00, <2>2, <2>3 DEF HandlesKnown, TypeOK
<1>7. ASSUME SetLen
      PROVE  UNCHANGED <<handle, open>>
  BY <1>7 DEF SetLen, kernel
<1>8. ASSUME NEW n \in Names,
             Lookup(n) \/ Truncate(n) \/ UnlinkPending(n) \/ AddedElsewhere(n)
      PROVE  UNCHANGED <<handle, open>>
  BY <1>8 DEF Lookup, Truncate, UnlinkPending, AddedElsewhere, kernel
<1>9. ASSUME NEW n \in Names, NEW w \in Workers,
             OpenRemote(n, w) \/ TruncateRemote(n, w) \/ UnlinkRemote(n, w)
      PROVE  UNCHANGED <<handle, open>>
  BY <1>9 DEF OpenRemote, TruncateRemote, UnlinkRemote, kernel
<1>10. ASSUME NEW n \in Names, NEW to \in Names, NEW w \in Workers,
             Rename(n, to, w)
      PROVE  UNCHANGED <<handle, open>>
  BY <1>10 DEF Rename, kernel
<1>11. ASSUME NEW fh \in Fhs,
             Write(fh) \/ FlushClean(fh)
      PROVE  UNCHANGED <<handle, open>>
  BY <1>11 DEF Write, FlushClean, kernel
<1>12. ASSUME NEW fh \in Fhs, NEW w \in Workers,
             Flush(fh, w)
      PROVE  UNCHANGED <<handle, open>>
  BY <1>12 DEF Flush, kernel
<1>13. ASSUME NEW id \in Ids,
             RemovedElsewhere(id)
      PROVE  UNCHANGED <<handle, open>>
  BY <1>13 DEF RemovedElsewhere, kernel
<1>14. ASSUME NEW w \in Workers,
             BeginCommit(w) \/ Upload(w) \/ UploadFails(w) \/ DropReplaced(w) \/
             Settle(w) \/ RepointSaved(w) \/ JobFails(w) \/ UploadCut(w) \/
             UploadRenamed(w) \/ DropOld(w) \/ RepointCut(w) \/ Delete(w) \/
             KeepsVictim(w) \/ DiscardUnlinked(w) \/ DiscardVictim(w) \/
             RepointRenamed(w)
      PROVE  UNCHANGED <<handle, open>>
  BY <1>14 DEF BeginCommit, Upload, UploadFails, DropReplaced, Settle, RepointSaved,
     JobFails, UploadCut, UploadRenamed, DropOld, RepointCut, Delete, KeepsVictim,
     DiscardUnlinked, DiscardVictim, RepointRenamed, kernel
<1>15. ASSUME UNCHANGED <<handle, open>>
      PROVE  HandlesKnown'
  BY <1>15, <1>0, <1>00 DEF HandlesKnown, TypeOK
<1> QED
  BY <1>1, <1>2, <1>3, <1>4, <1>5, <1>6, <1>7, <1>8, <1>9, <1>10, <1>11, <1>12,
     <1>13, <1>14, <1>15
  DEF Next, Request, JobStep, CommitStep, OtherStep, vars, vault, inodes, buffers, kernel

\* The handle of a save that goes on stays what it is.
HandlesStay ==
  \A v \in Workers : Commits(v) /\ job'[v] = job[v] =>
    handle'[job[v].fh] # 0 /\ (job[v].fh \in open' <=> job[v].fh \in open)

\* A new handle is none that a save has.
LEMMA AttachStays ==
  ASSUME IInv, NEW i \in Inos, NEW f, Attach(i, f)
  PROVE  HandlesStay
<1>1. /\ handle' = [handle EXCEPT ![made.fh + 1] = i] /\ open' = open \cup {made.fh + 1}
      /\ i # 0 /\ made.fh \in Nat /\ Fhs \subseteq Nat /\ handle \in [Fhs -> OptIno]
  <2>1. Made("fh") = made.fh + 1 /\ made.fh \in Nat /\ MaxFh \in Nat
    BY NextNumbers DEF IInv
  <2>2. i # 0 /\ Fhs \subseteq Nat
    BY <2>1 DEF Inos, Fhs
  <2> QED BY <2>1, <2>2 DEF Attach, IInv, TypeOK
<1> SUFFICES ASSUME NEW v \in Workers, Commits(v)
             PROVE  handle'[job[v].fh] # 0 /\ (job[v].fh \in open' <=> job[v].fh \in open)
  BY DEF HandlesStay
<1>2. job[v].fh \in Fhs /\ handle[job[v].fh] # 0 /\ job[v].fh <= made.fh
  BY SaveFh
<1>3. job[v].fh # made.fh + 1
  BY <1>1, <1>2
<1> QED BY <1>1, <1>2, <1>3

\* A handle that no flush works on is given up.
LEMMA ReleaseStays ==
  ASSUME IInv, NEW fh \in open, ~InJob(fh, {"flush"}), open' = open \ {fh},
         handle' = handle \/ handle' = [handle EXCEPT ![fh] = 0]
  PROVE  HandlesStay
<1> SUFFICES ASSUME NEW v \in Workers, Commits(v)
             PROVE  handle'[job[v].fh] # 0 /\ (job[v].fh \in open' <=> job[v].fh \in open)
  BY DEF HandlesStay
<1>1. /\ job[v].fh \in Fhs /\ handle[job[v].fh] # 0
      /\ job[v].kind = "flush" <=> job[v].fh \in open
  BY SaveFh
<1>2. job[v].fh # fh
  BY <1>1 DEF InJob
<1> QED BY <1>1, <1>2 DEF IInv, TypeOK

\* No step takes the handle from a save that goes on.
LEMMA HandlesStayNext == IInv /\ [Next]_vars => HandlesStay
<1> SUFFICES ASSUME IInv, [Next]_vars
             PROVE  HandlesStay
  OBVIOUS
<1>0. TypeOK /\ Room /\ OneRelease
  BY DEF IInv
<1>1. ASSUME NEW n \in Names, Create(n)
      PROVE  HandlesStay
  <2>1. Attach(Made("ino"), Made("file")) /\ Made("ino") \in Inos
    BY <1>1, <1>0, CreateIno DEF Create
  <2> QED
    BY <2>1, AttachStays
<1>2. ASSUME NEW n \in Names, OpenShared(n)
      PROVE  HandlesStay
  <2>1. Attach(dentry[n], 0) /\ dentry[n] \in Inos
    BY <1>2, <1>0 DEF OpenShared, TypeOK, OptIno
  <2> QED
    BY <2>1, AttachStays
<1>3. ASSUME NEW w \in Workers, AttachLoaded(w)
      PROVE  HandlesStay
  <2>1. Attach(job[w].ino, Made("file")) /\ job[w].ino \in Inos
    BY <1>3, JobIds DEF AttachLoaded, Doing
  <2> QED
    BY <2>1, AttachStays
<1>4. ASSUME NEW fh \in Fhs, ReleaseClean(fh)
      PROVE  HandlesStay
  BY <1>4, ReleaseStays DEF ReleaseClean, Releasable, CloseHandle
<1>5. ASSUME NEW fh \in Fhs, NEW w \in Workers, ReleaseDirty(fh, w)
      PROVE  HandlesStay
  BY <1>5, ReleaseStays DEF ReleaseDirty, Releasable
<1>6. ASSUME NEW w \in Workers, CloseReleased(w)
      PROVE  HandlesStay
  <2>1. Commits(w) /\ job[w].kind = "release"
    <3>1. JobShape(w)
      BY DEF IInv
    <3> QED BY <1>6, <3>1 DEF CloseReleased, Saving, JobShape, SaveJob, Commits, NoJob
  <2>2. /\ handle' = [handle EXCEPT ![job[w].fh] = 0] /\ open' = open
        /\ job'[w] = NoJob
    BY <1>6, <1>0 DEF CloseReleased, CloseHandle, kernel, End, TypeOK
  <2>3. ASSUME NEW v \in Workers, Commits(v), job'[v] = job[v]
        PROVE  handle'[job[v].fh] # 0 /\ (job[v].fh \in open' <=> job[v].fh \in open)
    <3>1. v # w
      BY <2>2, <2>3 DEF Commits, NoJob
    <3>2. /\ job[v].fh \in Fhs /\ handle[job[v].fh] # 0
          /\ job[v].kind = "flush" <=> job[v].fh \in open
          /\ job[w].fh \notin open
      BY <2>1, <2>3, SaveFh
    <3>3. job[v].fh # job[w].fh
      BY <1>0, <2>1, <2>3, <3>1, <3>2 DEF OneRelease, Commits
    <3> QED BY <1>0, <2>2, <3>2, <3>3 DEF TypeOK
  <2> QED
    BY <2>3 DEF HandlesStay
<1>7. ASSUME SetLen
      PROVE  UNCHANGED <<handle, open>>
  BY <1>7 DEF SetLen, kernel
<1>8. ASSUME NEW n \in Names,
             Lookup(n) \/ Truncate(n) \/ UnlinkPending(n) \/ AddedElsewhere(n)
      PROVE  UNCHANGED <<handle, open>>
  BY <1>8 DEF Lookup, Truncate, UnlinkPending, AddedElsewhere, kernel
<1>9. ASSUME NEW n \in Names, NEW w \in Workers,
             OpenRemote(n, w) \/ TruncateRemote(n, w) \/ UnlinkRemote(n, w)
      PROVE  UNCHANGED <<handle, open>>
  BY <1>9 DEF OpenRemote, TruncateRemote, UnlinkRemote, kernel
<1>10. ASSUME NEW n \in Names, NEW to \in Names, NEW w \in Workers,
             Rename(n, to, w)
      PROVE  UNCHANGED <<handle, open>>
  BY <1>10 DEF Rename, kernel
<1>11. ASSUME NEW fh \in Fhs,
             Write(fh) \/ FlushClean(fh)
      PROVE  UNCHANGED <<handle, open>>
  BY <1>11 DEF Write, FlushClean, kernel
<1>12. ASSUME NEW fh \in Fhs, NEW w \in Workers,
             Flush(fh, w)
      PROVE  UNCHANGED <<handle, open>>
  BY <1>12 DEF Flush, kernel
<1>13. ASSUME NEW id \in Ids,
             RemovedElsewhere(id)
      PROVE  UNCHANGED <<handle, open>>
  BY <1>13 DEF RemovedElsewhere, kernel
<1>14. ASSUME NEW w \in Workers,
             BeginCommit(w) \/ Upload(w) \/ UploadFails(w) \/ DropReplaced(w) \/
             Settle(w) \/ RepointSaved(w) \/ JobFails(w) \/ UploadCut(w) \/
             UploadRenamed(w) \/ DropOld(w) \/ RepointCut(w) \/ Delete(w) \/
             KeepsVictim(w) \/ DiscardUnlinked(w) \/ DiscardVictim(w) \/
             RepointRenamed(w)
      PROVE  UNCHANGED <<handle, open>>
  BY <1>14 DEF BeginCommit, Upload, UploadFails, DropReplaced, Settle, RepointSaved,
     JobFails, UploadCut, UploadRenamed, DropOld, RepointCut, Delete, KeepsVictim,
     DiscardUnlinked, DiscardVictim, RepointRenamed, kernel
<1>15. ASSUME UNCHANGED <<handle, open>>
      PROVE  HandlesStay
  BY <1>15, SaveFh DEF HandlesStay
<1> QED
  BY <1>1, <1>2, <1>3, <1>4, <1>5, <1>6, <1>7, <1>8, <1>9, <1>10, <1>11, <1>12,
     <1>13, <1>14, <1>15
  DEF Next, Request, JobStep, CommitStep, OtherStep, vars, vault, inodes, buffers, kernel

\* A job that a step does not touch keeps its shape.
LEMMA ShapeKept ==
  ASSUME IInv, Stays, IdsMade \subseteq IdsMade', HandlesStay,
         NEW v \in Workers, job'[v] = job[v]
  PROVE  JobShape(v)'
<1>1. JobShape(v)
  BY DEF IInv
<1>2. \A id \in IdsMade : id \in IdsMade' /\ rec'[id] = rec[id]
  BY DEF Stays
<1>3. CASE job[v] = NoJob
  BY <1>3 DEF JobShape
<1>4. CASE Commits(v) /\ SaveJob(job[v])
  <2>1. handle'[job[v].fh] # 0 /\ (job[v].fh \in open' <=> job[v].fh \in open)
    BY <1>4 DEF HandlesStay
  <2>2. SaveJob(job[v])'
    BY <1>2, <1>4, <2>1 DEF SaveJob
  <2>3. Commits(v)'
    BY <1>4 DEF Commits
  <2> QED BY <2>2, <2>3 DEF JobShape
<1>5. CASE job[v].kind = "open" /\ OpenJob(job[v])
  BY <1>2, <1>5 DEF JobShape, OpenJob
<1>6. CASE job[v].kind = "truncate" /\ TruncateJob(job[v])
  BY <1>2, <1>6 DEF JobShape, TruncateJob
<1>7. CASE job[v].kind = "unlink" /\ UnlinkJob(job[v])
  BY <1>2, <1>7 DEF JobShape, UnlinkJob
<1>8. CASE job[v].kind = "rename" /\ RenameJob(job[v])
  BY <1>2, <1>8 DEF JobShape, RenameJob
<1> QED BY <1>1, <1>3, <1>4, <1>5, <1>6, <1>7, <1>8 DEF JobShape
\* A save goes on to another step.
LEMMA SaveMoves ==
  ASSUME IInv, NEW w \in Workers, Commits(w), NEW p, GoTo(w, p),
         UNCHANGED <<rec, made, handle, open>>,
         \/ p \in {"settle", "repoint"} /\ job[w].pc \in {"drop", "settle"}
         \/ p = "close" /\ job[w].kind = "release"
  PROVE  JobShape(w)'
<1>1. job'[w] = [job[w] EXCEPT !.pc = p] /\ job[w] \in Job
  BY DEF GoTo, IInv, TypeOK
<1>2. SaveJob(job[w])
  <2>1. JobShape(w)
    BY DEF IInv
  <2> QED BY <2>1 DEF JobShape, Commits, NoJob
<1>3. /\ job'[w].pc = p /\ job'[w].kind = job[w].kind /\ job'[w].fh = job[w].fh
      /\ job'[w].new = job[w].new /\ job'[w].file = job[w].file /\ job'[w].ino = job[w].ino
      /\ job'[w].ver = job[w].ver
  BY <1>1 DEF Job
<1>4. IdsMade' = IdsMade
  BY DEF IdsMade
<1>5. SaveJob(job[w])'
  BY <1>2, <1>3, <1>4 DEF SaveJob
<1>6. Commits(w)'
  BY <1>3 DEF Commits
<1> QED BY <1>5, <1>6 DEF JobShape

\* A worker without a job, and the others.
LEMMA EndShape ==
  ASSUME TypeOK, NEW w \in Workers, End(w)
  PROVE  JobShape(w)' /\ \A v \in Workers \ {w} : job'[v] = job[v]
  BY DEF End, TypeOK, JobShape

\* One job goes on, the others do not.
LEMMA GoToOthers ==
  ASSUME TypeOK, NEW w \in Workers, NEW p, GoTo(w, p)
  PROVE  \A v \in Workers \ {w} : job'[v] = job[v]
  BY DEF GoTo, TypeOK

\* A truncate, an unlink or a rename goes on to another step.
LEMMA OtherMoves ==
  ASSUME IInv, NEW w \in Workers, NEW p, GoTo(w, p), UNCHANGED <<rec, made>>,
         \/ job[w].kind \in {"truncate", "rename"} /\ job[w].pc # "upload" /\ p = "repoint"
         \/ job[w].kind = "unlink" /\ p = "discard"
         \/ job[w].kind = "rename" /\ job[w].pc # "upload" /\ job[w].victim # 0
            /\ p \in {"delete", "discard"}
  PROVE  JobShape(w)'
<1>1. job'[w] = [job[w] EXCEPT !.pc = p] /\ job[w] \in Job
  BY DEF GoTo, IInv, TypeOK
<1>2. JobShape(w)
  BY DEF IInv
<1>3. /\ job'[w].pc = p /\ job'[w].kind = job[w].kind /\ job'[w].id = job[w].id
      /\ job'[w].new = job[w].new /\ job'[w].ino = job[w].ino /\ job'[w].name = job[w].name
      /\ job'[w].ver = job[w].ver /\ job'[w].victim = job[w].victim
  BY <1>1 DEF Job
<1>4. IdsMade' = IdsMade
  BY DEF IdsMade
<1>5. CASE job[w].kind = "truncate"
  <2>1. TruncateJob(job[w])
    BY <1>2, <1>5 DEF JobShape, Commits, NoJob
  <2>2. TruncateJob(job[w])'
    BY <1>3, <1>4, <1>5, <2>1 DEF TruncateJob
  <2> QED BY <1>3, <1>5, <2>2 DEF JobShape
<1>6. CASE job[w].kind = "unlink"
  <2>1. UnlinkJob(job[w])
    BY <1>2, <1>6 DEF JobShape, Commits, NoJob
  <2>2. UnlinkJob(job[w])'
    BY <1>3, <1>4, <1>6, <2>1 DEF UnlinkJob
  <2> QED BY <1>3, <1>6, <2>2 DEF JobShape
<1>7. CASE job[w].kind = "rename"
  <2>1. RenameJob(job[w])
    BY <1>2, <1>7 DEF JobShape, Commits, NoJob
  <2>2. RenameJob(job[w])'
    BY <1>3, <1>4, <1>7, <2>1 DEF RenameJob
  <2> QED BY <1>3, <1>7, <2>2 DEF JobShape
<1> QED BY <1>5, <1>6, <1>7

\* An upload is done.
Landed(w) == job' = [job EXCEPT ![w].new = Made("id"), ![w].pc = "drop"]

\* The job that uploaded knows the record it made.
LEMMA UploadMoves ==
  ASSUME IInv, Stays, IdsMade \subseteq IdsMade', NEW w \in Workers,
         Made("id") \in IdsMade', Made("id") \in Ids,
         Landed(w),
         \/ Commits(w) /\ job[w].pc \in {"upload", "create"} /\ UNCHANGED <<handle, open>>
         \/ job[w].kind \in {"truncate", "rename"},
         job[w].kind # "truncate" => rec'[Made("id")].ver = job[w].ver
  PROVE  JobShape(w)' /\ \A v \in Workers \ {w} : job'[v] = job[v]
<1>1. job'[w] = [job[w] EXCEPT !.new = Made("id"), !.pc = "drop"] /\ job[w] \in Job
  BY DEF Landed, IInv, TypeOK
<1>2. JobShape(w)
  BY DEF IInv
<1>3. /\ job'[w].pc = "drop" /\ job'[w].kind = job[w].kind /\ job'[w].id = job[w].id
      /\ job'[w].new = Made("id") /\ job'[w].ino = job[w].ino /\ job'[w].name = job[w].name
      /\ job'[w].ver = job[w].ver /\ job'[w].victim = job[w].victim
      /\ job'[w].fh = job[w].fh /\ job'[w].file = job[w].file
  BY <1>1 DEF Job
<1>4. \A v \in Workers \ {w} : job'[v] = job[v]
  BY DEF Landed, IInv, TypeOK
<1>5. CASE job[w].kind = "truncate"
  <2>1. TruncateJob(job[w])
    BY <1>2, <1>5 DEF JobShape, Commits, NoJob
  <2>2. TruncateJob(job[w])'
    BY <1>3, <1>5, <2>1 DEF TruncateJob
  <2> QED BY <1>3, <1>4, <1>5, <2>2 DEF JobShape
<1>6. CASE job[w].kind = "rename"
  <2>1. RenameJob(job[w])
    BY <1>2, <1>6 DEF JobShape, Commits, NoJob
  <2>2. rec'[job[w].id] = rec[job[w].id]
    BY <2>1 DEF RenameJob, Stays
  <2>3. RenameJob(job[w])'
    BY <1>3, <1>6, <2>1, <2>2 DEF RenameJob
  <2> QED BY <1>3, <1>4, <1>6, <2>3 DEF JobShape
<1>7. CASE Commits(w) /\ job[w].pc \in {"upload", "create"} /\ UNCHANGED <<handle, open>>
  <2>1. SaveJob(job[w])
    BY <1>2, <1>7 DEF JobShape, Commits, NoJob
  <2>2. SaveJob(job[w])'
    BY <1>3, <1>7, <2>1 DEF SaveJob, Commits
  <2>3. Commits(w)'
    BY <1>3, <1>7 DEF Commits
  <2> QED BY <1>4, <2>2, <2>3 DEF JobShape
<1> QED BY <1>5, <1>6, <1>7

ShapesOK == \A w \in Workers : JobShape(w)

\* Every job has the shape of its kind and step.
LEMMA ShapesNext == IInv /\ [Next]_vars => ShapesOK'
<1> SUFFICES ASSUME IInv, [Next]_vars
             PROVE  ShapesOK'
  OBVIOUS
<1>0. TypeOK /\ Room /\ Stays /\ IdsMade \subseteq IdsMade' /\ index \subseteq IdsMade
  BY StaysNext, StaysIds DEF IInv, Known
<1>00. ASSUME NEW w \in Workers, JobShape(w)', \A v \in Workers \ {w} : job'[v] = job[v]
       PROVE  ShapesOK'
  BY <1>00, <1>0, HandlesStayNext, ShapeKept DEF ShapesOK
<1>1. ASSUME NEW n \in Names, NEW w \in Workers, OpenRemote(n, w)
      PROVE  ShapesOK'
  <2>1. job'[w] = [NoJob EXCEPT !.kind = "open", !.pc = "attach", !.ino = dentry[n],
                                   !.id = node[dentry[n]].id]
        /\ \A v \in Workers \ {w} : job'[v] = job[v]
    BY <1>1, <1>0 DEF OpenRemote, Start, TypeOK
  <2>2. dentry[n] \in Inos /\ node[dentry[n]].id \in IdsMade'
    BY <1>1, <1>0 DEF OpenRemote, TypeOK, OptIno
  <2>3. JobShape(w)'
    BY <2>1, <2>2 DEF JobShape, OpenJob, NoJob
  <2> QED
    BY <1>00, <2>1, <2>3
<1>2. ASSUME NEW n \in Names, NEW w \in Workers, TruncateRemote(n, w)
      PROVE  ShapesOK'
  <2>1. job'[w] = [NoJob EXCEPT !.kind = "truncate", !.pc = "upload", !.ino = dentry[n],
                                   !.id = node[dentry[n]].id]
        /\ \A v \in Workers \ {w} : job'[v] = job[v]
    BY <1>2, <1>0 DEF TruncateRemote, Start, TypeOK
  <2>2. dentry[n] \in Inos /\ node[dentry[n]].id \in IdsMade'
    BY <1>2, <1>0 DEF TruncateRemote, TypeOK, OptIno
  <2>3. JobShape(w)'
    BY <2>1, <2>2 DEF JobShape, TruncateJob, NoJob
  <2> QED
    BY <1>00, <2>1, <2>3
<1>3. ASSUME NEW n \in Names, NEW w \in Workers, UnlinkRemote(n, w)
      PROVE  ShapesOK'
  <2>1. job'[w] = [NoJob EXCEPT !.kind = "unlink", !.pc = "delete", !.id = Holder(n),
                                   !.name = n]
        /\ \A v \in Workers \ {w} : job'[v] = job[v]
    BY <1>3, <1>0 DEF UnlinkRemote, Start, TypeOK
  <2>2. Holder(n) \in IdsMade'
    BY <1>3, <1>0, HolderType DEF UnlinkRemote
  <2>3. JobShape(w)'
    BY <2>1, <2>2 DEF JobShape, UnlinkJob, NoJob
  <2> QED
    BY <1>00, <2>1, <2>3
<1>4. ASSUME NEW n \in Names, NEW to \in Names, NEW w \in Workers, Rename(n, to, w)
      PROVE  ShapesOK'
  <2>1. job'[w] = [NoJob EXCEPT !.kind = "rename", !.pc = "upload", !.id = Holder(n),
                  !.name = to, !.ver = rec[Holder(n)].ver, !.victim = Holder(to)]
        /\ \A v \in Workers \ {w} : job'[v] = job[v]
    BY <1>4, <1>0 DEF Rename, Start, TypeOK
  <2>2. /\ Holder(n) \in IdsMade' /\ rec'[Holder(n)] = rec[Holder(n)]
        /\ rec[Holder(n)].name = n
    BY <1>4, <1>0, HolderType DEF Rename, vault
  <2>3. JobShape(w)'
    BY <2>1, <2>2 DEF JobShape, RenameJob, NoJob
  <2> QED
    BY <1>00, <2>1, <2>3
<1>5. ASSUME NEW fh \in Fhs, NEW w \in Workers, Flush(fh, w)
      PROVE  ShapesOK'
  <2>1. job'[w] = [NoJob EXCEPT !.kind = "flush", !.pc = "lock", !.fh = fh]
        /\ \A v \in Workers \ {w} : job'[v] = job[v]
    BY <1>5, <1>0 DEF Flush, Start, TypeOK
  <2>2. fh \in Fhs /\ handle'[fh] # 0 /\ fh \in open'
    BY <1>5 DEF Flush, IInv, Known
  <2>3. JobShape(w)'
    BY <2>1, <2>2 DEF JobShape, Commits, SaveJob, NoJob
  <2> QED
    BY <1>00, <2>1, <2>3
<1>6. ASSUME NEW fh \in Fhs, NEW w \in Workers, ReleaseDirty(fh, w)
      PROVE  ShapesOK'
  <2>1. job'[w] = [NoJob EXCEPT !.kind = "release", !.pc = "lock", !.fh = fh]
        /\ \A v \in Workers \ {w} : job'[v] = job[v]
    BY <1>6, <1>0 DEF ReleaseDirty, Start, TypeOK
  <2>2. fh \in Fhs /\ handle'[fh] # 0 /\ fh \notin open'
    BY <1>6 DEF ReleaseDirty, Releasable, IInv, Known
  <2>3. JobShape(w)'
    BY <2>1, <2>2 DEF JobShape, Commits, SaveJob, NoJob
  <2> QED
    BY <1>00, <2>1, <2>3
<1>7. ASSUME NEW w \in Workers, BeginCommit(w)
      PROVE  ShapesOK'
  <2>1. Commits(w) /\ UNCHANGED <<rec, made, handle, open>>
    BY <1>7 DEF BeginCommit, Saving, vault, kernel
  <2>2. CASE Saved(w)
    BY <1>7, <1>0, <1>00, <2>1, <2>2, EndShape, SaveMoves, GoToOthers DEF Saved
  <2>3. CASE ~Saved(w)
    <3> DEFINE f == writer[handle[job[w].fh]].file
    <3>1. job' = [job EXCEPT ![w] = Plan(w, f)]
      BY <1>7, <2>3 DEF BeginCommit
    <3>2. job'[w] = Plan(w, f) /\ \A v \in Workers \ {w} : job'[v] = job[v]
      BY <1>0, <3>1 DEF TypeOK
    <3>3. f \in Files /\ handle[job[w].fh] \in Inos
      BY <2>1, SaveHandle
    <3>4. SaveJob(job[w]) /\ job[w].pc = "lock" /\ job[w] \in Job
      <4>1. JobShape(w)
        BY DEF IInv
      <4> QED BY <1>7, <4>1, <1>0 DEF BeginCommit, Saving, JobShape, Commits, NoJob, TypeOK
    <3>5. /\ job'[w].kind = job[w].kind /\ job'[w].fh = job[w].fh /\ job'[w].new = job[w].new
          /\ job'[w].file = f /\ job'[w].ino = handle[job[w].fh]
          /\ job'[w].pc \in {"upload", "create"}
      <4> HIDE DEF f
      <4> QED BY <3>2, <3>4 DEF Plan, Job
    <3>6. SaveJob(job[w])' /\ Commits(w)'
      <4> HIDE DEF f
      <4> QED BY <2>1, <3>3, <3>4, <3>5 DEF SaveJob, Commits
    <3> QED
      BY <1>00, <3>2, <3>6 DEF JobShape
  <2> QED
    BY <2>2, <2>3
<1>8. ASSUME NEW w \in Workers, Upload(w)
      PROVE  ShapesOK'
  <2>1. Made("id") \in Ids /\ Made("id") \in IdsMade'
    BY <1>8, <1>0, UploadWaits, RoomToMake, IngestKnown DEF Upload
  <2>2. Landed(w) /\ Commits(w) /\ job[w].pc \in {"upload", "create"} /\ UNCHANGED <<handle, open>>
    BY <1>8 DEF Landed, Upload, Commits, kernel
  <2>3. rec'[Made("id")].ver = job[w].ver
    BY <1>8, <1>0, <2>1 DEF Upload, Ingest, TypeOK
  <2> QED
    BY <1>0, <1>00, <2>1, <2>2, <2>3, UploadMoves
<1>9. ASSUME NEW w \in Workers, UploadCut(w)
      PROVE  ShapesOK'
  <2>1. Made("id") \in Ids /\ Made("id") \in IdsMade'
    BY <1>9, <1>0, UploadWaits, RoomToMake, IngestKnown DEF UploadCut, Doing
  <2>2. Landed(w) /\ job[w].kind = "truncate"
    BY <1>9 DEF Landed, UploadCut, Doing
  <2> QED
    BY <1>0, <1>00, <2>1, <2>2, UploadMoves
<1>10. ASSUME NEW w \in Workers, UploadRenamed(w)
      PROVE  ShapesOK'
  <2>1. Made("id") \in Ids /\ Made("id") \in IdsMade'
    BY <1>10, <1>0, UploadWaits, RoomToMake, IngestKnown DEF UploadRenamed, Doing
  <2>2. Landed(w) /\ job[w].kind = "rename"
    BY <1>10 DEF Landed, UploadRenamed, Doing
  <2>3. rec'[Made("id")].ver = job[w].ver
    BY <1>10, <1>0, <2>1 DEF UploadRenamed, Ingest, TypeOK
  <2> QED
    BY <1>0, <1>00, <2>1, <2>2, <2>3, UploadMoves
<1>11. ASSUME NEW w \in Workers, UploadFails(w)
      PROVE  ShapesOK'
  BY <1>11, <1>0, <1>00, EndShape DEF UploadFails
<1>12. ASSUME NEW w \in Workers, CloseReleased(w)
      PROVE  ShapesOK'
  BY <1>12, <1>0, <1>00, EndShape DEF CloseReleased
<1>13. ASSUME NEW w \in Workers, AttachLoaded(w)
      PROVE  ShapesOK'
  BY <1>13, <1>0, <1>00, EndShape DEF AttachLoaded
<1>14. ASSUME NEW w \in Workers, JobFails(w)
      PROVE  ShapesOK'
  BY <1>14, <1>0, <1>00, EndShape DEF JobFails
<1>15. ASSUME NEW w \in Workers, RepointCut(w)
      PROVE  ShapesOK'
  BY <1>15, <1>0, <1>00, EndShape DEF RepointCut
<1>16. ASSUME NEW w \in Workers, DiscardUnlinked(w)
      PROVE  ShapesOK'
  BY <1>16, <1>0, <1>00, EndShape DEF DiscardUnlinked
<1>17. ASSUME NEW w \in Workers, RepointRenamed(w)
      PROVE  ShapesOK'
  BY <1>17, <1>0, <1>00, EndShape DEF RepointRenamed
<1>18. ASSUME NEW w \in Workers, DropReplaced(w)
      PROVE  ShapesOK'
  <2>1. /\ GoTo(w, "settle") /\ Commits(w) /\ job[w].pc = "drop"
        /\ UNCHANGED <<rec, made, handle, open>>
    BY <1>18 DEF DropReplaced, Saving, Hide, vault, kernel
  <2> QED
    BY <1>0, <1>00, <2>1, SaveMoves, GoToOthers
<1>19. ASSUME NEW w \in Workers, Settle(w)
      PROVE  ShapesOK'
  <2>1. /\ GoTo(w, "repoint") /\ Commits(w) /\ job[w].pc = "settle"
        /\ UNCHANGED <<rec, made, handle, open>>
    BY <1>19 DEF Settle, Saving, Hide, vault, kernel
  <2> QED
    BY <1>0, <1>00, <2>1, SaveMoves, GoToOthers
<1>20. ASSUME NEW w \in Workers, RepointSaved(w)
      PROVE  ShapesOK'
  <2>1. Saved(w) /\ Commits(w) /\ UNCHANGED <<rec, made, handle, open>>
    BY <1>20 DEF RepointSaved, Saving, vault, kernel
  <2> QED
    BY <1>0, <1>00, <2>1, EndShape, SaveMoves, GoToOthers DEF Saved
<1>21. ASSUME NEW w \in Workers, DropOld(w)
      PROVE  ShapesOK'
  <2> DEFINE p == IF job[w].victim # 0 THEN "delete" ELSE "repoint"
  <2>1. GoTo(w, p) /\ UNCHANGED <<rec, made>>
    BY <1>21 DEF DropOld, Hide
  <2>2. job[w].kind \in {"truncate", "rename"} /\ job[w].pc # "upload"
    BY <1>21 DEF DropOld
  <2>3. job[w].kind = "truncate" => job[w].victim = 0
    <3>1. JobShape(w)
      BY DEF IInv
    <3> QED BY <3>1 DEF JobShape, TruncateJob, Commits, NoJob
  <2>4. JobShape(w)'
    BY <2>1, <2>2, <2>3, OtherMoves
  <2>5. \A v \in Workers \ {w} : job'[v] = job[v]
    BY <1>0, <2>1, GoToOthers
  <2> QED
    BY <1>00, <2>4, <2>5
<1>22. ASSUME NEW w \in Workers, Delete(w)
      PROVE  ShapesOK'
  <2>1. /\ GoTo(w, "discard") /\ job[w].kind \in {"unlink", "rename"} /\ job[w].pc = "delete"
        /\ UNCHANGED <<rec, made>>
    BY <1>22 DEF Delete, Doing, Hide, vault
  <2>2. job[w].kind = "rename" => job[w].victim # 0
    <3>1. JobShape(w)
      BY DEF IInv
    <3> QED BY <2>1, <3>1 DEF JobShape, RenameJob, Commits, NoJob
  <2>3. JobShape(w)'
    BY <2>1, <2>2, OtherMoves
  <2>4. \A v \in Workers \ {w} : job'[v] = job[v]
    BY <1>0, <2>1, GoToOthers
  <2> QED
    BY <1>00, <2>3, <2>4
<1>23. ASSUME NEW w \in Workers, KeepsVictim(w)
      PROVE  ShapesOK'
  <2>1. /\ GoTo(w, "repoint") /\ job[w].kind \in {"unlink", "rename"} /\ job[w].pc = "delete"
        /\ UNCHANGED <<rec, made>>
    BY <1>23 DEF KeepsVictim, Doing, Hide, vault
  <2>2. job[w].kind = "rename"
    BY <1>23 DEF KeepsVictim, Doing
  <2>3. JobShape(w)'
    BY <2>1, <2>2, OtherMoves
  <2>4. \A v \in Workers \ {w} : job'[v] = job[v]
    BY <1>0, <2>1, GoToOthers
  <2> QED
    BY <1>00, <2>3, <2>4
<1>24. ASSUME NEW w \in Workers, DiscardVictim(w)
      PROVE  ShapesOK'
  <2>1. /\ GoTo(w, "repoint") /\ job[w].kind \in {"unlink", "rename"} /\ job[w].pc = "discard"
        /\ UNCHANGED <<rec, made>>
    BY <1>24 DEF DiscardVictim, Doing, Hide, vault
  <2>2. job[w].kind = "rename"
    BY <1>24 DEF DiscardVictim, Doing
  <2>3. JobShape(w)'
    BY <2>1, <2>2, OtherMoves
  <2>4. \A v \in Workers \ {w} : job'[v] = job[v]
    BY <1>0, <2>1, GoToOthers
  <2> QED
    BY <1>00, <2>3, <2>4
<1>25. ASSUME SetLen
      PROVE  UNCHANGED <<job>>
  BY <1>25 DEF SetLen
<1>26. ASSUME NEW n \in Names,
             Create(n) \/ Lookup(n) \/ OpenShared(n) \/ Truncate(n) \/
             UnlinkPending(n) \/ AddedElsewhere(n)
      PROVE  UNCHANGED <<job>>
  BY <1>26 DEF Create, Lookup, OpenShared, Truncate, UnlinkPending, AddedElsewhere
<1>27. ASSUME NEW fh \in Fhs,
             Write(fh) \/ FlushClean(fh) \/ ReleaseClean(fh)
      PROVE  UNCHANGED <<job>>
  BY <1>27 DEF Write, FlushClean, ReleaseClean
<1>28. ASSUME NEW id \in Ids,
             RemovedElsewhere(id)
      PROVE  UNCHANGED <<job>>
  BY <1>28 DEF RemovedElsewhere
<1>29. ASSUME UNCHANGED <<job>>
      PROVE  ShapesOK'
  BY <1>29, <1>0, HandlesStayNext, ShapeKept DEF ShapesOK
<1> QED
  BY <1>1, <1>2, <1>3, <1>4, <1>5, <1>6, <1>7, <1>8, <1>9, <1>10, <1>11, <1>12,
     <1>13, <1>14, <1>15, <1>16, <1>17, <1>18, <1>19, <1>20, <1>21, <1>22, <1>23, <1>24,
     <1>25, <1>26, <1>27, <1>28, <1>29
  DEF Next, Request, JobStep, CommitStep, OtherStep, vars, vault, inodes, buffers, kernel
\* No release is taken up, and none changes its handle.
ReleasesKept ==
  \A v \in Workers : job'[v].kind = "release" =>
    job[v].kind = "release" /\ job'[v].fh = job[v].fh

\* Steps that take up no release.
LEMMA ReleasesStay ==
  ASSUME TypeOK
  PROVE  /\ UNCHANGED job => ReleasesKept
         /\ \A w \in Workers : End(w) => ReleasesKept
         /\ \A w \in Workers : \A p : GoTo(w, p) => ReleasesKept
         /\ \A w \in Workers : Landed(w) => ReleasesKept
         /\ \A w \in Workers : \A j : Start(w, j) /\ j.kind # "release" => ReleasesKept
         /\ OneRelease /\ ReleasesKept => OneRelease'
<1>1. UNCHANGED job => ReleasesKept
  BY DEF ReleasesKept
<1>2. ASSUME NEW w \in Workers, End(w) PROVE ReleasesKept
  BY <1>2 DEF End, ReleasesKept, TypeOK, NoJob
<1>3. ASSUME NEW w \in Workers, NEW p, GoTo(w, p) PROVE ReleasesKept
  <2>1. \A v \in Workers : job'[v].kind = job[v].kind /\ job'[v].fh = job[v].fh
    BY <1>3 DEF GoTo, TypeOK, Job
  <2> QED BY <2>1 DEF ReleasesKept
<1>4. ASSUME NEW w \in Workers, Landed(w) PROVE ReleasesKept
  <2>1. \A v \in Workers : job'[v].kind = job[v].kind /\ job'[v].fh = job[v].fh
    BY <1>4 DEF Landed, TypeOK, Job
  <2> QED BY <2>1 DEF ReleasesKept
<1>5. ASSUME NEW w \in Workers, NEW j, Start(w, j), j.kind # "release" PROVE ReleasesKept
  BY <1>5 DEF Start, ReleasesKept, TypeOK
<1>6. OneRelease /\ ReleasesKept => OneRelease'
  BY DEF OneRelease, ReleasesKept
<1> QED BY <1>1, <1>2, <1>3, <1>4, <1>5, <1>6

\* A handle is released once.
LEMMA OneReleaseNext == IInv /\ [Next]_vars => OneRelease'
<1> SUFFICES ASSUME IInv, [Next]_vars
             PROVE  OneRelease'
  OBVIOUS
<1>0. TypeOK /\ OneRelease
  BY DEF IInv
<1>1. ASSUME NEW n \in Names, NEW w \in Workers, OpenRemote(n, w)
      PROVE  OneRelease'
  <2> DEFINE j == [NoJob EXCEPT !.kind = "open", !.pc = "attach", !.ino = dentry[n],
                        !.id = node[dentry[n]].id]
  <2>1. Start(w, j)
    BY <1>1 DEF OpenRemote
  <2>2. j.kind # "release"
    BY DEF NoJob
  <2> HIDE DEF j
  <2> QED
    BY <1>0, <2>1, <2>2, ReleasesStay
<1>2. ASSUME NEW n \in Names, NEW w \in Workers, TruncateRemote(n, w)
      PROVE  OneRelease'
  <2> DEFINE j == [NoJob EXCEPT !.kind = "truncate", !.pc = "upload", !.ino = dentry[n],
                        !.id = node[dentry[n]].id]
  <2>1. Start(w, j)
    BY <1>2 DEF TruncateRemote
  <2>2. j.kind # "release"
    BY DEF NoJob
  <2> HIDE DEF j
  <2> QED
    BY <1>0, <2>1, <2>2, ReleasesStay
<1>3. ASSUME NEW n \in Names, NEW w \in Workers, UnlinkRemote(n, w)
      PROVE  OneRelease'
  <2> DEFINE j == [NoJob EXCEPT !.kind = "unlink", !.pc = "delete", !.id = Holder(n), !.name = n]
  <2>1. Start(w, j)
    BY <1>3 DEF UnlinkRemote
  <2>2. j.kind # "release"
    BY DEF NoJob
  <2> HIDE DEF j
  <2> QED
    BY <1>0, <2>1, <2>2, ReleasesStay
<1>4. ASSUME NEW n \in Names, NEW to \in Names, NEW w \in Workers, Rename(n, to, w)
      PROVE  OneRelease'
  <2> DEFINE j == [NoJob EXCEPT !.kind = "rename", !.pc = "upload", !.id = Holder(n),
                 !.name = to, !.ver = rec[Holder(n)].ver, !.victim = Holder(to)]
  <2>1. Start(w, j)
    BY <1>4 DEF Rename
  <2>2. j.kind # "release"
    BY DEF NoJob
  <2> HIDE DEF j
  <2> QED
    BY <1>0, <2>1, <2>2, ReleasesStay
<1>5. ASSUME NEW fh \in Fhs, NEW w \in Workers, Flush(fh, w)
      PROVE  OneRelease'
  <2> DEFINE j == [NoJob EXCEPT !.kind = "flush", !.pc = "lock", !.fh = fh]
  <2>1. Start(w, j)
    BY <1>5 DEF Flush
  <2>2. j.kind # "release"
    BY DEF NoJob
  <2> HIDE DEF j
  <2> QED
    BY <1>0, <2>1, <2>2, ReleasesStay
<1>6. ASSUME NEW fh \in Fhs, NEW w \in Workers, ReleaseDirty(fh, w)
      PROVE  OneRelease'
  <2>1. fh \in open /\ job'[w].fh = fh /\ \A v \in Workers \ {w} : job'[v] = job[v]
    BY <1>6, <1>0 DEF ReleaseDirty, Releasable, Start, TypeOK, NoJob
  <2>2. \A v \in Workers : job[v].kind = "release" => job[v].fh # fh
    BY <2>1, SaveFh DEF Commits
  <2> QED
    BY <1>0, <2>1, <2>2 DEF OneRelease
<1>7. ASSUME NEW w \in Workers, BeginCommit(w)
      PROVE  OneRelease'
  <2>1. CASE Saved(w)
    BY <1>0, <2>1, ReleasesStay DEF Saved
  <2>2. CASE ~Saved(w)
    <3> DEFINE f == writer[handle[job[w].fh]].file
    <3>1. job' = [job EXCEPT ![w] = Plan(w, f)]
      BY <1>7, <2>2 DEF BeginCommit
    <3>2. Plan(w, f).kind = job[w].kind /\ Plan(w, f).fh = job[w].fh
      <4> HIDE DEF f
      <4> QED BY <1>0 DEF Plan, TypeOK, Job
    <3>3. ReleasesKept
      <4> HIDE DEF f
      <4> QED BY <1>0, <3>1, <3>2 DEF ReleasesKept, TypeOK
    <3> QED
      BY <1>0, <3>3, ReleasesStay
  <2> QED
    BY <2>1, <2>2
<1>8. ASSUME NEW w \in Workers, RepointSaved(w)
      PROVE  OneRelease'
  BY <1>8, <1>0, ReleasesStay DEF RepointSaved, Saved
<1>9. ASSUME NEW w \in Workers, Upload(w)
      PROVE  OneRelease'
  <2>1. Landed(w)
    BY <1>9 DEF Upload, Landed
  <2> QED
    BY <1>0, <2>1, ReleasesStay
<1>10. ASSUME NEW w \in Workers, UploadCut(w)
      PROVE  OneRelease'
  <2>1. Landed(w)
    BY <1>10 DEF UploadCut, Landed
  <2> QED
    BY <1>0, <2>1, ReleasesStay
<1>11. ASSUME NEW w \in Workers, UploadRenamed(w)
      PROVE  OneRelease'
  <2>1. Landed(w)
    BY <1>11 DEF UploadRenamed, Landed
  <2> QED
    BY <1>0, <2>1, ReleasesStay
<1>12. ASSUME NEW w \in Workers, UploadFails(w)
      PROVE  OneRelease'
  BY <1>12, <1>0, ReleasesStay DEF UploadFails
<1>13. ASSUME NEW w \in Workers, CloseReleased(w)
      PROVE  OneRelease'
  BY <1>13, <1>0, ReleasesStay DEF CloseReleased
<1>14. ASSUME NEW w \in Workers, AttachLoaded(w)
      PROVE  OneRelease'
  BY <1>14, <1>0, ReleasesStay DEF AttachLoaded
<1>15. ASSUME NEW w \in Workers, JobFails(w)
      PROVE  OneRelease'
  BY <1>15, <1>0, ReleasesStay DEF JobFails
<1>16. ASSUME NEW w \in Workers, RepointCut(w)
      PROVE  OneRelease'
  BY <1>16, <1>0, ReleasesStay DEF RepointCut
<1>17. ASSUME NEW w \in Workers, DiscardUnlinked(w)
      PROVE  OneRelease'
  BY <1>17, <1>0, ReleasesStay DEF DiscardUnlinked
<1>18. ASSUME NEW w \in Workers, RepointRenamed(w)
      PROVE  OneRelease'
  BY <1>18, <1>0, ReleasesStay DEF RepointRenamed
<1>19. ASSUME NEW w \in Workers, DropReplaced(w)
      PROVE  OneRelease'
  BY <1>19, <1>0, ReleasesStay DEF DropReplaced
<1>20. ASSUME NEW w \in Workers, Settle(w)
      PROVE  OneRelease'
  BY <1>20, <1>0, ReleasesStay DEF Settle
<1>21. ASSUME NEW w \in Workers, DropOld(w)
      PROVE  OneRelease'
  BY <1>21, <1>0, ReleasesStay DEF DropOld
<1>22. ASSUME NEW w \in Workers, Delete(w)
      PROVE  OneRelease'
  BY <1>22, <1>0, ReleasesStay DEF Delete
<1>23. ASSUME NEW w \in Workers, KeepsVictim(w)
      PROVE  OneRelease'
  BY <1>23, <1>0, ReleasesStay DEF KeepsVictim
<1>24. ASSUME NEW w \in Workers, DiscardVictim(w)
      PROVE  OneRelease'
  BY <1>24, <1>0, ReleasesStay DEF DiscardVictim
<1>25. ASSUME SetLen
      PROVE  UNCHANGED <<job>>
  BY <1>25 DEF SetLen
<1>26. ASSUME NEW n \in Names,
             Create(n) \/ Lookup(n) \/ OpenShared(n) \/ Truncate(n) \/
             UnlinkPending(n) \/ AddedElsewhere(n)
      PROVE  UNCHANGED <<job>>
  BY <1>26 DEF Create, Lookup, OpenShared, Truncate, UnlinkPending, AddedElsewhere
<1>27. ASSUME NEW fh \in Fhs,
             Write(fh) \/ FlushClean(fh) \/ ReleaseClean(fh)
      PROVE  UNCHANGED <<job>>
  BY <1>27 DEF Write, FlushClean, ReleaseClean
<1>28. ASSUME NEW id \in Ids,
             RemovedElsewhere(id)
      PROVE  UNCHANGED <<job>>
  BY <1>28 DEF RemovedElsewhere
<1>29. ASSUME UNCHANGED <<job>>
      PROVE  OneRelease'
  BY <1>29, <1>0, ReleasesStay
<1> QED
  BY <1>1, <1>2, <1>3, <1>4, <1>5, <1>6, <1>7, <1>8, <1>9, <1>10, <1>11, <1>12,
     <1>13, <1>14, <1>15, <1>16, <1>17, <1>18, <1>19, <1>20, <1>21, <1>22, <1>23, <1>24,
     <1>25, <1>26, <1>27, <1>28, <1>29
  DEF Next, Request, JobStep, CommitStep, OtherStep, vars, vault, inodes, buffers, kernel
-----------------------------------------------------------------------------
(* The handle counts. *)

\* HandlesCounted in terms of HandlesOf.
LEMMA CountedByHandles ==
  HandlesCounted <=> \A i \in Inos : /\ writer[i].handles = Cardinality(HandlesOf(i))
                                     /\ (writer[i].file = 0) <=> (writer[i].handles = 0)
  BY DEF HandlesCounted, HandlesOf

\* attach_writer counts the handle it opens.
LEMMA AttachCounted ==
  ASSUME TypeOK, HandlesCounted, HandlesKnown, NEW i \in Inos, NEW f \in Files \cup {0},
         writer[i].file = 0 => f # 0, Made("fh") \in Fhs, Attach(i, f)
  PROVE  HandlesCounted'
<1>1. handle[Made("fh")] = 0
  <2>1. Made("fh") = made.fh + 1 /\ made.fh \in Nat
    BY NextNumbers
  <2> QED BY <2>1 DEF HandlesKnown
<1>2. handle' = [handle EXCEPT ![Made("fh")] = i]
  BY DEF Attach
<1>3. /\ Cardinality(HandlesOf(i))' = Cardinality(HandlesOf(i)) + 1
      /\ \A k \in Inos \ {i} : HandlesOf(k)' = HandlesOf(k)
  <2>1. Made("fh") \in Fhs
    OBVIOUS
  <2> QED BY <1>1, <1>2, <2>1, HandleAdded
<1>4. /\ writer'[i].handles = writer[i].handles + 1
      /\ writer'[i].file = (IF writer[i].file # 0 THEN writer[i].file ELSE f)
      /\ \A k \in Inos \ {i} : writer'[k] = writer[k]
      /\ writer[i].handles \in Nat
  BY DEF Attach, TypeOK
<1>5. \A k \in Inos : /\ writer[k].handles = Cardinality(HandlesOf(k))
                      /\ (writer[k].file = 0) <=> (writer[k].handles = 0)
  BY CountedByHandles
<1>6. /\ writer'[i].handles = Cardinality(HandlesOf(i))'
      /\ (writer'[i].file = 0) <=> (writer'[i].handles = 0)
  BY <1>3, <1>4, <1>5
<1>7. \A k \in Inos \ {i} : /\ writer'[k].handles = Cardinality(HandlesOf(k))'
                            /\ (writer'[k].file = 0) <=> (writer'[k].handles = 0)
  BY <1>3, <1>4, <1>5
<1>8. \A k \in Inos : /\ writer'[k].handles = Cardinality(HandlesOf(k)')
                      /\ (writer'[k].file = 0) <=> (writer'[k].handles = 0)
  BY <1>6, <1>7
<1> QED BY <1>8 DEF HandlesCounted, HandlesOf

\* close_write_handle counts the handle it closes, and drops the buffer with the last.
LEMMA CloseCounted ==
  ASSUME TypeOK, HandlesCounted, NEW fh \in Fhs, NEW i \in Inos, handle[fh] = i, CloseHandle(fh)
  PROVE  HandlesCounted'
<1>1. writer[i].file \in Files
  <2>1. handle[fh] # 0
    BY DEF Inos
  <2> QED BY <2>1, HandleHasBuffer
<1>2. /\ handle' = [handle EXCEPT ![fh] = 0]
      /\ writer' = [writer EXCEPT ![i] = IF writer[i].handles = 1 THEN NoWriter
             ELSE [file |-> writer[i].file, handles |-> writer[i].handles - 1]]
  BY DEF CloseHandle
<1>3. /\ Cardinality(HandlesOf(i))' = Cardinality(HandlesOf(i)) - 1
      /\ \A k \in Inos \ {i} : HandlesOf(k)' = HandlesOf(k)
  BY <1>2, HandleRemoved
<1>4. /\ writer'[i] = IF writer[i].handles = 1 THEN NoWriter
             ELSE [file |-> writer[i].file, handles |-> writer[i].handles - 1]
      /\ \A k \in Inos \ {i} : writer'[k] = writer[k]
      /\ writer[i].handles \in Nat /\ writer[i].file # 0
  <2>1. 0 \notin Files
    BY DEF Files
  <2> QED BY <1>1, <1>2, <2>1 DEF TypeOK
<1>5. \A k \in Inos : /\ writer[k].handles = Cardinality(HandlesOf(k))
                      /\ (writer[k].file = 0) <=> (writer[k].handles = 0)
  BY CountedByHandles
<1>6. /\ writer'[i].handles = Cardinality(HandlesOf(i))'
      /\ (writer'[i].file = 0) <=> (writer'[i].handles = 0)
  <2> QED BY <1>1, <1>3, <1>4, <1>5 DEF NoWriter
<1>7. \A k \in Inos \ {i} : /\ writer'[k].handles = Cardinality(HandlesOf(k))'
                            /\ (writer'[k].file = 0) <=> (writer'[k].handles = 0)
  <2> QED BY <1>3, <1>4, <1>5
<1>8. \A k \in Inos : /\ writer'[k].handles = Cardinality(HandlesOf(k)')
                      /\ (writer'[k].file = 0) <=> (writer'[k].handles = 0)
  <2> QED BY <1>6, <1>7
<1> QED BY <1>8 DEF HandlesCounted, HandlesOf

\* The count of a buffer is the number of its handles.
LEMMA CountedNext == IInv /\ [Next]_vars => HandlesCounted'
<1> SUFFICES ASSUME IInv, [Next]_vars
             PROVE  HandlesCounted'
  OBVIOUS
<1>0. TypeOK /\ Room /\ HandlesCounted /\ HandlesKnown
  BY DEF IInv, Known, HandlesKnown
<1>1. ASSUME NEW n \in Names, Create(n)
      PROVE  HandlesCounted'
  <2>1. Made("ino") \in Inos /\ Made("file") \in Files /\ Made("fh") \in Fhs /\ 0 \notin Files
    BY <1>1, <1>0, CreateIno, RoomToMake DEF Create, Files
  <2>2. Attach(Made("ino"), Made("file"))
    BY <1>1 DEF Create
  <2> QED
    BY <1>0, <2>1, <2>2, AttachCounted
<1>2. ASSUME NEW n \in Names, OpenShared(n)
      PROVE  HandlesCounted'
  <2>1. /\ dentry[n] \in Inos /\ Attach(dentry[n], 0) /\ writer[dentry[n]].file # 0
        /\ Made("fh") \in Fhs
    BY <1>2, <1>0, RoomToMake DEF OpenShared, TypeOK, OptIno
  <2> QED
    BY <1>0, <2>1, AttachCounted
<1>3. ASSUME NEW w \in Workers, AttachLoaded(w)
      PROVE  HandlesCounted'
  <2>1. /\ job[w].ino \in Inos /\ Made("file") \in Files /\ Made("fh") \in Fhs /\ 0 \notin Files
        /\ Attach(job[w].ino, Made("file"))
    BY <1>3, <1>0, JobIds, UploadWaits, RoomToMake DEF AttachLoaded, Doing, Files
  <2> QED
    BY <1>0, <2>1, AttachCounted
<1>4. ASSUME NEW fh \in Fhs, ReleaseClean(fh)
      PROVE  HandlesCounted'
  <2>1. fh \in open /\ CloseHandle(fh)
    BY <1>4 DEF ReleaseClean, Releasable
  <2>2. fh \in Fhs /\ handle[fh] \in Inos
    BY <2>1, OpenHandle
  <2> QED
    BY <1>0, <2>1, <2>2, CloseCounted
<1>5. ASSUME NEW w \in Workers, CloseReleased(w)
      PROVE  HandlesCounted'
  <2>1. Commits(w) /\ CloseHandle(job[w].fh)
    BY <1>5 DEF CloseReleased, Saving
  <2>2. job[w].fh \in Fhs /\ handle[job[w].fh] \in Inos
    BY <2>1, SaveHandle
  <2> QED
    BY <1>0, <2>1, <2>2, CloseCounted
<1>6. ASSUME SetLen
      PROVE  UNCHANGED <<writer, handle>>
  BY <1>6 DEF SetLen
<1>7. ASSUME NEW n \in Names,
             Lookup(n) \/ Truncate(n) \/ UnlinkPending(n) \/ AddedElsewhere(n)
      PROVE  UNCHANGED <<writer, handle>>
  BY <1>7 DEF Lookup, Truncate, UnlinkPending, AddedElsewhere
<1>8. ASSUME NEW n \in Names, NEW w \in Workers,
             OpenRemote(n, w) \/ TruncateRemote(n, w) \/ UnlinkRemote(n, w)
      PROVE  UNCHANGED <<writer, handle>>
  BY <1>8 DEF OpenRemote, TruncateRemote, UnlinkRemote
<1>9. ASSUME NEW n \in Names, NEW to \in Names, NEW w \in Workers,
             Rename(n, to, w)
      PROVE  UNCHANGED <<writer, handle>>
  BY <1>9 DEF Rename
<1>10. ASSUME NEW fh \in Fhs,
             Write(fh) \/ FlushClean(fh)
      PROVE  UNCHANGED <<writer, handle>>
  BY <1>10 DEF Write, FlushClean
<1>11. ASSUME NEW fh \in Fhs, NEW w \in Workers,
             Flush(fh, w) \/ ReleaseDirty(fh, w)
      PROVE  UNCHANGED <<writer, handle>>
  BY <1>11 DEF Flush, ReleaseDirty
<1>12. ASSUME NEW id \in Ids,
             RemovedElsewhere(id)
      PROVE  UNCHANGED <<writer, handle>>
  BY <1>12 DEF RemovedElsewhere
<1>13. ASSUME NEW w \in Workers,
             BeginCommit(w) \/ Upload(w) \/ UploadFails(w) \/ DropReplaced(w) \/
             Settle(w) \/ RepointSaved(w) \/ JobFails(w) \/ UploadCut(w) \/
             UploadRenamed(w) \/ DropOld(w) \/ RepointCut(w) \/ Delete(w) \/
             KeepsVictim(w) \/ DiscardUnlinked(w) \/ DiscardVictim(w) \/
             RepointRenamed(w)
      PROVE  UNCHANGED <<writer, handle>>
  BY <1>13 DEF BeginCommit, Upload, UploadFails, DropReplaced, Settle, RepointSaved,
     JobFails, UploadCut, UploadRenamed, DropOld, RepointCut, Delete, KeepsVictim,
     DiscardUnlinked, DiscardVictim, RepointRenamed
<1>14. ASSUME UNCHANGED <<writer, handle>>
      PROVE  HandlesCounted'
  BY <1>14, <1>0 DEF HandlesCounted
<1> QED
  BY <1>1, <1>2, <1>3, <1>4, <1>5, <1>6, <1>7, <1>8, <1>9, <1>10, <1>11, <1>12,
     <1>13, <1>14
  DEF Next, Request, JobStep, CommitStep, OtherStep, vars, vault, inodes, buffers, kernel
-----------------------------------------------------------------------------
(* The record that a save replaces. *)

BaseOK ==
  \A f \in Files : target[f].kind = "existing" =>
    target[f].id \in IdsMade /\ rec[target[f].id].ver = committed[f]

\* One buffer gets another target or is marked as saved.
LEMMA BaseSet ==
  ASSUME TypeOK, BaseOK, Stays, IdsMade \subseteq IdsMade', NEW f, NEW x, NEW c,
         target' = target \/ target' = [target EXCEPT ![f] = x],
         committed' = committed \/ committed' = [committed EXCEPT ![f] = c],
         f \in Files => (target'[f].kind = "existing" =>
           target'[f].id \in IdsMade /\ rec[target'[f].id].ver = committed'[f])
  PROVE  BaseOK'
<1> SUFFICES ASSUME NEW g \in Files, target'[g].kind = "existing"
             PROVE  target'[g].id \in IdsMade' /\ rec'[target'[g].id].ver = committed'[g]
  BY DEF BaseOK
<1>1. target'[g].id \in IdsMade /\ rec[target'[g].id].ver = committed'[g]
  <2>1. CASE g = f
    BY <2>1
  <2>2. CASE g # f
    <3>1. target'[g] = target[g] /\ committed'[g] = committed[g]
      BY <2>2 DEF TypeOK
    <3> QED BY <3>1 DEF BaseOK
  <2> QED BY <2>1, <2>2
<1> QED BY <1>1 DEF Stays

\* A discarded buffer replaces nothing.
LEMMA BaseDiscard ==
  ASSUME TypeOK, BaseOK, Stays, IdsMade \subseteq IdsMade', NEW i, DiscardBuffer(i),
         UNCHANGED committed
  PROVE  BaseOK'
<1> DEFINE f == writer[i].file
<1>1. target' = target \/ target' = [target EXCEPT ![f] = Discarded]
  BY DEF DiscardBuffer
<1>2. f \in Files => (target'[f].kind = "existing" => target'[f] = target[f])
  <2> HIDE DEF f
  <2> QED BY <1>1 DEF Discarded, TypeOK
<1>3. f \in Files => (target'[f].kind = "existing" =>
        target'[f].id \in IdsMade /\ rec[target'[f].id].ver = committed'[f])
  <2> HIDE DEF f
  <2> QED BY <1>2 DEF BaseOK
<1> HIDE DEF f
<1> QED BY <1>1, <1>3, BaseSet

\* Nor does the buffer of a deleted record.
LEMMA BaseUnbind ==
  ASSUME TypeOK, BaseOK, Stays, IdsMade \subseteq IdsMade', NEW id, Unbind(id),
         UNCHANGED committed
  PROVE  BaseOK'
<1>1. CASE UNCHANGED target
  BY <1>1 DEF BaseOK, Stays
<1>2. CASE ~UNCHANGED target
  BY <1>2, BaseDiscard DEF Unbind
<1> QED BY <1>1, <1>2

\* The target of a buffer is the version it was made from.
LEMMA BaseNext == IInv /\ [Next]_vars => BaseOK'
<1> SUFFICES ASSUME IInv, [Next]_vars
             PROVE  BaseOK'
  OBVIOUS
<1>0. TypeOK /\ Room /\ BaseOK /\ Stays /\ IdsMade \subseteq IdsMade'
  BY StaysNext, StaysIds DEF IInv, Based, TargetIsBase, BaseOK
<1>1. ASSUME NEW n \in Names, Create(n)
      PROVE  BaseOK'
  <2>1. /\ target' = [target EXCEPT ![Made("file")] = NewFile(n)] /\ committed' = committed
        /\ NewFile(n).kind # "existing"
    BY <1>1 DEF Create, NewFile
  <2>2. Made("file") \in Files => target'[Made("file")] = NewFile(n)
    BY <1>0, <2>1 DEF TypeOK
  <2> QED
    BY <1>0, <2>1, <2>2, BaseSet
<1>2. ASSUME NEW n \in Names, UnlinkPending(n)
      PROVE  BaseOK'
  BY <1>2, <1>0, BaseDiscard DEF UnlinkPending
<1>3. ASSUME NEW w \in Workers, BeginCommit(w)
      PROVE  BaseOK'
  <2> DEFINE f == writer[handle[job[w].fh]].file
  <2>1. UNCHANGED target
    BY <1>3 DEF BeginCommit
  <2>2. CASE UNCHANGED committed
    BY <1>0, <2>1, <2>2 DEF BaseOK, Stays
  <2>3. CASE ~UNCHANGED committed
    <3>1. committed' = [committed EXCEPT ![f] = gen[f]] /\ target[f].kind = "discarded"
      BY <1>3, <2>3 DEF BeginCommit
    <3> HIDE DEF f
    <3> QED
      BY <1>0, <2>1, <3>1, BaseSet
  <2> QED
    BY <2>2, <2>3
<1>4. ASSUME NEW w \in Workers, Settle(w)
      PROVE  BaseOK'
  <2> DEFINE f == job[w].file
             x == Existing(job[w].new)
  <2>1. /\ committed' = [committed EXCEPT ![f] = job[w].ver]
        /\ target' = [target EXCEPT ![f] = x]
    BY <1>4 DEF Settle
  <2>2. x.id \in IdsMade /\ rec[x.id].ver = job[w].ver
    BY <1>4, NewKnown DEF Settle, Existing
  <2> HIDE DEF f, x
  <2>3. f \in Files => target'[f] = x /\ committed'[f] = job[w].ver
    BY <1>0, <2>1 DEF TypeOK
  <2> QED
    BY <1>0, <2>1, <2>2, <2>3, BaseSet
<1>5. ASSUME NEW w \in Workers, AttachLoaded(w)
      PROVE  BaseOK'
  <2> DEFINE f == Made("file")
             x == Existing(job[w].id)
             c == rec[job[w].id].ver
  <2>1. CASE UNCHANGED buffers
    BY <1>0, <2>1 DEF BaseOK, Stays, buffers
  <2>2. CASE ~UNCHANGED buffers
    <3>1. /\ committed' = [committed EXCEPT ![f] = c]
          /\ target' = [target EXCEPT ![f] = x]
      BY <1>5, <2>2 DEF AttachLoaded
    <3>2. x.id \in IdsMade /\ rec[x.id].ver = c
      BY <1>5, NewKnown DEF AttachLoaded, Doing, Existing
    <3> HIDE DEF f, x, c
    <3>3. f \in Files => target'[f] = x /\ committed'[f] = c
      BY <1>0, <3>1 DEF TypeOK
    <3> QED
      BY <1>0, <3>1, <3>2, <3>3, BaseSet
  <2> QED
    BY <2>1, <2>2
<1>6. ASSUME NEW w \in Workers, DiscardUnlinked(w)
      PROVE  BaseOK'
  BY <1>6, <1>0, BaseUnbind DEF DiscardUnlinked
<1>7. ASSUME NEW w \in Workers, DiscardVictim(w)
      PROVE  BaseOK'
  BY <1>7, <1>0, BaseUnbind DEF DiscardVictim
<1>8. ASSUME NEW w \in Workers, RepointRenamed(w)
      PROVE  BaseOK'
  <2> DEFINE f == writer[inoOf[job[w].id]].file
             x == Existing(job[w].new)
  <2>1. UNCHANGED committed
    BY <1>8 DEF RepointRenamed
  <2>2. CASE UNCHANGED target
    BY <1>0, <2>1, <2>2 DEF BaseOK, Stays
  <2>3. CASE ~UNCHANGED target
    <3>1. /\ target' = [target EXCEPT ![f] = x]
          /\ target[f].kind = "existing" /\ target[f].id = job[w].id
      BY <1>8, <2>3 DEF RepointRenamed, Retarget
    <3>2. x.id = job[w].new /\ x.id \in IdsMade
      BY <1>8, NewKnown DEF RepointRenamed, Doing, Existing
    <3>3. rec[job[w].new].ver = rec[job[w].id].ver
      <4>1. JobShape(w) /\ job[w].kind = "rename" /\ job[w].pc = "repoint"
        BY <1>8 DEF RepointRenamed, Doing, IInv
      <4> QED BY <4>1 DEF JobShape, RenameJob, Commits, NoJob
    <3> HIDE DEF f, x
    <3>4. f \in Files => target'[f] = x /\ rec[x.id].ver = committed'[f]
      BY <1>0, <2>1, <3>1, <3>2, <3>3 DEF TypeOK, BaseOK
    <3> QED
      BY <1>0, <2>1, <3>1, <3>2, <3>4, BaseSet
  <2> QED
    BY <2>2, <2>3
<1>9. ASSUME SetLen
      PROVE  UNCHANGED <<target, committed>>
  BY <1>9 DEF SetLen, buffers
<1>10. ASSUME NEW n \in Names,
             Lookup(n) \/ OpenShared(n) \/ Truncate(n) \/ AddedElsewhere(n)
      PROVE  UNCHANGED <<target, committed>>
  BY <1>10 DEF Lookup, OpenShared, Truncate, AddedElsewhere, buffers
<1>11. ASSUME NEW n \in Names, NEW w \in Workers,
             OpenRemote(n, w) \/ TruncateRemote(n, w) \/ UnlinkRemote(n, w)
      PROVE  UNCHANGED <<target, committed>>
  BY <1>11 DEF OpenRemote, TruncateRemote, UnlinkRemote, buffers
<1>12. ASSUME NEW n \in Names, NEW to \in Names, NEW w \in Workers,
             Rename(n, to, w)
      PROVE  UNCHANGED <<target, committed>>
  BY <1>12 DEF Rename, buffers
<1>13. ASSUME NEW fh \in Fhs,
             Write(fh) \/ FlushClean(fh) \/ ReleaseClean(fh)
      PROVE  UNCHANGED <<target, committed>>
  BY <1>13 DEF Write, FlushClean, ReleaseClean, buffers
<1>14. ASSUME NEW fh \in Fhs, NEW w \in Workers,
             Flush(fh, w) \/ ReleaseDirty(fh, w)
      PROVE  UNCHANGED <<target, committed>>
  BY <1>14 DEF Flush, ReleaseDirty, buffers
<1>15. ASSUME NEW id \in Ids,
             RemovedElsewhere(id)
      PROVE  UNCHANGED <<target, committed>>
  BY <1>15 DEF RemovedElsewhere, buffers
<1>16. ASSUME NEW w \in Workers,
             Upload(w) \/ UploadFails(w) \/ DropReplaced(w) \/ RepointSaved(w) \/
             CloseReleased(w) \/ JobFails(w) \/ UploadCut(w) \/ UploadRenamed(w) \/
             DropOld(w) \/ RepointCut(w) \/ Delete(w) \/ KeepsVictim(w)
      PROVE  UNCHANGED <<target, committed>>
  BY <1>16 DEF Upload, UploadFails, DropReplaced, RepointSaved, CloseReleased, JobFails,
     UploadCut, UploadRenamed, DropOld, RepointCut, Delete, KeepsVictim, buffers
<1>17. ASSUME UNCHANGED <<target, committed>>
      PROVE  BaseOK'
  BY <1>17, <1>0 DEF BaseOK, Stays
<1> QED
  BY <1>1, <1>2, <1>3, <1>4, <1>5, <1>6, <1>7, <1>8, <1>9, <1>10, <1>11, <1>12,
     <1>13, <1>14, <1>15, <1>16, <1>17
  DEF Next, Request, JobStep, CommitStep, OtherStep, vars, vault, inodes, buffers, kernel
-----------------------------------------------------------------------------
\* The invariant holds at first.
LEMMA InitInv == Init => IInv
<1> SUFFICES ASSUME Init
             PROVE  IInv
  OBVIOUS
<1>1. /\ 0 \in Nat /\ {MaxId, MaxCreate, MaxFile, MaxFh} \subseteq Nat
      /\ Discarded \in Target /\ NoJob \in Job
  BY SessionAssumption, TargetTypes, JobMade
<1>2. TypeOK
  <2>1. NoNode \in Node
    BY DEF NoNode, Node, OptId
  <2>2. made \in Counts
    BY <1>1 DEF Init, Counts
  <2>3. /\ index \subseteq Ids /\ rec \in [Ids -> [name : Nat, ver : Nat]]
        /\ node \in [Inos -> Node] /\ inoOf \in [Ids -> OptIno]
        /\ pending \in [Names -> OptIno]
    BY <2>1 DEF Init, OptIno
  <2>4. /\ writer \in [Inos -> [file : Files \cup {0}, handles : Nat]]
        /\ handle \in [Fhs -> OptIno] /\ target \in [Files -> Target]
        /\ gen \in [Files -> Nat] /\ committed \in [Files -> Nat]
        /\ lock \in [Files -> Workers \cup {0}]
    BY <1>1 DEF Init, OptIno, NoWriter
  <2>5. /\ job \in [Workers -> Job] /\ arc \in Files \cup {0} /\ dentry \in [Names -> OptIno]
        /\ open \subseteq Fhs /\ flushed \subseteq Fhs /\ absent \subseteq Names
    BY <1>1 DEF Init, OptIno
  <2> QED BY <2>2, <2>3, <2>4, <2>5 DEF TypeOK
<1>3. Room
  <2>2. {v \in Workers : Waits(v, IdJobs)} = {} /\ {v \in Workers : Waits(v, {"open"})} = {}
    BY DEF Init, NoJob, Waits, IdJobs
  <2>3. Waiting(IdJobs) = 0 /\ Waiting({"open"}) = 0
    BY <2>2, WaitingType, FS_EmptySet
  <2>4. made.id = 0 /\ made.fh = 0 /\ made.file = 0
    BY DEF Init
  <2> QED BY <1>1, <2>3, <2>4 DEF Room
<1>4. Known
  BY DEF Init, Known, NoNode
<1>5. HandlesCounted
  <2>1. \A i \in Inos : {fh \in Fhs : handle[fh] = i} = {}
    BY DEF Init, Inos
  <2>2. \A i \in Inos : writer[i].file = 0 /\ writer[i].handles = 0
    BY DEF Init, NoWriter
  <2> QED BY <2>1, <2>2, FS_EmptySet DEF HandlesCounted
<1>6. OneRelease /\ Based /\ TargetIsBase
  BY DEF Init, OneRelease, NoJob, Based, TargetIsBase, Discarded
<1>7. \A w \in Workers : JobShape(w)
  BY DEF Init, JobShape
<1> QED BY <1>2, <1>3, <1>4, <1>5, <1>6, <1>7 DEF IInv

\* Every step keeps the invariant.
LEMMA NextInv == IInv /\ [Next]_vars => IInv'
<1> SUFFICES ASSUME IInv, [Next]_vars
             PROVE  IInv'
  OBVIOUS
<1>1. TypeOK' /\ Room' /\ OneRelease' /\ HandlesCounted'
  BY TypeNext, RoomNext, OneReleaseNext, CountedNext
<1>2. Known'
  <2>1. (index \subseteq IdsMade)' /\ NodesKnown' /\ HandlesKnown'
    BY IndexNext, NodesNext, HandlesKnownNext
  <2> QED BY <2>1 DEF Known, NodesKnown, HandlesKnown
<1>3. (Based /\ TargetIsBase)'
  BY BaseNext DEF BaseOK, Based, TargetIsBase
<1>4. (\A w \in Workers : JobShape(w))'
  BY ShapesNext DEF ShapesOK
<1> QED BY <1>1, <1>2, <1>3, <1>4 DEF IInv

\* Inodes, names, buffers, handles and jobs keep their types, and nothing is made
\* beyond the bounds: a job that a worker took up always finds the numbers left
\* that it needs.
THEOREM SessionTypes == Spec => []TypeOK
<1>1. IInv => TypeOK
  BY DEF IInv
<1> QED BY InitInv, NextInv, <1>1, PTL DEF Spec

\* The count that decides when close_write_handle drops a buffer is the number of
\* the inode's open handles, for any number of handles and of workers that release
\* them, save and open at the same time.
THEOREM SessionCounts == Spec => []HandlesCounted
<1>1. IInv => HandlesCounted
  BY DEF IInv
<1> QED BY InitInv, NextInv, <1>1, PTL DEF Spec

\* A save (commit_write_file) replaces only the version its buffer was loaded from
\* or last saved to, among any number of renames, opens and other saves.
THEOREM SessionBase == Spec => []TargetIsBase
<1>1. IInv => TargetIsBase
  BY DEF IInv
<1> QED BY InitInv, NextInv, <1>1, PTL DEF Spec

-----------------------------------------------------------------------------
(***************************************************************************)
(* No acknowledged change is dropped with its buffer: a buffer that no     *)
(* handle leads to any more was saved, or its file was unlinked.           *)
(***************************************************************************)

\* The handle of a release that is done with its save.
Closing(fh) == \E v \in Workers : Doing(v, "release", "close") /\ job[v].fh = fh

\* A handle, not one of "but", that will look at the buffer of i again before it closes.
Kept(i, but) == \E fh \in Fhs \ but : handle[fh] = i /\ ~Closing(fh)

\* A save from the dirty check until it lets go of the commit_lock.
Middle(j) == j.kind \in {"flush", "release"}
             /\ j.pc \in {"create", "upload", "drop", "settle", "repoint"}

\* Inodes do not share a buffer.
Owned ==
  \A i \in Inos :
    /\ writer[i].file <= made.file
    /\ \A k \in Inos : writer[k].file = writer[i].file => k = i \/ writer[i].file = 0

\* No version is newer than the last change.
Versions ==
  /\ \A f \in Files : gen[f] <= made.ver /\ committed[f] <= made.ver
  /\ \A id \in Ids : rec[id].ver <= made.ver
  /\ \A w \in Workers : job[w].ver <= made.ver

\* The save j, of the worker w, that holds a buffer's lock: unless the buffer has changed
\* since the save read it, the save makes it clean, and if it has changed, another handle
\* is there to see to it.
Holds(w, j) ==
  /\ lock[j.file] = w /\ handle[j.fh] = j.ino /\ writer[j.ino].file = j.file
  /\ IF j.pc = "repoint" THEN committed[j.file] = j.ver ELSE Dirty(j.file)
  /\ j.kind = "release" /\ gen[j.file] # j.ver => Kept(j.ino, {j.fh})

SaveInv(w) == Middle(job[w]) => Holds(w, job[w])

\* A buffer that is to be saved has a handle that will see to it.
DirtyIsKept ==
  \A i \in Inos :
    LET f == writer[i].file IN
    f # 0 /\ Dirty(f) /\ target[f].kind # "discarded" => Kept(i, {})

\* The caller of a truncate has a handle.
Cutting == arc # 0 => \E fh \in open : writer[handle[fh]].file = arc

SavedInv ==
  /\ Owned /\ Versions /\ DirtyIsKept /\ Cutting /\ NothingUnsavedIsDropped
  /\ \A w \in Workers : SaveInv(w)

\* An inode that create has not given out yet is nowhere.
Unused(i) == i > made.ino /\ i <= MaxCreate

UnusedIsNowhere ==
  \A i \in Inos : Unused(i) =>
    /\ writer[i].file = 0 /\ node[i].kind # "remote"
    /\ \A w \in Workers : job[w].ino # i
    /\ \A id \in Ids : inoOf[id] # i
-----------------------------------------------------------------------------
(* What the invariant says of jobs and handles. *)

\* The handle of a release is closed for the kernel.
LEMMA OpenNotClosing ==
  ASSUME IInv, NEW fh \in open
  PROVE  ~Closing(fh)
<1>1. \A v \in Workers : job[v].kind = "release" => job[v].fh \notin open
  BY SaveFh DEF Commits
<1> QED BY <1>1 DEF Closing, Doing

\* A save that has begun names its handle, its inode and its buffer.
LEMMA MiddleJob ==
  ASSUME IInv, NEW w \in Workers, Middle(job[w])
  PROVE  /\ job[w].fh \in Fhs /\ handle[job[w].fh] # 0
         /\ job[w].kind = "flush" <=> job[w].fh \in open
         /\ job[w].file \in Files /\ job[w].ino \in Inos
<1>1. JobShape(w)
  BY DEF IInv
<1>2. Commits(w) /\ SaveJob(job[w])
  BY <1>1 DEF JobShape, Middle, NoJob, Commits
<1> QED BY <1>2 DEF SaveJob, Middle, Commits

\* Two saves that have begun are of two buffers.
LEMMA LockHolder ==
  ASSUME IInv, SavedInv, NEW v \in Workers, NEW w \in Workers, v # w,
         Middle(job[v]), Middle(job[w])
  PROVE  job[v].file # job[w].file /\ job[v].ino # job[w].ino
<1>1. Holds(v, job[v]) /\ Holds(w, job[w])
  BY DEF SavedInv, SaveInv
<1>2. /\ lock[job[v].file] = v /\ lock[job[w].file] = w
      /\ writer[job[v].ino].file = job[v].file /\ writer[job[w].ino].file = job[w].file
  BY <1>1 DEF Holds
<1> QED BY <1>2

\* What is to show of the saves after a step.
LEMMA HoldsNext ==
  ASSUME \A w \in Workers : \A j : job'[w] = j /\ Middle(j) => Holds(w, j)'
  PROVE  (\A w \in Workers : SaveInv(w))'
<1> SUFFICES ASSUME NEW w \in Workers
             PROVE  SaveInv(w)'
  OBVIOUS
<1>1. PICK j : j = job'[w]
  OBVIOUS
<1>2. Middle(j) => Holds(w, j)'
  BY <1>1
<1> QED BY <1>1, <1>2 DEF SaveInv, Holds, Middle, Dirty, Kept, Closing, Doing

\* A handle that stays and is not about to close keeps its inode in view.
LEMMA KeptStays ==
  ASSUME NEW i, NEW but,
         \A fh \in Fhs \ but : handle[fh] = i /\ ~Closing(fh) =>
                               handle'[fh] = i /\ ~Closing(fh)'
  PROVE  Kept(i, but) => Kept(i, but)'
  BY DEF Kept
-----------------------------------------------------------------------------
(* Steps that leave the buffers, the handles and the saves' progress to the lock *)
(* as they are.                                                                  *)

\* The save k goes on from j, and does not settle.
Follows(j, k) ==
  /\ Middle(j) /\ k.kind = j.kind /\ k.fh = j.fh /\ k.ino = j.ino /\ k.file = j.file
  /\ k.ver = j.ver
  /\ (k.pc = "repoint") <=> (j.pc = "repoint")

Unsettled(j) == Middle(j) /\ j.pc # "repoint"

\* No save begins, settles or is about to close its handle.
JobsAside ==
  \A v \in Workers :
    /\ job'[v].ver <= made'.ver
    /\ Middle(job'[v]) => Follows(job[v], job'[v])
    /\ job'[v].kind = "release" /\ job'[v].pc = "close" => job'[v] = job[v]

Aside ==
  /\ UNCHANGED <<writer, handle, gen, committed, lock>>
  /\ made'.file = made.file /\ made.ver <= made'.ver
  /\ \A f \in Files : target[f].kind = "discarded" => target'[f].kind = "discarded"
  /\ \A id \in Ids : rec'[id].ver <= made'.ver
  /\ Cutting' /\ JobsAside

\* The moves of a job that are of this kind.
LEMMA JobsStepAside ==
  ASSUME TypeOK, Versions, made'.ver \in Nat, made.ver <= made'.ver
  PROVE  /\ UNCHANGED job => JobsAside
         /\ \A w \in Workers : End(w) => JobsAside
         /\ \A w \in Workers : \A p :
              GoTo(w, p) /\ (Commits(w) => p = "settle" /\ Unsettled(job[w])) => JobsAside
         /\ \A w \in Workers : Landed(w) /\ (Commits(w) => Unsettled(job[w])) => JobsAside
         /\ \A w \in Workers : \A j :
              Start(w, j) /\ j.ver <= made'.ver /\ j.pc # "close" /\ ~Middle(j) => JobsAside
<1>0. \A v \in Workers : /\ job[v] \in Job /\ job[v].ver \in Nat
                         /\ job[v].ver <= made.ver /\ job[v].ver <= made'.ver
  BY DEF TypeOK, Versions, Job, Counts
<1>00. \A v \in Workers : job'[v] = job[v] =>
          /\ job'[v].ver <= made'.ver
          /\ Middle(job'[v]) => Follows(job[v], job'[v])
  BY <1>0 DEF Follows
<1>1. UNCHANGED job => JobsAside
  BY <1>00 DEF JobsAside
<1>2. ASSUME NEW w \in Workers, End(w) PROVE JobsAside
  <2>1. job'[w] = NoJob /\ \A v \in Workers \ {w} : job'[v] = job[v]
    BY <1>2 DEF End, TypeOK
  <2>2. NoJob.ver <= made'.ver /\ ~Middle(NoJob) /\ NoJob.kind # "release"
    BY DEF NoJob, Middle
  <2> QED BY <1>00, <2>1, <2>2 DEF JobsAside
<1>3. ASSUME NEW w \in Workers, NEW p, GoTo(w, p),
             Commits(w) => p = "settle" /\ Unsettled(job[w])
      PROVE  JobsAside
  <2>1. job'[w] = [job[w] EXCEPT !.pc = p] /\ \A v \in Workers \ {w} : job'[v] = job[v]
    BY <1>3 DEF GoTo, TypeOK
  <2>2. /\ job'[w].kind = job[w].kind /\ job'[w].fh = job[w].fh /\ job'[w].ino = job[w].ino
        /\ job'[w].file = job[w].file /\ job'[w].ver = job[w].ver /\ job'[w].pc = p
    BY <1>0, <2>1 DEF Job
  <2>3. /\ job'[w].ver <= made'.ver
        /\ Middle(job'[w]) => Follows(job[w], job'[w])
        /\ ~(job'[w].kind = "release" /\ job'[w].pc = "close")
    BY <1>0, <1>3, <2>2 DEF Unsettled, Middle, Follows, Commits
  <2> QED BY <1>00, <2>1, <2>3 DEF JobsAside
<1>4. ASSUME NEW w \in Workers, Landed(w), Commits(w) => Unsettled(job[w]) PROVE JobsAside
  <2>1. /\ job'[w] = [job[w] EXCEPT !.new = Made("id"), !.pc = "drop"]
        /\ \A v \in Workers \ {w} : job'[v] = job[v]
    BY <1>4 DEF Landed, TypeOK
  <2>2. /\ job'[w].kind = job[w].kind /\ job'[w].fh = job[w].fh /\ job'[w].ino = job[w].ino
        /\ job'[w].file = job[w].file /\ job'[w].ver = job[w].ver /\ job'[w].pc = "drop"
    BY <1>0, <2>1 DEF Job
  <2>3. /\ job'[w].ver <= made'.ver
        /\ Middle(job'[w]) => Follows(job[w], job'[w])
        /\ ~(job'[w].kind = "release" /\ job'[w].pc = "close")
    BY <1>0, <1>4, <2>2 DEF Unsettled, Middle, Follows, Commits
  <2> QED BY <1>00, <2>1, <2>3 DEF JobsAside
<1>5. ASSUME NEW w \in Workers, NEW j, Start(w, j), j.ver <= made'.ver, j.pc # "close",
             ~Middle(j)
      PROVE  JobsAside
  <2>1. job'[w] = j /\ \A v \in Workers \ {w} : job'[v] = job[v]
    BY <1>5 DEF Start, TypeOK
  <2> QED BY <1>00, <1>5, <2>1 DEF JobsAside
<1> QED BY <1>1, <1>2, <1>3, <1>4, <1>5

\* They keep the invariant.
LEMMA AsideKeeps ==
  ASSUME IInv, SavedInv, TypeOK', Aside
  PROVE  SavedInv'
<1>0. TypeOK /\ Owned /\ Versions /\ DirtyIsKept /\ NothingUnsavedIsDropped
  BY DEF IInv, SavedInv
<1>1. made'.file = made.file /\ made.ver <= made'.ver /\ made.ver \in Nat /\ made'.ver \in Nat
      /\ UNCHANGED <<writer, handle, gen, committed, lock>> /\ JobsAside
  BY <1>0 DEF Aside, TypeOK, Counts
<1>2. Owned'
  BY <1>0, <1>1 DEF Owned
<1>3. Versions'
  <2>1. \A f \in Files : gen[f] \in Nat /\ committed[f] \in Nat
    BY <1>0 DEF TypeOK
  <2> QED BY <1>0, <1>1, <2>1 DEF Versions, Aside, JobsAside
<1>4. \A fh : Closing(fh)' => Closing(fh)
  BY <1>1 DEF Closing, Doing, JobsAside
<1>5. \A i, but : Kept(i, but) => Kept(i, but)'
  BY <1>1, <1>4 DEF Kept
<1>6. ASSUME NEW w \in Workers, NEW j, job'[w] = j, Middle(j) PROVE Holds(w, j)'
  <2>1. Follows(job[w], j)
    BY <1>1, <1>6 DEF JobsAside
  <2>2. Holds(w, job[w])
    BY <2>1 DEF SavedInv, SaveInv, Follows
  <2>3. Holds(w, j)
    BY <2>1, <2>2 DEF Holds, Follows
  <2> QED BY <1>1, <1>5, <2>3 DEF Holds, Dirty
<1>7. DirtyIsKept'
  <2>1. \A f \in Files : target'[f].kind # "discarded" => target[f].kind # "discarded"
    BY DEF Aside
  <2>2. \A i \in Inos : writer[i].file # 0 => writer[i].file \in Files
    BY <1>0 DEF TypeOK
  <2> QED BY <1>0, <1>1, <1>5, <2>1, <2>2 DEF DirtyIsKept, Dirty
<1>8. NothingUnsavedIsDropped'
  <2>1. 1 .. made.file \subseteq Files
    BY <1>0, SessionAssumption DEF TypeOK, Counts, Files
  <2> QED BY <1>0, <1>1, <2>1 DEF NothingUnsavedIsDropped, Aside
<1>9. (\A w \in Workers : SaveInv(w))'
  BY <1>6, HoldsNext
<1> QED BY <1>2, <1>3, <1>7, <1>8, <1>9 DEF SavedInv, Aside
-----------------------------------------------------------------------------
(* Steps that change a buffer, or the handles. *)

\* The buffer of a handle that is open gets new content.
LEMMA ChangeKeeps ==
  ASSUME IInv, SavedInv, TypeOK', NEW fh \in open,
         gen' = [gen EXCEPT ![writer[handle[fh]].file] = Made("ver")],
         made'.ver = made.ver + 1, made'.file = made.file,
         UNCHANGED <<rec, writer, handle, target, committed, lock, job>>,
         Cutting'
  PROVE  SavedInv'
<1> DEFINE i == handle[fh]
           f == writer[i].file
<1>0. TypeOK /\ Owned /\ Versions /\ DirtyIsKept /\ NothingUnsavedIsDropped
  BY DEF IInv, SavedInv
<1>1. fh \in Fhs /\ i \in Inos /\ f \in Files /\ f # 0
  <2>1. fh \in Fhs /\ handle[fh] # 0
    BY <1>0 DEF TypeOK, IInv, Known
  <2>2. 0 \notin Files
    BY DEF Files
  <2> QED BY <2>1, <2>2, HandleHasBuffer DEF IInv
<1>2. /\ made.ver \in Nat /\ Made("ver") = made.ver + 1
      /\ \A g \in Files : gen[g] \in Nat /\ committed[g] \in Nat
                          /\ gen[g] <= made.ver /\ committed[g] <= made.ver
  BY <1>0, NextNumbers DEF Versions, TypeOK
<1>3. /\ gen'[f] = made.ver + 1
      /\ \A g \in Files \ {f} : gen'[g] = gen[g]
  BY <1>0, <1>1, <1>2 DEF TypeOK
<1>4. ~Closing(fh)
  BY OpenNotClosing
<1>5. \A k \in Inos : writer[k].file = f => k = i
  BY <1>0, <1>1 DEF Owned
<1> HIDE DEF i, f
<1>6. Owned'
  BY <1>0 DEF Owned
<1>7. Versions'
  <2>1. \A id \in Ids : rec[id].ver \in Nat
    BY <1>0 DEF TypeOK
  <2>2. \A w \in Workers : job[w].ver \in Nat
    BY <1>0 DEF TypeOK, Job
  <2> QED BY <1>0, <1>2, <1>3, <2>1, <2>2 DEF Versions
<1>8. \A k, but : Kept(k, but)' <=> Kept(k, but)
  BY DEF Kept, Closing, Doing
<1>9. Kept(i, {}) /\ \A fh2 : fh2 # fh => Kept(i, {fh2})
  BY <1>1, <1>4 DEF Kept, i
<1>10. DirtyIsKept'
  <2>1. ASSUME NEW k \in Inos, writer[k].file # 0, writer[k].file # f,
               gen'[writer[k].file] # committed[writer[k].file],
               target[writer[k].file].kind # "discarded"
        PROVE  Kept(k, {})
    <3>1. writer[k].file \in Files
      BY <1>0, <2>1 DEF TypeOK
    <3> QED BY <1>0, <1>3, <2>1, <3>1 DEF DirtyIsKept, Dirty
  <2> QED BY <1>5, <1>8, <1>9, <2>1 DEF DirtyIsKept, Dirty
<1>11. NothingUnsavedIsDropped'
  <2>1. 1 .. made.file \subseteq Files
    BY <1>0, SessionAssumption DEF TypeOK, Counts, Files
  <2>2. writer[i].file = f
    BY DEF f
  <2> QED BY <1>0, <1>1, <1>3, <2>1, <2>2 DEF NothingUnsavedIsDropped
<1>12. ASSUME NEW w \in Workers, NEW j, job'[w] = j, Middle(j) PROVE Holds(w, j)'
  <2>1. Holds(w, j) /\ job[w] = j
    BY <1>12 DEF SavedInv, SaveInv
  <2>2. j.file \in Files /\ j.ino \in Inos /\ (j.kind = "flush" <=> j.fh \in open)
    BY <1>12, <2>1, MiddleJob
  <2>3. CASE j.file # f
    <3>1. gen'[j.file] = gen[j.file]
      BY <1>3, <2>2, <2>3
    <3> QED BY <1>8, <2>1, <3>1 DEF Holds, Dirty
  <2>4. CASE j.file = f
    <3>1. j.ino = i
      BY <1>5, <2>1, <2>2, <2>4 DEF Holds
    <3>2. gen'[f] # committed[f]
      BY <1>1, <1>2, <1>3
    <3>3. j.kind = "release" => Kept(j.ino, {j.fh})'
      BY <1>8, <1>9, <2>2, <3>1
    <3> QED BY <2>1, <2>4, <3>2, <3>3 DEF Holds, Dirty
  <2> QED BY <2>3, <2>4
<1>13. (\A w \in Workers : SaveInv(w))'
  BY <1>12, HoldsNext
<1> QED BY <1>6, <1>7, <1>10, <1>11, <1>13 DEF SavedInv

\* A handle is opened, on a buffer that is there or on a new one.
LEMMA AttachKeeps ==
  ASSUME IInv, SavedInv, TypeOK', NEW i \in Inos, NEW f, Attach(i, f), Made("fh") \in Fhs,
         UNCHANGED <<rec, lock, arc>>, JobsAside, made.ver <= made'.ver,
         \/ /\ writer[i].file # 0 /\ made'.file = made.file
            /\ UNCHANGED buffers
         \/ /\ writer[i].file = 0 /\ f = made.file + 1 /\ made'.file = f /\ f \in Files
            /\ gen'[f] <= made'.ver /\ committed'[f] <= made'.ver
            /\ \A g \in Files \ {f} :
                 target'[g] = target[g] /\ gen'[g] = gen[g] /\ committed'[g] = committed[g]
  PROVE  SavedInv'
<1> PICK h : h = Made("fh")
  OBVIOUS
<1>0. TypeOK /\ Owned /\ Versions /\ DirtyIsKept /\ NothingUnsavedIsDropped /\ Cutting
  BY DEF IInv, SavedInv
<1>1. /\ handle' = [handle EXCEPT ![h] = i] /\ open' = open \cup {h} /\ h \in Fhs
      /\ i # 0 /\ made.file \in Nat /\ made'.file \in Nat /\ made.ver \in Nat
      /\ made'.ver \in Nat /\ 0 \notin Files
  <2>1. i # 0 /\ 0 \notin Files
    BY DEF Inos, Files
  <2> QED BY <1>0, <2>1 DEF Attach, TypeOK, Counts
<1>2. handle[h] = 0 /\ \A v \in Workers : Commits(v) => job[v].fh # h
  <2>1. h = made.fh + 1 /\ made.fh \in Nat
    BY <1>0, NextNumbers
  <2>2. handle[h] = 0
    BY <1>1, <2>1 DEF IInv, Known
  <2> QED BY <2>2, SaveFh
<1>3. /\ handle'[h] = i /\ \A fh \in Fhs \ {h} : handle'[fh] = handle[fh]
  BY <1>0, <1>1 DEF TypeOK
<1>4. \A k \in Inos : /\ writer[k].file # 0 => writer'[k].file = writer[k].file
                      /\ k # i => writer'[k].file = writer[k].file
                      /\ writer[k].file = 0 /\ k = i => writer'[k].file = f
                      /\ writer[k].file \in Files \cup {0}
  BY <1>0 DEF Attach, TypeOK
<1>5. made.file <= made'.file
  BY <1>1
<1>6. Owned'
  <2>1. \A k \in Inos : writer[k].file <= made.file
    BY <1>0 DEF Owned
  <2>2. \A k \in Inos : writer[k].file \in Int
    BY <1>4 DEF Files
  <2>3. CASE writer[i].file # 0
    <3>1. \A k \in Inos : writer'[k].file = writer[k].file
      BY <1>4, <2>3
    <3> QED BY <1>0, <1>5, <2>2, <3>1, <1>1 DEF Owned
  <2>4. CASE writer[i].file = 0
    <3>1. writer'[i].file = made.file + 1 /\ made'.file = made.file + 1
      BY <1>4, <2>4
    <3>2. \A k \in Inos \ {i} : writer'[k].file = writer[k].file
      BY <1>4
    <3> QED BY <1>0, <1>1, <2>1, <2>2, <3>1, <3>2 DEF Owned
  <2> QED BY <2>3, <2>4
<1>7. Versions'
  <2>1. \A g \in Files : gen[g] \in Nat /\ committed[g] \in Nat
    BY <1>0 DEF TypeOK
  <2>2. \A id \in Ids : rec[id].ver \in Nat
    BY <1>0 DEF TypeOK
  <2>3. \A g \in Files : gen'[g] <= made'.ver /\ committed'[g] <= made'.ver
    <3>1. \A g \in Files : gen[g] <= made'.ver /\ committed[g] <= made'.ver
      BY <1>0, <1>1, <2>1 DEF Versions
    <3> QED BY <3>1 DEF buffers
  <2>4. \A id \in Ids : rec'[id].ver <= made'.ver
    BY <1>0, <1>1, <2>2 DEF Versions
  <2> QED BY <2>3, <2>4 DEF Versions, JobsAside
<1>8. \A fh : Closing(fh)' => Closing(fh)
  BY DEF Closing, Doing, JobsAside
<1>9. ~Closing(h)'
  <2>1. ~Closing(h)
    BY <1>2 DEF Closing, Doing, Commits
  <2> QED BY <1>8, <2>1
<1>10. \A k \in Inos : \A but : Kept(k, but) => Kept(k, but)'
  <2>1. \A k \in Inos : k # 0
    BY DEF Inos
  <2> QED BY <1>2, <1>3, <1>8, <2>1 DEF Kept
<1>11. Kept(i, {})'
  BY <1>1, <1>3, <1>9 DEF Kept
<1>12. DirtyIsKept'
  <2>1. ASSUME NEW k \in Inos, k # i, writer'[k].file # 0,
               gen'[writer'[k].file] # committed'[writer'[k].file],
               target'[writer'[k].file].kind # "discarded"
        PROVE  Kept(k, {})'
    <3> DEFINE g == writer[k].file
    <3>1. writer'[k].file = g /\ g \in Files
      BY <1>4, <2>1
    <3>2. g # made.file + 1
      <4>1. g <= made.file /\ g \in Int
        BY <1>0, <3>1 DEF Owned, Files
      <4> QED BY <4>1, <1>1
    <3>3. gen'[g] = gen[g] /\ committed'[g] = committed[g] /\ target'[g] = target[g]
      BY <3>1, <3>2 DEF buffers
    <3> QED BY <1>0, <1>10, <2>1, <3>1, <3>3 DEF DirtyIsKept, Dirty
  <2>2. \A k \in Inos : k = i => Kept(k, {})'
    BY <1>11
  <2> QED BY <2>1, <2>2 DEF DirtyIsKept, Dirty
<1>13. Cutting'
  <2>1. ASSUME arc # 0 PROVE \E fh \in open' : writer'[handle'[fh]].file = arc
    <3>1. PICK fh \in open : writer[handle[fh]].file = arc
      BY <1>0, <2>1 DEF Cutting
    <3>2. fh \in Fhs /\ handle[fh] # 0 /\ handle[fh] \in Inos
      BY <1>0 DEF IInv, Known, TypeOK, OptIno
    <3>3. handle'[fh] = handle[fh]
      BY <1>2, <1>3, <3>2
    <3> QED BY <1>1, <1>4, <2>1, <3>1, <3>2, <3>3
  <2> QED BY <2>1 DEF Cutting
<1>14. NothingUnsavedIsDropped'
  <2> SUFFICES ASSUME NEW g \in 1 .. made'.file, \A k \in Inos : writer'[k].file # g
               PROVE  gen'[g] = committed'[g] \/ target'[g].kind = "discarded"
    BY DEF NothingUnsavedIsDropped
  <2>1. g # 0 /\ g \in Nat /\ \A k \in Inos : writer[k].file # g
    BY <1>4
  <2>2. g # made.file + 1 \/ made'.file = made.file
    BY <1>4
  <2>3. g \in 1 .. made.file
    BY <1>1, <2>1, <2>2
  <2>4. g \in Files /\ g # made.file + 1
    <3>1. made.file <= MaxFile /\ MaxFile \in Nat
      BY <1>0, SessionAssumption DEF TypeOK, Counts
    <3> QED BY <1>1, <2>3, <3>1 DEF Files
  <2>5. gen'[g] = gen[g] /\ committed'[g] = committed[g] /\ target'[g] = target[g]
    BY <2>4 DEF buffers
  <2> QED BY <1>0, <2>1, <2>3, <2>5 DEF NothingUnsavedIsDropped
<1>15. ASSUME NEW w \in Workers, NEW j, job'[w] = j, Middle(j) PROVE Holds(w, j)'
  <2>1. Follows(job[w], j)
    BY <1>15 DEF JobsAside
  <2>2. Holds(w, job[w]) /\ Middle(job[w])
    BY <2>1 DEF SavedInv, SaveInv, Follows
  <2>3. Holds(w, j)
    BY <2>1, <2>2 DEF Holds, Follows
  <2>4. j.fh \in Fhs /\ handle[j.fh] # 0 /\ j.file \in Files /\ j.ino \in Inos
    BY <2>1, <2>2, MiddleJob DEF Follows
  <2>5. handle'[j.fh] = handle[j.fh] /\ writer'[j.ino].file = writer[j.ino].file
    BY <1>1, <1>2, <1>3, <1>4, <2>3, <2>4 DEF Holds
  <2>6. j.file # made.file + 1
    <3>1. j.file <= made.file /\ j.file \in Int
      BY <1>0, <2>3, <2>4 DEF Owned, Files, Holds
    <3> QED BY <3>1, <1>1
  <2>7. gen'[j.file] = gen[j.file] /\ committed'[j.file] = committed[j.file]
    BY <2>4, <2>6 DEF buffers
  <2> QED BY <1>10, <2>3, <2>4, <2>5, <2>7 DEF Holds, Dirty
<1>16. (\A w \in Workers : SaveInv(w))'
  BY <1>15, HoldsNext
<1> QED BY <1>6, <1>7, <1>12, <1>13, <1>14, <1>16 DEF SavedInv

\* The handles that are left have a buffer.
LEMMA HandleHasBufferNext ==
  ASSUME TypeOK', HandlesCounted', NEW fh \in Fhs, handle'[fh] # 0
  PROVE  handle'[fh] \in Inos /\ writer'[handle'[fh]].file # 0
<1> DEFINE i == handle'[fh]
           S == {k \in Fhs : handle'[k] = i}
<1>1. i \in Inos
  BY DEF TypeOK, OptIno
<1>2. IsFiniteSet(S)
  <2>1. S \subseteq 1 .. MaxFh /\ MaxFh \in Nat
    BY SessionAssumption DEF Fhs
  <2>2. IsFiniteSet(1 .. MaxFh)
    BY <2>1, FS_Interval
  <2> HIDE DEF S
  <2> QED BY <2>1, <2>2, FS_Subset
<1>3. Cardinality(S) # 0
  <2>1. fh \in S
    OBVIOUS
  <2> HIDE DEF S
  <2> QED BY <1>2, <2>1, FS_EmptySet
<1>4. writer'[i].handles # 0
  <2>1. writer'[i].handles = Cardinality(S)
    BY <1>1 DEF HandlesCounted
  <2> QED BY <1>3, <2>1
<1> QED BY <1>1, <1>4 DEF HandlesCounted

\* A handle is closed: the buffer is clean, or the release has saved it and what is
\* unsaved now has another handle.
LEMMA CloseKeeps ==
  ASSUME IInv, SavedInv, TypeOK', HandlesCounted', NEW fh \in Fhs, handle[fh] # 0,
         CloseHandle(fh), open' = open \ {fh}, JobsAside,
         UNCHANGED <<rec, buffers, lock, made>>, arc' = arc, arc = 0 \/ fh \notin open,
         ~Dirty(writer[handle[fh]].file) \/ Closing(fh),
         \A v \in Workers : Middle(job[v]) => job[v].fh # fh
  PROVE  SavedInv'
<1> DEFINE i == handle[fh]
           f == writer[i].file
<1>0. TypeOK /\ Owned /\ Versions /\ DirtyIsKept /\ NothingUnsavedIsDropped /\ Cutting
  BY DEF IInv, SavedInv
<1>1. i \in Inos /\ f \in Files /\ i # 0
  BY HandleHasBuffer DEF IInv
<1>2. /\ handle'[fh] = 0 /\ \A k \in Fhs \ {fh} : handle'[k] = handle[k]
      /\ \A k \in Inos : writer'[k].file \in {0, writer[k].file}
      /\ \A k \in Inos : k # i => writer'[k].file = writer[k].file
  BY <1>0 DEF CloseHandle, TypeOK, NoWriter
<1>3. \A k \in Fhs : handle'[k] # 0 => /\ writer'[handle'[k]].file # 0
                                       /\ handle'[k] \in Inos
  BY HandleHasBufferNext
<1> HIDE DEF i, f
<1>4. \A k \in Fhs \ {fh} : handle[k] # 0 => writer'[handle[k]].file = writer[handle[k]].file
  BY <1>2, <1>3
<1>5. Owned'
  <2>1. \A k \in Inos : writer[k].file \in Nat /\ made.file \in Nat
    BY <1>0 DEF TypeOK, Counts, Files
  <2> QED BY <1>0, <1>2, <2>1 DEF Owned
<1>6. Versions'
  BY <1>0 DEF Versions, JobsAside, buffers
<1>7. \A k : Closing(k)' => Closing(k)
  BY DEF Closing, Doing, JobsAside
<1>8. \A k \in Inos : \A but : Kept(k, but) /\ (k # i \/ Closing(fh)) => Kept(k, but)'
  BY <1>2, <1>7 DEF Kept, i
<1>9. DirtyIsKept'
  <2>1. ASSUME NEW k \in Inos, writer'[k].file # 0, Dirty(writer'[k].file),
               target[writer'[k].file].kind # "discarded"
        PROVE  Kept(k, {})'
    <3>1. writer'[k].file = writer[k].file
      BY <1>2, <2>1
    <3>2. Kept(k, {})
      BY <1>0, <2>1, <3>1 DEF DirtyIsKept
    <3>3. k # i \/ Closing(fh)
      BY <2>1, <3>1 DEF i
    <3> QED BY <1>8, <3>2, <3>3
  <2> QED BY <2>1 DEF DirtyIsKept, Dirty, buffers
<1>10. Cutting'
  <2>1. ASSUME arc # 0 PROVE \E k \in open' : writer'[handle'[k]].file = arc
    <3>1. PICK k \in open : writer[handle[k]].file = arc
      BY <1>0, <2>1 DEF Cutting
    <3>2. k \in Fhs /\ handle[k] # 0 /\ k # fh
      BY <1>0, <2>1 DEF IInv, Known, TypeOK
    <3> QED BY <1>2, <1>4, <3>1, <3>2
  <2> QED BY <2>1 DEF Cutting
<1>11. NothingUnsavedIsDropped'
  <2> SUFFICES ASSUME NEW g \in 1 .. made.file, \A k \in Inos : writer'[k].file # g
               PROVE  gen[g] = committed[g] \/ target[g].kind = "discarded"
    BY DEF NothingUnsavedIsDropped, buffers
  <2>1. CASE g # f
    <3>1. \A k \in Inos : writer[k].file # g
      BY <1>2, <2>1 DEF f
    <3> QED BY <1>0, <3>1 DEF NothingUnsavedIsDropped
  <2>2. CASE g = f /\ Dirty(f) /\ target[f].kind # "discarded"
    <3>1. Kept(i, {}) /\ Closing(fh)
      <4>1. f # 0
        BY <2>2
      <4> QED BY <1>0, <1>1, <2>2, <4>1 DEF DirtyIsKept, f, i
    <3>2. PICK k \in Fhs : handle[k] = i /\ k # fh
      BY <3>1 DEF Kept
    <3>3. writer'[i].file = f
      BY <1>1, <1>4, <3>2 DEF f
    <3> QED BY <1>1, <2>2, <3>3
  <2> QED BY <2>1, <2>2 DEF Dirty
<1>12. ASSUME NEW w \in Workers, NEW j, job'[w] = j, Middle(j) PROVE Holds(w, j)'
  <2>1. Follows(job[w], j)
    BY <1>12 DEF JobsAside
  <2>2. Holds(w, job[w]) /\ Middle(job[w])
    BY <2>1 DEF SavedInv, SaveInv, Follows
  <2>3. Holds(w, j)
    BY <2>1, <2>2 DEF Holds, Follows
  <2>4. j.fh \in Fhs /\ handle[j.fh] # 0 /\ j.file \in Files /\ j.ino \in Inos /\ j.fh # fh
    BY <2>1, <2>2, MiddleJob DEF Follows
  <2>5. handle'[j.fh] = handle[j.fh] /\ writer'[j.ino].file = writer[j.ino].file
    BY <1>2, <1>4, <2>3, <2>4 DEF Holds
  <2>6. j.kind = "release" /\ gen[j.file] # j.ver => Kept(j.ino, {j.fh})'
    <3>1. CASE j.ino = i /\ ~Closing(fh)
      <4>1. j.file = f /\ gen[f] = committed[f]
        BY <2>3, <3>1 DEF Holds, Dirty, f, i
      <4> QED BY <2>3, <4>1 DEF Holds, Dirty
    <3>2. CASE j.ino # i \/ Closing(fh)
      BY <1>8, <2>3, <2>4, <3>2 DEF Holds
    <3> QED BY <3>1, <3>2
  <2> QED BY <2>3, <2>5, <2>6 DEF Holds, Dirty, buffers
<1>13. (\A w \in Workers : SaveInv(w))'
  BY <1>12, HoldsNext
<1> QED BY <1>5, <1>6, <1>9, <1>10, <1>11, <1>13 DEF SavedInv
-----------------------------------------------------------------------------
(* Steps of a save that take the commit_lock, settle or give it back. *)

\* A save ends, or goes on to close its handle: its buffer is clean then, not to be
\* saved, or in the hands of another handle.  No other worker has begun to
\* save it.
LEMMA CommitEnds ==
  ASSUME IInv, SavedInv, TypeOK', NEW w \in Workers, NEW f \in Files,
         Commits(w), writer[handle[job[w].fh]].file = f,
         \A v \in Workers \ {w} : job'[v] = job[v] /\ (Middle(job[v]) => job[v].file # f),
         ~Middle(job'[w]), job'[w].ver <= made.ver,
         Doing(w, "release", "close")' =>
           /\ job'[w].fh = job[w].fh
           /\ Dirty(f) => target[f].kind = "discarded" \/ Kept(handle[job[w].fh], {job[w].fh}),
         UNCHANGED <<rec, writer, handle, target, gen, made, arc, open>>,
         \A g \in Files \ {f} : lock'[g] = lock[g] /\ committed'[g] = committed[g],
         committed'[f] = committed[f] \/ committed'[f] = gen[f]
  PROVE  SavedInv'
<1> PICK fh, i : fh = job[w].fh /\ i = handle[job[w].fh]
  OBVIOUS
<1>0. TypeOK /\ Owned /\ Versions /\ DirtyIsKept /\ NothingUnsavedIsDropped /\ Cutting
  BY DEF IInv, SavedInv
<1>1. fh \in Fhs /\ i \in Inos /\ i # 0 /\ f # 0 /\ writer[i].file = f
  <2>1. fh \in Fhs /\ handle[fh] # 0
    BY SaveFh
  <2>2. f # 0
    BY DEF Files
  <2> QED BY <2>1, <2>2, HandleHasBuffer DEF IInv
<1>2. \A k \in Inos : writer[k].file = f => k = i
  BY <1>0, <1>1 DEF Owned
<1>3. Owned' /\ Cutting'
  BY <1>0 DEF Owned, Cutting
<1>4. Versions'
  BY <1>0 DEF Versions
<1>5. \A k : Closing(k)' => Closing(k) \/ (k = fh /\ Doing(w, "release", "close")')
  BY DEF Closing, Doing
<1>6. \A k : \A but : Kept(k, but) /\ k # i => Kept(k, but)'
  BY <1>5 DEF Kept
<1>7. Dirty(f) => \/ target[f].kind = "discarded"
                  \/ Kept(i, {})'
  <2>1. CASE Doing(w, "release", "close")'
    <3>1. Kept(i, {fh}) => Kept(i, {})'
      BY <1>5 DEF Kept
    <3> QED BY <2>1, <3>1
  <2>2. CASE ~Doing(w, "release", "close")'
    <3>1. Kept(i, {}) => Kept(i, {})'
      BY <1>5, <2>2 DEF Kept
    <3> QED BY <1>0, <1>1, <3>1 DEF DirtyIsKept
  <2> QED BY <2>1, <2>2
<1>8. \A g \in Files : Dirty(g)' => Dirty(g)
  BY DEF Dirty
<1>9. DirtyIsKept'
  <2>1. ASSUME NEW k \in Inos, writer[k].file # 0, Dirty(writer[k].file)',
               target[writer[k].file].kind # "discarded"
        PROVE  Kept(k, {})'
    <3>1. writer[k].file \in Files
      BY <1>0, <2>1 DEF TypeOK
    <3>2. gen'[writer[k].file] # committed'[writer[k].file]
      BY <2>1 DEF Dirty
    <3>3. Dirty(writer[k].file)
      BY <3>1, <3>2 DEF Dirty
    <3>4. CASE k = i
      BY <1>1, <1>7, <2>1, <3>3, <3>4
    <3>5. CASE k # i
      BY <1>0, <1>6, <2>1, <3>3, <3>5 DEF DirtyIsKept
    <3> QED BY <3>4, <3>5
  <2> QED BY <2>1 DEF DirtyIsKept, Dirty
<1>10. NothingUnsavedIsDropped'
  <2>1. 1 .. made.file \subseteq Files
    <3>1. made.file <= MaxFile /\ made.file \in Nat /\ MaxFile \in Nat
      BY <1>0, SessionAssumption DEF TypeOK, Counts
    <3> QED BY <3>1 DEF Files
  <2> QED BY <1>0, <1>1, <2>1 DEF NothingUnsavedIsDropped
<1>11. ASSUME NEW v \in Workers, NEW j, job'[v] = j, Middle(j) PROVE Holds(v, j)'
  <2>1. v # w /\ job[v] = j
    BY <1>11
  <2>2. Holds(v, j) /\ j.file \in Files /\ j.ino \in Inos /\ j.file # f
    BY <1>11, <2>1, MiddleJob DEF SavedInv, SaveInv
  <2>3. j.ino # i
    BY <1>1, <2>2 DEF Holds
  <2> QED BY <1>6, <2>2, <2>3 DEF Holds, Dirty
<1>12. (\A v \in Workers : SaveInv(v))'
  BY <1>11, HoldsNext
<1> QED BY <1>3, <1>4, <1>9, <1>10, <1>12 DEF SavedInv

\* A save takes the commit_lock of a buffer that is dirty.
LEMMA CommitBegins ==
  ASSUME IInv, SavedInv, TypeOK', NEW w \in Workers, NEW f \in Files,
         Commits(w), job[w].pc = "lock", writer[handle[job[w].fh]].file = f, lock[f] = 0, Dirty(f),
         \A v \in Workers \ {w} : job'[v] = job[v],
         job'[w].kind = job[w].kind, job'[w].fh = job[w].fh, job'[w].ino = handle[job[w].fh],
         job'[w].file = f, job'[w].ver = gen[f], job'[w].pc \in {"create", "upload"},
         lock' = [lock EXCEPT ![f] = w],
         UNCHANGED <<rec, writer, handle, target, gen, committed, made, arc, open>>
  PROVE  SavedInv'
<1>0. TypeOK /\ Owned /\ Versions /\ DirtyIsKept /\ NothingUnsavedIsDropped /\ Cutting
  BY DEF IInv, SavedInv
<1>1. Owned' /\ Cutting' /\ NothingUnsavedIsDropped'
  BY <1>0 DEF Owned, Cutting, NothingUnsavedIsDropped
<1>2. Versions'
  BY <1>0 DEF Versions
<1>3. \A k : Closing(k)' => Closing(k)
  BY DEF Closing, Doing
<1>4. \A k : \A but : Kept(k, but) => Kept(k, but)'
  BY <1>3 DEF Kept
<1>5. DirtyIsKept'
  BY <1>0, <1>4 DEF DirtyIsKept, Dirty
<1>6. lock'[f] = w /\ \A g \in Files \ {f} : lock'[g] = lock[g]
  BY <1>0 DEF TypeOK
<1>7. ASSUME NEW v \in Workers, NEW j, job'[v] = j, Middle(j) PROVE Holds(v, j)'
  <2>1. CASE v = w
    BY <1>6, <1>7, <2>1 DEF Holds, Dirty
  <2>2. CASE v # w
    <3>1. Holds(v, j) /\ j.file \in Files
      BY <1>7, <2>2, MiddleJob DEF SavedInv, SaveInv
    <3>2. j.file # f
      BY <3>1, SessionAssumption DEF Holds
    <3> QED BY <1>4, <1>6, <3>1, <3>2 DEF Holds, Dirty
  <2> QED BY <2>1, <2>2
<1>8. (\A v \in Workers : SaveInv(v))'
  BY <1>7, HoldsNext
<1> QED BY <1>1, <1>2, <1>5, <1>8 DEF SavedInv

\* A save makes its buffer clean, unless that has changed.
LEMMA SettleKeeps ==
  ASSUME IInv, SavedInv, TypeOK', NEW w \in Workers, Settle(w)
  PROVE  SavedInv'
<1> PICK k, f : k = job[w] /\ f = job[w].file
  OBVIOUS
<1>0. TypeOK /\ Owned /\ Versions /\ DirtyIsKept /\ NothingUnsavedIsDropped /\ Cutting
  BY DEF IInv, SavedInv
<1>1. Middle(k) /\ k.pc = "settle" /\ k.kind \in {"flush", "release"}
  BY DEF Settle, Saving, Commits, Middle
<1>2. Holds(w, k) /\ f \in Files /\ f # 0 /\ k.ino \in Inos /\ k.fh \in Fhs
      /\ (k.kind = "flush" <=> k.fh \in open)
  <2>1. 0 \notin Files
    BY DEF Files
  <2> QED BY <1>1, <2>1, MiddleJob DEF SavedInv, SaveInv
<1>3. /\ UNCHANGED <<rec, writer, handle, gen, lock, made, arc, open>>
      /\ committed'[f] = k.ver
      /\ \A g \in Files \ {f} : committed'[g] = committed[g] /\ target'[g] = target[g]
      /\ \A v \in Workers \ {w} : job'[v] = job[v]
  BY <1>0, <1>2 DEF Settle, GoTo, TypeOK, vault, kernel
<1>4. /\ job'[w].kind = k.kind /\ job'[w].fh = k.fh /\ job'[w].ino = k.ino
      /\ job'[w].file = f /\ job'[w].ver = k.ver /\ job'[w].pc = "repoint"
  <2>1. job[w] \in Job /\ job' = [job EXCEPT ![w] = [job[w] EXCEPT !.pc = "repoint"]]
    BY <1>0 DEF Settle, GoTo, TypeOK
  <2>2. job'[w] = [job[w] EXCEPT !.pc = "repoint"]
    BY <1>0, <2>1 DEF TypeOK
  <2> QED BY <2>1, <2>2 DEF Job
<1>5. Owned' /\ Cutting'
  BY <1>0, <1>3 DEF Owned, Cutting
<1>6. Versions'
  <2>1. k.ver <= made.ver
    BY <1>0 DEF Versions
  <2>2. \A v \in Workers : job'[v].ver <= made.ver
    BY <1>0, <1>3, <1>4, <2>1 DEF Versions
  <2>3. \A g \in Files : committed'[g] <= made.ver
    BY <1>0, <1>3, <2>1 DEF Versions
  <2> QED BY <1>0, <1>3, <2>2, <2>3 DEF Versions
<1>7. \A h : Closing(h)' => Closing(h)
  BY <1>3, <1>4 DEF Closing, Doing
<1>8. \A i : \A but : Kept(i, but) => Kept(i, but)'
  BY <1>3, <1>7 DEF Kept
<1>9. \A i \in Inos : writer[i].file = f => i = k.ino
  BY <1>0, <1>2 DEF Owned, Holds
<1>10. gen[f] # k.ver => Kept(k.ino, {})
  <2>1. CASE k.kind = "release"
    <3>1. Kept(k.ino, {k.fh}) => Kept(k.ino, {})
      BY DEF Kept
    <3> QED BY <1>2, <2>1, <3>1 DEF Holds
  <2>2. CASE k.kind = "flush"
    BY <1>2, <2>2, OpenNotClosing DEF Holds, Kept
  <2> QED BY <1>1, <2>1, <2>2
<1>11. DirtyIsKept'
  <2>1. ASSUME NEW i \in Inos, writer[i].file # 0,
               gen[writer[i].file] # committed'[writer[i].file],
               target'[writer[i].file].kind # "discarded"
        PROVE  Kept(i, {})
    <3>1. writer[i].file \in Files
      BY <1>0, <2>1 DEF TypeOK
    <3>2. CASE writer[i].file = f
      BY <1>3, <1>9, <1>10, <2>1, <3>2
    <3>3. CASE writer[i].file # f
      <4>1. /\ committed'[writer[i].file] = committed[writer[i].file]
            /\ target'[writer[i].file] = target[writer[i].file]
        BY <1>3, <3>1, <3>3
      <4> QED BY <1>0, <2>1, <4>1 DEF DirtyIsKept, Dirty
    <3> QED BY <3>2, <3>3
  <2> QED BY <1>3, <1>8, <2>1 DEF DirtyIsKept, Dirty
<1>12. NothingUnsavedIsDropped'
  <2>1. 1 .. made.file \subseteq Files
    <3>1. made.file <= MaxFile /\ made.file \in Nat /\ MaxFile \in Nat
      BY <1>0, SessionAssumption DEF TypeOK, Counts
    <3> QED BY <3>1 DEF Files
  <2>2. writer[k.ino].file = f
    BY <1>2 DEF Holds
  <2> QED BY <1>0, <1>2, <1>3, <2>1, <2>2 DEF NothingUnsavedIsDropped
<1>13. ASSUME NEW v \in Workers, NEW j, job'[v] = j, Middle(j) PROVE Holds(v, j)'
  <2>1. CASE v = w
    BY <1>2, <1>3, <1>4, <1>8, <1>13, <2>1 DEF Holds
  <2>2. CASE v # w
    <3>1. job[v] = j /\ Holds(v, j) /\ j.file \in Files
      BY <1>3, <1>13, <2>2, MiddleJob DEF SavedInv, SaveInv
    <3>2. j.file # f
      BY <1>1, <1>13, <2>2, <3>1, LockHolder
    <3> QED BY <1>3, <1>8, <3>1, <3>2 DEF Holds, Dirty
  <2> QED BY <2>1, <2>2
<1>14. (\A v \in Workers : SaveInv(v))'
  BY <1>13, HoldsNext
<1> QED BY <1>5, <1>6, <1>11, <1>12, <1>14 DEF SavedInv
-----------------------------------------------------------------------------
(* Inodes that create has not given out. *)

InosKept == \A v \in Workers : job'[v].ino \in {0, job[v].ino}

\* Most moves of a job leave its inode as it is.
LEMMA InosStay ==
  ASSUME TypeOK
  PROVE  /\ UNCHANGED job => InosKept
         /\ \A w \in Workers : End(w) => InosKept
         /\ \A w \in Workers : \A p : GoTo(w, p) => InosKept
         /\ \A w \in Workers : Landed(w) => InosKept
         /\ \A w \in Workers : \A j : Start(w, j) /\ j.ino = 0 => InosKept
<1>1. UNCHANGED job => InosKept
  BY DEF InosKept
<1>2. ASSUME NEW w \in Workers, End(w) PROVE InosKept
  BY <1>2 DEF End, InosKept, TypeOK, NoJob
<1>3. ASSUME NEW w \in Workers, NEW p, GoTo(w, p) PROVE InosKept
  <2>1. \A v \in Workers : job'[v].ino = job[v].ino
    BY <1>3 DEF GoTo, TypeOK, Job
  <2> QED BY <2>1 DEF InosKept
<1>4. ASSUME NEW w \in Workers, Landed(w) PROVE InosKept
  <2>1. \A v \in Workers : job'[v].ino = job[v].ino
    BY <1>4 DEF Landed, TypeOK, Job
  <2> QED BY <2>1 DEF InosKept
<1>5. ASSUME NEW w \in Workers, NEW j, Start(w, j), j.ino = 0 PROVE InosKept
  BY <1>5 DEF Start, InosKept, TypeOK
<1> QED BY <1>1, <1>2, <1>3, <1>4, <1>5

Untouched(i) ==
  /\ writer'[i].file \in {0, writer[i].file}
  /\ node'[i].kind # "remote" \/ node'[i] = node[i]
  /\ \A v \in Workers : job'[v].ino # i \/ job'[v].ino = job[v].ino
  /\ \A id \in Ids : inoOf'[id] # i \/ inoOf'[id] = inoOf[id]

\* An inode that the step does not give out, nor touch, stays nowhere.
LEMMA UnusedStays ==
  ASSUME TypeOK, UnusedIsNowhere, made' \in Counts, made.ino <= made'.ino,
         \A i \in Inos : Unused(i) /\ i # made'.ino => Untouched(i)
  PROVE  UnusedIsNowhere'
<1>1. made.ino \in Nat /\ made'.ino \in Nat /\ Inos \subseteq Nat
  BY SessionAssumption DEF TypeOK, Counts, Inos
<1> SUFFICES ASSUME NEW i \in Inos, i > made'.ino, i <= MaxCreate
             PROVE  /\ writer'[i].file = 0 /\ node'[i].kind # "remote"
                    /\ \A w \in Workers : job'[w].ino # i
                    /\ \A id \in Ids : inoOf'[id] # i
  BY DEF UnusedIsNowhere, Unused
<1>2. Unused(i) /\ i # made'.ino
  BY <1>1 DEF Unused
<1> QED BY <1>2 DEF UnusedIsNowhere, Untouched

\* repoint_ino_to gives a record to one inode.
LEMMA RepointUntouched ==
  ASSUME TypeOK, NEW k, NEW old, NEW new, Repoint(k, old, new), InosKept, UNCHANGED writer,
         NEW i \in Inos, i # k
  PROVE  Untouched(i)
<1>1. node'[i] = node[i]
  BY DEF Repoint, TypeOK
<1>2. \A id \in Ids : inoOf'[id] \in {k, 0, inoOf[id]} /\ i # 0
  BY DEF Repoint, Inos
<1>3. \A v \in Workers : job'[v].ino # i \/ job'[v].ino = job[v].ino
  <2>1. i # 0
    BY DEF Inos
  <2> QED BY <2>1 DEF InosKept
<1> QED BY <1>1, <1>2, <1>3 DEF Untouched

\* Every step keeps that.
LEMMA UnusedNext == IInv /\ UnusedIsNowhere /\ [Next]_vars => UnusedIsNowhere'
<1> SUFFICES ASSUME IInv, UnusedIsNowhere, [Next]_vars
             PROVE  UnusedIsNowhere'
  OBVIOUS
<1>0. TypeOK /\ made' \in Counts /\ made.ino \in Nat /\ made'.ino \in Nat
  BY CountsNext DEF IInv, TypeOK, Counts
<1>00. \A i \in Inos : i # 0
  BY DEF Inos
<1> DEFINE Goal == made.ino <= made'.ino /\ \A i \in Inos : Unused(i) /\ i # made'.ino => Untouched(i)
<1>1. ASSUME NEW n \in Names, Create(n)
      PROVE  Goal
  <2>1. made'.ino = made.ino + 1 /\ Made("ino") = made.ino + 1
    BY <1>1, <1>0, NextNumbers DEF Create, TypeOK, Counts
  <2>2. \A i \in Inos \ {made.ino + 1} : writer'[i] = writer[i] /\ node'[i] = node[i]
    BY <1>1, <1>0, <2>1 DEF Create, Attach, TypeOK
  <2>3. UNCHANGED <<inoOf, job>>
    BY <1>1 DEF Create
  <2> QED BY <1>0, <2>1, <2>2, <2>3 DEF Untouched
<1>2. ASSUME NEW n \in Names, Lookup(n)
      PROVE  Goal
  <2>1. UNCHANGED <<writer, job, made>>
    BY <1>2 DEF Lookup
  <2>2. CASE UNCHANGED <<node, inoOf>>
    BY <1>0, <2>1, <2>2 DEF Untouched
  <2>3. CASE pending[n] = 0 /\ Holder(n) # 0
    <3> PICK id, k : id = Holder(n) /\ k = InoForRemote(id)
      OBVIOUS
    <3>1. /\ inoOf' = [inoOf EXCEPT ![id] = k]
          /\ node' = [node EXCEPT ![k] = IF inoOf[id] # 0 THEN @ ELSE Remote(id)]
      BY <1>2, <2>3 DEF Lookup
    <3>2. id \in Ids
      BY <1>0, <2>3, HolderId DEF OptId
    <3>3. ~Unused(k)
      <4>1. CASE inoOf[id] # 0
        <5>1. k = inoOf[id] /\ k \in Inos
          BY <1>0, <3>2, <4>1 DEF InoForRemote, TypeOK, OptIno
        <5> QED BY <3>2, <5>1 DEF UnusedIsNowhere
      <4>2. CASE inoOf[id] = 0
        <5>1. k = MaxCreate + id /\ id > 0 /\ id \in Nat /\ MaxCreate \in Nat
          BY <3>2, <4>2, SessionAssumption DEF InoForRemote, HashedIno, Ids
        <5> QED BY <5>1 DEF Unused
      <4> QED BY <4>1, <4>2
    <3>4. \A i \in Inos \ {k} : node'[i] = node[i] /\ \A d \in Ids : inoOf'[d] \in {k, inoOf[d]}
      BY <1>0, <3>1 DEF TypeOK
    <3> QED BY <1>0, <2>1, <3>3, <3>4 DEF Untouched
  <2> QED BY <1>2, <2>2, <2>3 DEF Lookup
<1>3. ASSUME NEW n \in Names, OpenShared(n)
      PROVE  Goal
  <2>1. UNCHANGED <<node, inoOf, job>> /\ made'.ino = made.ino /\ dentry[n] \in Inos
        /\ writer[dentry[n]].file # 0
    BY <1>3, <1>0 DEF OpenShared, TypeOK, Counts, inodes, OptIno
  <2>2. \A i \in Inos \ {dentry[n]} : writer'[i] = writer[i]
    BY <1>3, <1>0 DEF OpenShared, Attach, TypeOK
  <2> QED BY <1>0, <2>1, <2>2 DEF Untouched, UnusedIsNowhere
<1>4. ASSUME NEW w \in Workers, AttachLoaded(w)
      PROVE  Goal
  <2>1. UNCHANGED <<node, inoOf>> /\ made'.ino = made.ino /\ job[w].ino \in Inos /\ End(w)
    BY <1>4, <1>0, JobIds DEF AttachLoaded, TypeOK, Counts, inodes, Doing
  <2>2. \A i \in Inos \ {job[w].ino} : writer'[i] = writer[i]
    BY <1>4, <1>0 DEF AttachLoaded, Attach, TypeOK
  <2>3. InosKept
    BY <1>0, <2>1, InosStay
  <2> QED BY <1>0, <1>00, <2>1, <2>2, <2>3 DEF Untouched, UnusedIsNowhere, InosKept
<1>5. ASSUME NEW fh \in Fhs, CloseHandle(fh), UNCHANGED <<node, inoOf, made>>, InosKept
      PROVE  Goal
  <2>1. \A i \in Inos : writer'[i].file \in {0, writer[i].file}
    BY <1>5, <1>0 DEF CloseHandle, TypeOK, NoWriter
  <2> QED BY <1>0, <1>00, <1>5, <2>1 DEF Untouched, InosKept
<1>6. ASSUME UNCHANGED <<node, inoOf, writer>>, made'.ino = made.ino, InosKept
      PROVE  Goal
  BY <1>0, <1>00, <1>6 DEF Untouched, InosKept
<1>7. ASSUME NEW fh \in Fhs, ReleaseClean(fh)
      PROVE  Goal
  BY <1>0, <1>5, <1>7, InosStay DEF ReleaseClean, inodes
<1>8. ASSUME NEW w \in Workers, CloseReleased(w)
      PROVE  Goal
  BY <1>0, <1>5, <1>8, InosStay, SaveFh DEF CloseReleased, Saving, inodes
<1>9. ASSUME NEW n \in Names, UnlinkPending(n)
      PROVE  Goal
  <2>1. UNCHANGED <<inoOf, writer, made, job>>
        /\ \A i \in Inos : node'[i] \in {NoNode, node[i]}
    BY <1>0, <1>9 DEF UnlinkPending, TypeOK
  <2> QED BY <1>0, <2>1 DEF Untouched, NoNode
<1>10. ASSUME NEW w \in Workers, NEW k \in Inos, NEW old, NEW new, Repoint(k, old, new), InosKept,
              UNCHANGED <<writer, made>>, ~Unused(k)
      PROVE  Goal
  BY <1>0, <1>10, RepointUntouched
<1>11. ASSUME NEW w \in Workers, RepointSaved(w)
      PROVE  Goal
  <2>1. job[w].ino \in Inos /\ ~Unused(job[w].ino)
    BY <1>11, JobIds DEF RepointSaved, UnusedIsNowhere
  <2>2. InosKept
    BY <1>0, <1>11, InosStay DEF RepointSaved, Saved
  <2> QED BY <1>10, <1>11, <2>1, <2>2 DEF RepointSaved
<1>12. ASSUME NEW w \in Workers, RepointCut(w)
      PROVE  Goal
  <2>1. job[w].ino \in Inos /\ ~Unused(job[w].ino)
    BY <1>12, JobIds DEF RepointCut, Doing, UnusedIsNowhere
  <2>2. InosKept
    BY <1>0, <1>12, InosStay DEF RepointCut
  <2> QED BY <1>10, <1>12, <2>1, <2>2 DEF RepointCut
<1>13. ASSUME NEW w \in Workers, RepointRenamed(w)
      PROVE  Goal
  <2>1. job[w].id \in Ids /\ UNCHANGED <<writer, made>> /\ InosKept
    BY <1>0, <1>13, JobIds, InosStay DEF RepointRenamed, Doing
  <2>2. CASE inoOf[job[w].id] = 0
    <3>1. UNCHANGED <<node, inoOf>>
      BY <1>13, <2>2 DEF RepointRenamed, inodes
    <3> QED BY <1>0, <1>6, <2>1, <3>1
  <2>3. CASE inoOf[job[w].id] # 0
    <3>1. inoOf[job[w].id] \in Inos /\ ~Unused(inoOf[job[w].id])
      BY <1>0, <2>1, <2>3 DEF TypeOK, OptIno, UnusedIsNowhere
    <3>2. Repoint(inoOf[job[w].id], job[w].id, job[w].new)
      BY <1>13, <2>3 DEF RepointRenamed
    <3> QED BY <1>10, <2>1, <3>1, <3>2
  <2> QED BY <2>2, <2>3
<1>14. ASSUME NEW n \in Names, NEW w \in Workers, OpenRemote(n, w) \/ TruncateRemote(n, w)
      PROVE  Goal
  <2>1. /\ UNCHANGED <<node, inoOf, writer, made>> /\ dentry[n] \in Inos
        /\ node[dentry[n]].kind = "remote"
    BY <1>0, <1>14 DEF OpenRemote, TruncateRemote, inodes, TypeOK, OptIno
  <2>2. \A v \in Workers : job'[v].ino \in {job[v].ino, dentry[n]}
    <3>1. \A id :
            /\ [NoJob EXCEPT !.kind = "open", !.pc = "attach", !.ino = dentry[n],
                             !.id = id].ino = dentry[n]
            /\ [NoJob EXCEPT !.kind = "truncate", !.pc = "upload", !.ino = dentry[n],
                             !.id = id].ino = dentry[n]
      BY DEF NoJob
    <3>2. PICK j : Start(w, j) /\ j.ino = dentry[n]
      BY <1>14, <3>1 DEF OpenRemote, TruncateRemote
    <3> QED BY <1>0, <3>2 DEF Start, TypeOK
  <2> QED BY <1>0, <2>1, <2>2 DEF Untouched, UnusedIsNowhere
<1>15. ASSUME NEW n \in Names, NEW w \in Workers, UnlinkRemote(n, w)
      PROVE  Goal
  <2>1. \A id : [NoJob EXCEPT !.kind = "unlink", !.pc = "delete", !.id = id, !.name = n].ino = 0
    BY DEF NoJob
  <2>2. InosKept
    BY <1>0, <1>15, <2>1, InosStay DEF UnlinkRemote
  <2> QED BY <1>6, <1>15, <2>2 DEF UnlinkRemote, inodes
<1>16. ASSUME NEW n \in Names, NEW to \in Names, NEW w \in Workers, Rename(n, to, w)
      PROVE  Goal
  <2>1. \A id, v, victim :
          [NoJob EXCEPT !.kind = "rename", !.pc = "upload", !.id = id,
                        !.name = to, !.ver = v, !.victim = victim].ino = 0
    BY DEF NoJob
  <2>2. InosKept
    BY <1>0, <1>16, <2>1, InosStay DEF Rename
  <2> QED BY <1>6, <1>16, <2>2 DEF Rename, inodes
<1>17. ASSUME NEW fh \in Fhs, NEW w \in Workers, Flush(fh, w) \/ ReleaseDirty(fh, w)
      PROVE  Goal
  <2>1. /\ [NoJob EXCEPT !.kind = "flush", !.pc = "lock", !.fh = fh].ino = 0
        /\ [NoJob EXCEPT !.kind = "release", !.pc = "lock", !.fh = fh].ino = 0
    BY DEF NoJob
  <2>2. InosKept
    BY <1>0, <1>17, <2>1, InosStay DEF Flush, ReleaseDirty
  <2> QED BY <1>6, <1>17, <2>2 DEF Flush, ReleaseDirty, inodes
<1>18. ASSUME NEW w \in Workers, BeginCommit(w)
      PROVE  Goal
  <2>1. UNCHANGED <<node, inoOf, writer, made>>
    BY <1>18 DEF BeginCommit, inodes
  <2>2. CASE Saved(w)
    BY <1>0, <1>6, <2>1, <2>2, InosStay DEF Saved
  <2>3. CASE ~Saved(w)
    <3> DEFINE f == writer[handle[job[w].fh]].file
    <3>1. job' = [job EXCEPT ![w] = Plan(w, f)]
      BY <1>18, <2>3 DEF BeginCommit
    <3>2. Plan(w, f).ino = handle[job[w].fh]
      <4> HIDE DEF f
      <4> QED BY <1>0 DEF Plan, TypeOK, Job
    <3>3. handle[job[w].fh] \in Inos /\ writer[handle[job[w].fh]].file # 0
      <4>1. 0 \notin Files
        BY DEF Files
      <4> QED BY <1>18, <4>1, SaveHandle DEF BeginCommit, Saving
    <3>4. \A v \in Workers : job'[v].ino \in {job[v].ino, handle[job[w].fh]}
      <4> HIDE DEF f
      <4> QED BY <1>0, <3>1, <3>2 DEF TypeOK
    <3> QED BY <1>0, <2>1, <3>3, <3>4 DEF Untouched, UnusedIsNowhere
  <2> QED BY <2>2, <2>3
<1>19. ASSUME NEW w \in Workers, Upload(w) \/ UploadCut(w) \/ UploadRenamed(w)
      PROVE  Goal
  <2>1. Landed(w)
    BY <1>19 DEF Upload, UploadCut, UploadRenamed, Landed
  <2>2. made'.ino = made.ino
    BY <1>0, <1>19 DEF Upload, UploadCut, UploadRenamed, TypeOK, Counts
  <2> QED BY <1>0, <1>6, <1>19, <2>1, <2>2, InosStay DEF Upload, UploadCut, UploadRenamed, inodes
<1>20. ASSUME NEW w \in Workers,
              UploadFails(w) \/ DropReplaced(w) \/ Settle(w) \/ JobFails(w) \/ DropOld(w) \/
              Delete(w) \/ KeepsVictim(w)
      PROVE  Goal
  <2>1. InosKept
    BY <1>0, <1>20, InosStay
    DEF UploadFails, DropReplaced, Settle, JobFails, DropOld, Delete, KeepsVictim
  <2> QED BY <1>6, <1>20, <2>1
      DEF UploadFails, DropReplaced, Settle, JobFails, DropOld, Delete, KeepsVictim, inodes
<1>21. ASSUME NEW w \in Workers, DiscardUnlinked(w) \/ DiscardVictim(w)
      PROVE  Goal
  <2>1. UNCHANGED <<node, writer, made>> /\ InosKept
    BY <1>0, <1>21, InosStay DEF DiscardUnlinked, DiscardVictim
  <2>2. \A id \in Ids : inoOf'[id] \in {0, inoOf[id]}
    BY <1>0, <1>21 DEF DiscardUnlinked, DiscardVictim, Unbind, TypeOK
  <2> QED BY <1>0, <1>00, <2>1, <2>2 DEF Untouched, InosKept
<1>22. ASSUME NEW n \in Names, Truncate(n) \/ AddedElsewhere(n)
      PROVE  Goal
  <2>1. UNCHANGED <<node, inoOf, writer, job>> /\ made'.ino = made.ino
    BY <1>0, <1>22 DEF Truncate, AddedElsewhere, inodes, TypeOK, Counts
  <2> QED BY <1>0, <1>6, <2>1, InosStay
<1>23. ASSUME NEW fh \in Fhs, Write(fh) \/ FlushClean(fh)
      PROVE  Goal
  <2>1. UNCHANGED <<node, inoOf, writer, job>> /\ made'.ino = made.ino
    BY <1>0, <1>23 DEF Write, FlushClean, inodes, TypeOK, Counts
  <2> QED BY <1>0, <1>6, <2>1, InosStay
<1>24. ASSUME SetLen \/ (\E id \in Ids : RemovedElsewhere(id)) \/ UNCHANGED vars
      PROVE  Goal
  <2>1. UNCHANGED <<node, inoOf, writer, job>> /\ made'.ino = made.ino
    BY <1>0, <1>24 DEF SetLen, RemovedElsewhere, vars, inodes, TypeOK, Counts
  <2> QED BY <1>0, <1>6, <2>1, InosStay
<1>25. Goal
  <2> HIDE DEF Goal
  <2> QED
    BY <1>1, <1>2, <1>3, <1>4, <1>7, <1>8, <1>9, <1>11, <1>12, <1>13, <1>14, <1>15, <1>16,
       <1>17, <1>18, <1>19, <1>20, <1>21, <1>22, <1>23, <1>24
    DEF Next, Request, JobStep, CommitStep, OtherStep
<1> QED BY <1>0, <1>25, UnusedStays
-----------------------------------------------------------------------------
(* The steps, one by one. *)

\* What a step keeps that leaves the caller of a truncate alone.
LEMMA CuttingStays ==
  ASSUME Cutting, UNCHANGED <<writer, handle>>, arc' = 0 \/ UNCHANGED <<arc, open>>
  PROVE  Cutting'
  BY DEF Cutting

\* Every step keeps the invariant.  A truncate of a path comes without a handle and is
\* left out.
LEMMA SavedNext ==
  ASSUME ~PathTruncate
  PROVE  IInv /\ UnusedIsNowhere /\ SavedInv /\ [Next]_vars => SavedInv'
<1> SUFFICES ASSUME IInv, UnusedIsNowhere, SavedInv, [Next]_vars
             PROVE  SavedInv'
  OBVIOUS
<1>0. /\ TypeOK /\ Room /\ TypeOK' /\ HandlesCounted' /\ Versions /\ Cutting
      /\ made.ver \in Nat /\ made'.ver \in Nat /\ made.file \in Nat
  BY TypeNext, CountedNext, NextNumbers DEF IInv, SavedInv, TypeOK, Counts
<1>00. /\ \A w \in Workers : job[w].ver <= made.ver /\ job[w].ver \in Nat
       /\ \A id \in Ids : rec[id].ver <= made.ver /\ rec[id].ver \in Nat
       /\ NoJob.ver = 0
  BY <1>0 DEF Versions, TypeOK, Job, NoJob
<1>1. ASSUME NEW n \in Names, Create(n)
      PROVE  SavedInv'
  <2>1. /\ Made("ino") \in Inos /\ Made("file") \in Files /\ Made("fh") \in Fhs
        /\ Made("ino") = made.ino + 1 /\ Made("file") = made.file + 1 /\ Made("ver") = made.ver + 1
    BY <1>1, <1>0, CreateIno, RoomToMake, NextNumbers DEF Create
  <2>2. made'.file = made.file + 1 /\ made'.ver = made.ver + 1
    BY <1>1, <1>0, <2>1 DEF Create, TypeOK, Counts
  <2>3. writer[Made("ino")].file = 0
    <3>1. Unused(Made("ino"))
      BY <1>1, <1>0, <2>1, SessionAssumption DEF Create, Unused, TypeOK, Counts
    <3> QED BY <2>1, <3>1 DEF UnusedIsNowhere
  <2>4. UNCHANGED <<rec, lock, arc, job, committed>>
    BY <1>1 DEF Create, vault
  <2>5. /\ gen'[Made("file")] = made.ver + 1
        /\ \A g \in Files \ {Made("file")} : target'[g] = target[g] /\ gen'[g] = gen[g]
    BY <1>1, <1>0, <2>1 DEF Create, TypeOK
  <2>6. committed[Made("file")] <= made'.ver
    <3>1. committed[Made("file")] <= made.ver /\ committed[Made("file")] \in Nat
      BY <1>0, <2>1 DEF Versions, TypeOK
    <3> QED BY <1>0, <2>2, <3>1
  <2>7. JobsAside
    BY <1>0, <2>2, <2>4, JobsStepAside
  <2>8. Attach(Made("ino"), Made("file"))
    BY <1>1 DEF Create
  <2>9. made.ver <= made'.ver /\ gen'[Made("file")] <= made'.ver
    BY <1>0, <2>2, <2>5
  <2> QED BY <1>0, <2>1, <2>2, <2>3, <2>4, <2>5, <2>6, <2>7, <2>8, <2>9, AttachKeeps
<1>2. ASSUME NEW n \in Names, OpenShared(n)
      PROVE  SavedInv'
  <2>1. /\ Attach(dentry[n], 0) /\ dentry[n] \in Inos /\ Made("fh") \in Fhs
        /\ writer[dentry[n]].file # 0 /\ UNCHANGED <<rec, lock, arc, job, buffers>>
    BY <1>2, <1>0, RoomToMake DEF OpenShared, TypeOK, OptIno, vault
  <2>2. made'.file = made.file /\ made'.ver = made.ver
    BY <1>2, <1>0 DEF OpenShared, TypeOK, Counts
  <2>3. JobsAside /\ made.ver <= made'.ver
    BY <1>0, <2>1, <2>2, JobsStepAside
  <2> QED BY <1>0, <2>1, <2>2, <2>3, AttachKeeps
<1>3. ASSUME NEW w \in Workers, AttachLoaded(w)
      PROVE  SavedInv'
  <2> PICK i, f, id : i = job[w].ino /\ f = Made("file") /\ id = job[w].id
    OBVIOUS
  <2>1. /\ Attach(i, f) /\ i \in Inos /\ id \in Ids /\ Made("fh") \in Fhs
        /\ f = made.file + 1 /\ f \in Files /\ End(w) /\ UNCHANGED <<rec, lock, arc>>
    BY <1>3, <1>0, JobIds, UploadWaits, RoomToMake, NextNumbers DEF AttachLoaded, Doing, vault
  <2>2. made'.ver = made.ver
    BY <1>3, <1>0 DEF AttachLoaded, TypeOK, Counts
  <2>3. JobsAside /\ made.ver <= made'.ver
    BY <1>0, <2>1, <2>2, JobsStepAside
  <2>4. CASE writer[i].file # 0
    <3>1. made'.file = made.file /\ UNCHANGED buffers
      BY <1>3, <1>0, <2>4 DEF AttachLoaded, TypeOK, Counts
    <3> QED BY <1>0, <2>1, <2>3, <2>4, <3>1, AttachKeeps
  <2>5. CASE writer[i].file = 0
    <3>1. /\ target' = [target EXCEPT ![f] = Existing(id)]
          /\ gen' = [gen EXCEPT ![f] = rec[id].ver]
          /\ committed' = [committed EXCEPT ![f] = rec[id].ver]
          /\ made'.file = f
      BY <1>3, <1>0, <2>1, <2>5 DEF AttachLoaded, TypeOK, Counts
    <3>2. /\ gen'[f] = rec[id].ver /\ committed'[f] = rec[id].ver
          /\ \A g \in Files \ {f} :
               target'[g] = target[g] /\ gen'[g] = gen[g] /\ committed'[g] = committed[g]
      BY <1>0, <2>1, <3>1 DEF TypeOK
    <3>3. rec[id].ver <= made'.ver
      BY <1>00, <2>1, <2>2
    <3> QED BY <1>0, <2>1, <2>3, <2>5, <3>1, <3>2, <3>3, AttachKeeps
  <2> QED BY <2>4, <2>5
<1>4. ASSUME NEW fh \in Fhs, Write(fh)
      PROVE  SavedInv'
  <2>1. /\ fh \in open /\ gen' = [gen EXCEPT ![writer[handle[fh]].file] = Made("ver")]
        /\ UNCHANGED <<rec, writer, handle, target, committed, lock, job, arc, open>>
    BY <1>4 DEF Write, vault
  <2>2. made'.ver = made.ver + 1 /\ made'.file = made.file
    BY <1>4, <1>0, NextNumbers DEF Write, TypeOK, Counts
  <2>3. Cutting'
    BY <1>0, <2>1, CuttingStays
  <2> QED BY <1>0, <2>1, <2>2, <2>3, ChangeKeeps
<1>5. ASSUME SetLen
      PROVE  SavedInv'
  <2>1. PICK fh \in open : writer[handle[fh]].file = arc
    BY <1>5, <1>0 DEF SetLen, Cutting
  <2>2. /\ gen' = [gen EXCEPT ![writer[handle[fh]].file] = Made("ver")] /\ arc' = 0
        /\ UNCHANGED <<rec, writer, handle, target, committed, lock, job>>
    BY <1>5, <2>1 DEF SetLen, vault
  <2>3. made'.ver = made.ver + 1 /\ made'.file = made.file
    BY <1>5, <1>0, NextNumbers DEF SetLen, TypeOK, Counts
  <2>4. Cutting'
    BY <1>0, <2>2, CuttingStays
  <2> QED BY <1>0, <2>2, <2>3, <2>4, ChangeKeeps
<1>6. ASSUME NEW fh \in Fhs, ReleaseClean(fh)
      PROVE  SavedInv'
  <2>1. /\ fh \in open /\ arc = 0 /\ ~InJob(fh, {"flush"}) /\ ~Dirty(writer[handle[fh]].file)
        /\ CloseHandle(fh) /\ open' = open \ {fh} /\ UNCHANGED <<rec, buffers, lock, job, arc, made>>
    BY <1>6 DEF ReleaseClean, Releasable, Session, vault
  <2>2. handle[fh] # 0
    BY <2>1 DEF IInv, Known
  <2>3. \A v \in Workers : Middle(job[v]) => job[v].fh # fh
    BY <2>1, MiddleJob DEF InJob, Middle
  <2>4. JobsAside
    BY <1>0, <2>1, JobsStepAside
  <2> QED BY <1>0, <2>1, <2>2, <2>3, <2>4, CloseKeeps
<1>7. ASSUME NEW w \in Workers, CloseReleased(w)
      PROVE  SavedInv'
  <2> PICK fh : fh = job[w].fh
    OBVIOUS
  <2>1. /\ Commits(w) /\ job[w].pc = "close" /\ CloseHandle(fh) /\ End(w)
        /\ UNCHANGED <<rec, buffers, lock, arc, made, open>>
    BY <1>7 DEF CloseReleased, Saving, vault, kernel
  <2>2. job[w].kind = "release"
    <3>1. JobShape(w)
      BY DEF IInv
    <3> QED BY <2>1, <3>1 DEF JobShape, SaveJob, Commits, NoJob
  <2>3. fh \in Fhs /\ handle[fh] # 0 /\ fh \notin open
    BY <2>1, <2>2, SaveFh
  <2>4. Closing(fh)
    BY <2>1, <2>2 DEF Closing, Doing
  <2>5. ASSUME NEW v \in Workers, Middle(job[v]), job[v].fh = fh PROVE FALSE
    <3>1. v # w
      BY <2>1, <2>5 DEF Middle
    <3>2. job[v].kind = "release"
      BY <2>3, <2>5, MiddleJob DEF Middle
    <3> QED BY <2>2, <2>5, <3>1, <3>2 DEF IInv, OneRelease
  <2>6. JobsAside
    BY <1>0, <2>1, JobsStepAside
  <2> QED BY <1>0, <2>1, <2>3, <2>4, <2>5, <2>6, CloseKeeps
<1>8. ASSUME NEW w \in Workers, Settle(w)
      PROVE  SavedInv'
  BY <1>0, <1>8, SettleKeeps
<1>9. ASSUME NEW w \in Workers, BeginCommit(w)
      PROVE  SavedInv'
  <2> PICK fh, f : fh = job[w].fh /\ f = writer[handle[job[w].fh]].file
    OBVIOUS
  <2>1. /\ Commits(w) /\ job[w].pc = "lock" /\ f \in Files /\ lock[f] = 0
        /\ UNCHANGED <<rec, writer, handle, target, gen, arc, open, made>>
    BY <1>9, SaveHandle DEF BeginCommit, Saving, vault, kernel
  <2>2. ASSUME NEW v \in Workers, Middle(job[v]) PROVE job[v].file # f
    <3>1. lock[job[v].file] = v
      BY <2>2 DEF SavedInv, SaveInv, Holds
    <3> QED BY <2>1, <3>1, SessionAssumption
  <2>3. ASSUME Saved(w), ~Dirty(f) \/ target[f].kind = "discarded", UNCHANGED lock,
               \A g \in Files \ {f} : committed'[g] = committed[g],
               committed'[f] = committed[f] \/ committed'[f] = gen[f]
        PROVE  SavedInv'
    <3>1. /\ \A v \in Workers \ {w} : job'[v] = job[v]
          /\ ~Middle(job'[w]) /\ job'[w].ver <= made.ver
          /\ Doing(w, "release", "close")' => job'[w].fh = job[w].fh
      <4>1. CASE job[w].kind = "release"
        <5>1. /\ job'[w] = [job[w] EXCEPT !.pc = "close"] /\ job[w] \in Job
              /\ \A v \in Workers \ {w} : job'[v] = job[v]
          BY <1>0, <2>3, <4>1 DEF Saved, GoTo, TypeOK
        <5>2. job'[w].pc = "close" /\ job'[w].ver = job[w].ver /\ job'[w].fh = job[w].fh
          BY <5>1 DEF Job
        <5> QED BY <1>00, <5>1, <5>2 DEF Middle
      <4>2. CASE job[w].kind # "release"
        <5>1. job'[w] = NoJob /\ \A v \in Workers \ {w} : job'[v] = job[v]
          BY <1>0, <2>3, <4>2 DEF Saved, End, TypeOK
        <5>2. ~Middle(NoJob) /\ NoJob.kind # "release" /\ NoJob.ver = 0
          BY DEF Middle, NoJob
        <5> QED BY <1>0, <5>1, <5>2 DEF Doing
      <4> QED BY <4>1, <4>2
    <3>2. \A g \in Files \ {f} : lock'[g] = lock[g]
      BY <2>3
    <3> QED BY <1>0, <2>1, <2>2, <2>3, <3>1, <3>2, CommitEnds
  <2>4. CASE ~Dirty(f)
    <3>1. Saved(w) /\ UNCHANGED <<committed, lock>>
      BY <1>9, <2>4 DEF BeginCommit
    <3> QED BY <2>3, <2>4, <3>1
  <2>5. CASE Dirty(f) /\ target[f].kind = "discarded"
    <3>1. Saved(w) /\ UNCHANGED lock /\ committed' = [committed EXCEPT ![f] = gen[f]]
      BY <1>9, <2>5 DEF BeginCommit
    <3>2. committed'[f] = gen[f] /\ \A g \in Files \ {f} : committed'[g] = committed[g]
      BY <1>0, <2>1, <3>1 DEF TypeOK
    <3> QED BY <2>3, <2>5, <3>1, <3>2
  <2>6. CASE Dirty(f) /\ target[f].kind # "discarded"
    <3>1. /\ job' = [job EXCEPT ![w] = Plan(w, f)] /\ lock' = [lock EXCEPT ![f] = w]
          /\ UNCHANGED committed
      BY <1>9, <2>6 DEF BeginCommit
    <3>2. job'[w] = Plan(w, f) /\ \A v \in Workers \ {w} : job'[v] = job[v]
      BY <1>0, <3>1 DEF TypeOK
    <3>3. /\ Plan(w, f).kind = job[w].kind /\ Plan(w, f).fh = job[w].fh
          /\ Plan(w, f).ino = handle[job[w].fh] /\ Plan(w, f).file = f
          /\ Plan(w, f).ver = gen[f] /\ Plan(w, f).pc \in {"create", "upload"}
      BY <1>0 DEF Plan, TypeOK, Job
    <3> QED BY <1>0, <2>1, <2>6, <3>1, <3>2, <3>3, CommitBegins
  <2> QED BY <2>4, <2>5, <2>6
<1>10. ASSUME NEW w \in Workers, UploadFails(w)
      PROVE  SavedInv'
  <2> PICK f : f = job[w].file
    OBVIOUS
  <2>1. /\ Commits(w) /\ Middle(job[w]) /\ End(w) /\ lock' = [lock EXCEPT ![f] = 0]
        /\ UNCHANGED <<rec, writer, handle, target, gen, committed, arc, open, made>>
    BY <1>10 DEF UploadFails, Commits, Middle, vault, buffers, kernel
  <2>2. f \in Files /\ writer[handle[job[w].fh]].file = f
    BY <2>1, MiddleJob DEF SavedInv, SaveInv, Holds
  <2>3. \A v \in Workers \ {w} : job'[v] = job[v] /\ (Middle(job[v]) => job[v].file # f)
    <3>1. \A v \in Workers \ {w} : job'[v] = job[v]
      BY <1>0, <2>1 DEF End, TypeOK
    <3> QED BY <2>1, <3>1, LockHolder
  <2>4. ~Middle(job'[w]) /\ job'[w].ver <= made.ver /\ ~Doing(w, "release", "close")'
    <3>1. job'[w] = NoJob
      BY <1>0, <2>1 DEF End, TypeOK
    <3>2. ~Middle(NoJob) /\ NoJob.kind # "release" /\ NoJob.ver = 0
      BY DEF Middle, NoJob
    <3> QED BY <1>0, <3>1, <3>2 DEF Doing
  <2>5. \A g \in Files \ {f} : lock'[g] = lock[g]
    BY <1>0, <2>1 DEF TypeOK
  <2> QED BY <1>0, <2>1, <2>2, <2>3, <2>4, <2>5, CommitEnds
<1>11. ASSUME NEW w \in Workers, RepointSaved(w)
      PROVE  SavedInv'
  <2> PICK f : f = job[w].file
    OBVIOUS
  <2>1. /\ Commits(w) /\ Middle(job[w]) /\ job[w].pc = "repoint" /\ Saved(w)
        /\ lock' = [lock EXCEPT ![f] = 0]
        /\ UNCHANGED <<rec, writer, handle, target, gen, committed, arc, open, made>>
    BY <1>11 DEF RepointSaved, Saving, Commits, Middle, vault, buffers, kernel
  <2>2. f \in Files /\ writer[handle[job[w].fh]].file = f /\ Holds(w, job[w])
    BY <2>1, MiddleJob DEF SavedInv, SaveInv, Holds
  <2>3. \A v \in Workers \ {w} : job'[v] = job[v]
    BY <1>0, <2>1 DEF Saved, End, GoTo, TypeOK
  <2>4. \A v \in Workers \ {w} : Middle(job[v]) => job[v].file # f
    BY <2>1, LockHolder
  <2>5. /\ ~Middle(job'[w]) /\ job'[w].ver <= made.ver
        /\ Doing(w, "release", "close")' =>
             /\ job'[w].fh = job[w].fh
             /\ Dirty(f) => Kept(handle[job[w].fh], {job[w].fh})
    <3>1. CASE job[w].kind = "release"
      <4>1. job'[w] = [job[w] EXCEPT !.pc = "close"] /\ job[w] \in Job
        BY <1>0, <2>1, <3>1 DEF Saved, GoTo, TypeOK
      <4>2. job'[w].pc = "close" /\ job'[w].ver = job[w].ver /\ job'[w].fh = job[w].fh
        BY <4>1 DEF Job
      <4>3. Dirty(f) => Kept(handle[job[w].fh], {job[w].fh})
        <5>1. handle[job[w].fh] = job[w].ino /\ committed[f] = job[w].ver
          BY <2>1, <2>2 DEF Holds
        <5>2. gen[f] # job[w].ver => Kept(job[w].ino, {job[w].fh})
          BY <2>2, <3>1 DEF Holds
        <5> QED BY <5>1, <5>2 DEF Dirty
      <4> QED BY <1>00, <4>2, <4>3 DEF Middle
    <3>2. CASE job[w].kind # "release"
      <4>1. job'[w] = NoJob
        BY <1>0, <2>1, <3>2 DEF Saved, End, TypeOK
      <4>2. ~Middle(NoJob) /\ NoJob.kind # "release" /\ NoJob.ver = 0
        BY DEF Middle, NoJob
      <4> QED BY <1>0, <4>1, <4>2 DEF Doing
    <3> QED BY <3>1, <3>2
  <2>6. \A g \in Files \ {f} : lock'[g] = lock[g]
    BY <1>0, <2>1 DEF TypeOK
  <2> QED BY <1>0, <2>1, <2>2, <2>3, <2>4, <2>5, <2>6, CommitEnds
<1>12. ASSUME UNCHANGED <<writer, handle, gen, committed, lock>>, Cutting', JobsAside,
              made'.file = made.file, made.ver <= made'.ver,
              \A f \in Files : target[f].kind = "discarded" => target'[f].kind = "discarded",
              \A id \in Ids : rec'[id].ver <= made'.ver
      PROVE  SavedInv'
  BY <1>0, <1>12, AsideKeeps DEF Aside
<1>13. ASSUME UNCHANGED <<rec, writer, handle, target, gen, committed, lock, made>>,
              arc' = 0 \/ UNCHANGED <<arc, open>>, JobsAside
      PROVE  SavedInv'
  BY <1>0, <1>00, <1>12, <1>13, CuttingStays
<1>14. ASSUME NEW n \in Names, Lookup(n)
      PROVE  SavedInv'
  BY <1>0, <1>13, <1>14, JobsStepAside DEF Lookup, vault, buffers
<1>15. ASSUME NEW n \in Names, Truncate(n)
      PROVE  SavedInv'
  <2>1. UNCHANGED <<rec, writer, handle, target, gen, committed, lock, made, job, open>>
    BY <1>15 DEF Truncate, vault, buffers, kernel
  <2>2. JobsAside
    BY <1>0, <2>1, JobsStepAside
  <2>3. Cutting'
    BY <1>15, <2>1 DEF Truncate, Cutting
  <2> QED BY <1>0, <1>00, <1>12, <2>1, <2>2, <2>3
<1>16. ASSUME NEW n \in Names, UnlinkPending(n)
      PROVE  SavedInv'
  <2>1. UNCHANGED <<rec, writer, handle, gen, committed, lock, made, job, open, arc>>
    BY <1>16 DEF UnlinkPending, vault
  <2>2. JobsAside /\ Cutting'
    BY <1>0, <2>1, JobsStepAside, CuttingStays
  <2>3. \A f \in Files : target[f].kind = "discarded" => target'[f].kind = "discarded"
    BY <1>0, <1>16 DEF UnlinkPending, DiscardBuffer, Discarded, TypeOK
  <2> QED BY <1>0, <1>00, <1>12, <2>1, <2>2, <2>3
<1>17. ASSUME NEW n \in Names, AddedElsewhere(n)
      PROVE  SavedInv'
  <2>1. UNCHANGED <<writer, handle, target, gen, committed, lock, job, open, arc>>
    BY <1>17 DEF AddedElsewhere, buffers
  <2>2. made'.ver = made.ver + 1 /\ made'.file = made.file
    BY <1>17, <1>0, NextNumbers DEF AddedElsewhere, TypeOK, Counts
  <2>3. JobsAside /\ Cutting'
    BY <1>0, <2>1, <2>2, JobsStepAside, CuttingStays
  <2>4. \A id \in Ids : rec'[id].ver <= made'.ver
    <3>1. Made("ver") = made.ver + 1
      BY <1>0, NextNumbers
    <3> QED BY <1>17, <1>0, <1>00, <2>2, <3>1 DEF AddedElsewhere, Ingest, TypeOK
  <2> QED BY <1>0, <1>12, <2>1, <2>2, <2>3, <2>4
<1>18. ASSUME NEW n \in Names, NEW w \in Workers,
              OpenRemote(n, w) \/ TruncateRemote(n, w) \/ UnlinkRemote(n, w)
      PROVE  SavedInv'
  <2>1. UNCHANGED <<rec, writer, handle, target, gen, committed, lock, made, arc, open>>
    BY <1>18 DEF OpenRemote, TruncateRemote, UnlinkRemote, vault, buffers, kernel
  <2>2. PICK j : Start(w, j) /\ j.ver = 0 /\ j.kind \notin {"flush", "release"} /\ j.pc # "close"
    <3> DEFINE o(i, id) == [NoJob EXCEPT !.kind = "open", !.pc = "attach", !.ino = i, !.id = id]
               t(i, id) == [NoJob EXCEPT !.kind = "truncate", !.pc = "upload", !.ino = i, !.id = id]
               u(id) == [NoJob EXCEPT !.kind = "unlink", !.pc = "delete", !.id = id, !.name = n]
    <3>1. \A i, id : /\ o(i, id).ver = 0 /\ o(i, id).kind = "open" /\ o(i, id).pc = "attach"
                     /\ t(i, id).ver = 0 /\ t(i, id).kind = "truncate" /\ t(i, id).pc = "upload"
                     /\ u(id).ver = 0 /\ u(id).kind = "unlink" /\ u(id).pc = "delete"
      BY DEF NoJob
    <3>2. \/ Start(w, o(dentry[n], node[dentry[n]].id)) \/ Start(w, t(dentry[n], node[dentry[n]].id))
          \/ Start(w, u(Holder(n)))
      BY <1>18 DEF OpenRemote, TruncateRemote, UnlinkRemote
    <3> HIDE DEF o, t, u
    <3> QED BY <3>1, <3>2
  <2>3. JobsAside
    BY <1>0, <2>1, <2>2, JobsStepAside DEF Middle
  <2> QED BY <1>13, <2>1, <2>3
<1>19. ASSUME NEW n \in Names, NEW to \in Names, NEW w \in Workers, Rename(n, to, w)
      PROVE  SavedInv'
  <2> PICK old, victim, v : old = Holder(n) /\ victim = Holder(to) /\ v = rec[old].ver
    OBVIOUS
  <2>1. UNCHANGED <<rec, writer, handle, target, gen, committed, lock, made, arc, open>>
    BY <1>19 DEF Rename, vault, buffers
  <2>2. PICK j : Start(w, j) /\ j.ver = v /\ j.kind = "rename" /\ j.pc = "upload"
    <3> DEFINE j == [NoJob EXCEPT !.kind = "rename", !.pc = "upload", !.id = old, !.name = to,
                                  !.ver = v, !.victim = victim]
    <3>1. j.ver = v /\ j.kind = "rename" /\ j.pc = "upload"
      BY DEF NoJob
    <3>2. Start(w, j)
      BY <1>19 DEF Rename
    <3> HIDE DEF j
    <3> QED BY <3>1, <3>2
  <2>3. v <= made'.ver
    <3>1. old \in Ids
      BY <1>0, <1>19, HolderId DEF Rename, OptId
    <3> QED BY <1>00, <2>1, <3>1
  <2>4. JobsAside
    BY <1>0, <2>1, <2>2, <2>3, JobsStepAside DEF Middle
  <2> QED BY <1>13, <2>1, <2>4
<1>20. ASSUME NEW fh \in Fhs, FlushClean(fh)
      PROVE  SavedInv'
  BY <1>0, <1>13, <1>20, JobsStepAside DEF FlushClean, vault, buffers
<1>21. ASSUME NEW fh \in Fhs, NEW w \in Workers, Flush(fh, w) \/ ReleaseDirty(fh, w)
      PROVE  SavedInv'
  <2>1. /\ UNCHANGED <<rec, writer, handle, target, gen, committed, lock, made>>
        /\ arc' = 0
    BY <1>21 DEF Flush, ReleaseDirty, Releasable, Session, vault, buffers
  <2>2. PICK j : Start(w, j) /\ j.ver = 0 /\ j.pc = "lock"
    <3> DEFINE o(k) == [NoJob EXCEPT !.kind = k, !.pc = "lock", !.fh = fh]
    <3>1. \A k : o(k).ver = 0 /\ o(k).pc = "lock"
      BY DEF NoJob
    <3>2. Start(w, o("flush")) \/ Start(w, o("release"))
      BY <1>21 DEF Flush, ReleaseDirty
    <3> HIDE DEF o
    <3> QED BY <3>1, <3>2
  <2>3. JobsAside
    BY <1>0, <2>1, <2>2, JobsStepAside DEF Middle
  <2> QED BY <1>13, <2>1, <2>3
<1>22. ASSUME NEW id \in Ids, RemovedElsewhere(id)
      PROVE  SavedInv'
  BY <1>0, <1>13, <1>22, JobsStepAside DEF RemovedElsewhere, Hide, buffers, kernel
<1>23. ASSUME NEW w \in Workers, Landed(w), Commits(w) => Unsettled(job[w]), NEW n, NEW v \in Nat,
              Ingest(n, v), v <= made'.ver, made'.file = made.file, made.ver <= made'.ver,
              UNCHANGED <<writer, handle, target, gen, committed, lock, arc, open>>
      PROVE  SavedInv'
  <2>1. JobsAside /\ Cutting'
    BY <1>0, <1>23, JobsStepAside, CuttingStays
  <2>2. \A id \in Ids : rec'[id].ver <= made'.ver
    BY <1>0, <1>00, <1>23 DEF Ingest, TypeOK
  <2> QED BY <1>12, <1>23, <2>1, <2>2
<1>24. ASSUME NEW w \in Workers, Upload(w) \/ UploadRenamed(w)
      PROVE  SavedInv'
  <2>1. /\ Landed(w) /\ Ingest(job[w].name, job[w].ver) /\ (Commits(w) => Unsettled(job[w]))
        /\ UNCHANGED <<writer, handle, target, gen, committed, lock, arc, open>>
    BY <1>24 DEF Upload, UploadRenamed, Landed, Doing, Commits, Unsettled, Middle, buffers, kernel
  <2>2. made'.ver = made.ver /\ made'.file = made.file
    BY <1>0, <1>24 DEF Upload, UploadRenamed, TypeOK, Counts
  <2> QED BY <1>0, <1>00, <1>23, <2>1, <2>2
<1>25. ASSUME NEW w \in Workers, UploadCut(w)
      PROVE  SavedInv'
  <2>1. /\ Landed(w) /\ Ingest(rec[job[w].id].name, made.ver + 1) /\ ~Commits(w)
        /\ UNCHANGED <<writer, handle, target, gen, committed, lock, arc, open>>
    BY <1>0, <1>25, NextNumbers DEF UploadCut, Landed, Doing, Commits, buffers, kernel
  <2>2. made'.ver = made.ver + 1 /\ made'.file = made.file
    BY <1>0, <1>25 DEF UploadCut, TypeOK, Counts
  <2> QED BY <1>0, <1>23, <2>1, <2>2
<1>26. ASSUME NEW w \in Workers, DropReplaced(w)
      PROVE  SavedInv'
  <2>1. /\ UNCHANGED <<rec, writer, handle, target, gen, committed, lock, made, arc, open>>
        /\ GoTo(w, "settle") /\ Unsettled(job[w])
    BY <1>26 DEF DropReplaced, Hide, Saving, Commits, Unsettled, Middle, buffers, kernel
  <2>2. JobsAside
    BY <1>0, <2>1, JobsStepAside
  <2> QED BY <1>13, <2>1, <2>2
<1>27. ASSUME NEW w \in Workers, JobFails(w) \/ RepointCut(w)
      PROVE  SavedInv'
  <2>1. /\ UNCHANGED <<rec, writer, handle, target, gen, committed, lock, made, arc, open>>
        /\ End(w)
    BY <1>27 DEF JobFails, RepointCut, vault, buffers, kernel
  <2>2. JobsAside
    BY <1>0, <2>1, JobsStepAside
  <2> QED BY <1>13, <2>1, <2>2
<1>28. ASSUME NEW w \in Workers, DropOld(w) \/ Delete(w) \/ KeepsVictim(w)
      PROVE  SavedInv'
  <2>1. /\ UNCHANGED <<rec, writer, handle, target, gen, committed, lock, made, arc, open>>
        /\ ~Commits(w) /\ \E p : GoTo(w, p)
    BY <1>28 DEF DropOld, Delete, KeepsVictim, Hide, Doing, Commits, vault, buffers, kernel
  <2>2. JobsAside
    BY <1>0, <2>1, JobsStepAside
  <2> QED BY <1>13, <2>1, <2>2
<1>29. ASSUME NEW w \in Workers, DiscardUnlinked(w) \/ DiscardVictim(w)
      PROVE  SavedInv'
  <2>1. /\ UNCHANGED <<rec, writer, handle, gen, committed, lock, made, arc, open>>
        /\ ~Commits(w) /\ (End(w) \/ GoTo(w, "repoint"))
    BY <1>29 DEF DiscardUnlinked, DiscardVictim, Doing, Commits, vault, kernel
  <2>2. JobsAside /\ Cutting'
    BY <1>0, <2>1, JobsStepAside, CuttingStays
  <2>3. \A f \in Files : target[f].kind = "discarded" => target'[f].kind = "discarded"
    BY <1>0, <1>29 DEF DiscardUnlinked, DiscardVictim, Unbind, DiscardBuffer, Discarded, TypeOK
  <2> QED BY <1>0, <1>00, <1>12, <2>1, <2>2, <2>3
<1>30. ASSUME NEW w \in Workers, RepointRenamed(w)
      PROVE  SavedInv'
  <2>1. UNCHANGED <<rec, writer, handle, gen, committed, lock, made, arc, open>> /\ End(w)
    BY <1>30 DEF RepointRenamed, vault
  <2>2. JobsAside /\ Cutting'
    BY <1>0, <2>1, JobsStepAside, CuttingStays
  <2>3. \A f \in Files : target[f].kind = "discarded" => target'[f].kind = "discarded"
    <3>1. \/ UNCHANGED target
          \/ Retarget(writer[inoOf[job[w].id]].file, job[w].id, job[w].new)
      BY <1>30 DEF RepointRenamed
    <3> QED BY <1>0, <3>1 DEF Retarget, TypeOK
  <2> QED BY <1>0, <1>00, <1>12, <2>1, <2>2, <2>3
<1>31. ASSUME UNCHANGED vars
      PROVE  SavedInv'
  BY <1>0, <1>13, <1>31, JobsStepAside DEF vars, vault, buffers, kernel
<1> QED
  BY <1>1, <1>2, <1>3, <1>4, <1>5, <1>6, <1>7, <1>8, <1>9, <1>10, <1>11, <1>14, <1>15, <1>16,
     <1>17, <1>18, <1>19, <1>20, <1>21, <1>22, <1>24, <1>25, <1>26, <1>27, <1>28, <1>29,
     <1>30, <1>31
  DEF Next, Request, JobStep, CommitStep, OtherStep

\* At the start there are no buffers, and nothing of anything.
LEMMA SavedInit == Init => UnusedIsNowhere /\ SavedInv
<1> SUFFICES ASSUME Init
             PROVE  UnusedIsNowhere /\ SavedInv
  OBVIOUS
<1>1. /\ \A w \in Workers : job[w] = NoJob
      /\ \A i \in Inos : writer[i] = NoWriter /\ node[i] = NoNode /\ i # 0
      /\ \A id \in Ids : inoOf[id] = 0 /\ rec[id].ver = 0
      /\ \A f \in Files : gen[f] = 0 /\ committed[f] = 0
      /\ arc = 0 /\ made.file = 0 /\ made.ver = 0
  BY DEF Init, Inos
<1>2. NoJob.ino = 0 /\ NoJob.ver = 0 /\ ~Middle(NoJob) /\ NoWriter.file = 0 /\ NoNode.kind = "none"
  BY DEF NoJob, Middle, NoWriter, NoNode
<1>3. UnusedIsNowhere
  BY <1>1, <1>2 DEF UnusedIsNowhere
<1>4. Owned /\ Versions /\ DirtyIsKept /\ Cutting
  BY <1>1, <1>2 DEF Owned, Versions, DirtyIsKept, Cutting
<1>5. NothingUnsavedIsDropped /\ \A w \in Workers : SaveInv(w)
  BY <1>1, <1>2 DEF NothingUnsavedIsDropped, SaveInv
<1> QED BY <1>3, <1>4, <1>5 DEF SavedInv

\* An acknowledged change is never lost with its buffer, whatever number of handles share
\* the buffer and whichever of their flushes, releases and failed uploads overlap: when
\* close_write_handle drops the buffer it was saved or its file was unlinked.  It takes
\* that a file is truncated through a handle: a truncate(2) of a path can cut a buffer
\* while its last release saves it.
THEOREM NothingIsLost ==
  ASSUME ~PathTruncate
  PROVE  Spec => []NothingUnsavedIsDropped
<1> DEFINE Inv == IInv /\ UnusedIsNowhere /\ SavedInv
<1>1. Init => Inv
  BY InitInv, SavedInit
<1>2. Inv /\ [Next]_vars => Inv'
  BY NextInv, UnusedNext, SavedNext
<1>3. Inv => NothingUnsavedIsDropped
  BY DEF SavedInv
<1> QED BY <1>1, <1>2, <1>3, PTL DEF Spec

-----------------------------------------------------------------------------
(***************************************************************************)
(* A name that exists only here leads to a buffer with a file to become.   *)
(***************************************************************************)

\* A save that has begun works on the buffer of its handle's inode.
AtPlace(j) == handle[j.fh] = j.ino /\ writer[j.ino].file = j.file
Placed     == \A w \in Workers : Middle(job[w]) => AtPlace(job[w])

\* No record is known to belong to an inode that is not saved yet.
Linked == \A id \in Ids : inoOf[id] # 0 => node[inoOf[id]].kind # "pending"

\* A buffer was not saved before it was made.
Blank == \A f \in Files : f > made.file => committed[f] = 0

\* The buffer of i was never saved, so that none of its handles closes; or it has been,
\* and the save is about to say so.
Repointing(i) == \E w \in Workers : Saving(w, "repoint") /\ job[w].ino = i
Unsaved(i)    ==
  LET f == writer[i].file IN
  /\ target[f].kind = "new" /\ committed[f] = 0 /\ gen[f] # 0
  /\ \A fh \in Fhs : Closing(fh) => handle[fh] # i

Buffered(i, n) ==
  /\ i \in 1 .. made.ino /\ node[i] = Pending(n) /\ writer[i].file # 0
  /\ \/ Unsaved(i)
     \/ Repointing(i) /\ target[writer[i].file].kind # "discarded"

PendingInv ==
  /\ Owned /\ Placed /\ Linked /\ Blank
  /\ \A n \in Names : pending[n] # 0 => Buffered(pending[n], n)

\* No save begins, and those that have begun go on with what they are about.
JobsOn ==
  \A v \in Workers : Middle(job'[v]) =>
    /\ Middle(job[v]) /\ job'[v].fh = job[v].fh /\ job'[v].ino = job[v].ino
    /\ job'[v].file = job[v].file

\* Nobody comes to close a handle of i, or is done with its repoint.
CalmAt(i) ==
  /\ \A fh \in Fhs : Closing(fh)' /\ handle'[fh] = i => Closing(fh) /\ handle[fh] = i
  /\ Repointing(i) => Repointing(i)'

JobsCalm ==
  /\ JobsOn
  /\ \A v \in Workers : job'[v].kind = "release" /\ job'[v].pc = "close" => job'[v] = job[v]
  /\ \A v \in Workers : Saving(v, "repoint") => job'[v] = job[v]

\* The moves of a job that are of this kind.
LEMMA JobsStepCalm ==
  ASSUME TypeOK
  PROVE  /\ UNCHANGED job => JobsCalm
         /\ \A w \in Workers : End(w) /\ ~Saving(w, "repoint") => JobsCalm
         /\ \A w \in Workers : \A p :
              GoTo(w, p) /\ (Commits(w) => p = "settle" /\ job[w].pc = "drop") => JobsCalm
         /\ \A w \in Workers :
              Landed(w) /\ (Commits(w) => job[w].pc \in {"create", "upload"}) => JobsCalm
         /\ \A w \in Workers : \A j : Start(w, j) /\ j.pc # "close" /\ ~Middle(j) => JobsCalm
<1>0. \A v \in Workers : job[v] \in Job
  BY DEF TypeOK
<1>1. UNCHANGED job => JobsCalm
  BY DEF JobsCalm, JobsOn
<1>2. ASSUME NEW w \in Workers, \A v \in Workers \ {w} : job'[v] = job[v], ~Saving(w, "repoint"),
             Middle(job'[w]) => /\ Middle(job[w]) /\ job'[w].fh = job[w].fh
                                /\ job'[w].ino = job[w].ino /\ job'[w].file = job[w].file,
             ~(job'[w].kind = "release" /\ job'[w].pc = "close")
      PROVE  JobsCalm
  BY <1>2 DEF JobsCalm, JobsOn
<1>3. ASSUME NEW w \in Workers, End(w), ~Saving(w, "repoint") PROVE JobsCalm
  <2>1. job'[w] = NoJob /\ \A v \in Workers \ {w} : job'[v] = job[v]
    BY <1>3 DEF End, TypeOK
  <2>2. ~Middle(NoJob) /\ NoJob.kind # "release"
    BY DEF NoJob, Middle
  <2> QED BY <1>2, <1>3, <2>1, <2>2
<1>4. ASSUME NEW w \in Workers, NEW p, GoTo(w, p), Commits(w) => p = "settle" /\ job[w].pc = "drop"
      PROVE  JobsCalm
  <2>1. job'[w] = [job[w] EXCEPT !.pc = p] /\ \A v \in Workers \ {w} : job'[v] = job[v]
    BY <1>4 DEF GoTo, TypeOK
  <2>2. /\ job'[w].kind = job[w].kind /\ job'[w].fh = job[w].fh /\ job'[w].ino = job[w].ino
        /\ job'[w].file = job[w].file /\ job'[w].pc = p
    BY <1>0, <2>1 DEF Job
  <2> QED BY <1>2, <1>4, <2>1, <2>2 DEF Middle, Commits, Saving
<1>5. ASSUME NEW w \in Workers, Landed(w), Commits(w) => job[w].pc \in {"create", "upload"}
      PROVE  JobsCalm
  <2>1. /\ job'[w] = [job[w] EXCEPT !.new = Made("id"), !.pc = "drop"]
        /\ \A v \in Workers \ {w} : job'[v] = job[v]
    BY <1>5 DEF Landed, TypeOK
  <2>2. /\ job'[w].kind = job[w].kind /\ job'[w].fh = job[w].fh /\ job'[w].ino = job[w].ino
        /\ job'[w].file = job[w].file /\ job'[w].pc = "drop"
    BY <1>0, <2>1 DEF Job
  <2> QED BY <1>2, <1>5, <2>1, <2>2 DEF Middle, Commits, Saving
<1>6. ASSUME NEW w \in Workers, NEW j, Start(w, j), j.pc # "close", ~Middle(j) PROVE JobsCalm
  <2>1. job[w] = NoJob /\ job'[w] = j /\ \A v \in Workers \ {w} : job'[v] = job[v]
    BY <1>6 DEF Start, TypeOK
  <2>2. ~Saving(w, "repoint")
    BY <2>1 DEF Saving, NoJob
  <2> QED BY <1>2, <1>6, <2>1, <2>2
<1> QED BY <1>1, <1>3, <1>4, <1>5, <1>6

\* They leave alone what the invariant says of an inode.
LEMMA CalmEverywhere ==
  ASSUME JobsCalm
  PROVE  /\ \A fh : Closing(fh)' => Closing(fh)
         /\ \A i : Repointing(i) => Repointing(i)'
         /\ UNCHANGED handle => \A i : CalmAt(i)
<1>1. \A fh : Closing(fh)' => Closing(fh)
  BY DEF JobsCalm, Closing, Doing
<1>2. \A i : Repointing(i) => Repointing(i)'
  BY DEF JobsCalm, Repointing, Saving, Commits
<1> QED BY <1>1, <1>2 DEF CalmAt

\* The buffer of an unsaved file stays what it is.
LEMMA BufferedStays ==
  ASSUME TypeOK, made'.ino \in Nat, made.ino <= made'.ino,
         NEW n \in Names, NEW i, Buffered(i, n), CalmAt(i),
         node'[i] = node[i], writer'[i].file = writer[i].file,
         target'[writer[i].file].kind = target[writer[i].file].kind,
         committed'[writer[i].file] = committed[writer[i].file],
         gen'[writer[i].file] \in {gen[writer[i].file]} \cup (Nat \ {0})
  PROVE  Buffered(i, n)'
<1>1. made.ino \in Nat
  BY DEF TypeOK, Counts
<1>2. i \in 1 .. made'.ino
  BY <1>1 DEF Buffered
<1>3. Unsaved(i) => Unsaved(i)'
  BY DEF Unsaved, CalmAt
<1>4. /\ node'[i] = Pending(n) /\ writer'[i].file # 0
      /\ \/ Unsaved(i)'
         \/ Repointing(i)' /\ target'[writer'[i].file].kind # "discarded"
  BY <1>3 DEF Buffered, CalmAt
<1> QED BY <1>2, <1>4 DEF Buffered, Pending

\* What an unsaved file's inode is.
LEMMA BufferedIno ==
  ASSUME TypeOK, PendingInv, NEW n \in Names, pending[n] # 0
  PROVE  /\ Buffered(pending[n], n)
         /\ pending[n] \in Inos /\ pending[n] <= MaxCreate /\ pending[n] <= made.ino
         /\ node[pending[n]] = Pending(n) /\ writer[pending[n]].file \in Files
<1>1. Buffered(pending[n], n)
  BY DEF PendingInv
<1>2. made.ino \in Nat /\ made.ino <= MaxCreate /\ MaxCreate \in Nat /\ MaxId \in Nat
  BY SessionAssumption DEF TypeOK, Counts
<1>3. pending[n] \in 1 .. made.ino
  BY <1>1 DEF Buffered
<1>4. pending[n] \in Inos
  BY <1>2, <1>3 DEF Inos
<1>5. writer[pending[n]].file \in Files
  BY <1>1, <1>4 DEF TypeOK, Buffered
<1> QED BY <1>1, <1>2, <1>3, <1>4, <1>5 DEF Buffered

\* Steps that leave the handles, and what was saved, as they are.
LEMMA CalmPending ==
  ASSUME TypeOK, PendingInv, JobsOn, Linked', UNCHANGED <<writer, handle, committed>>,
         made'.ino = made.ino, made'.file = made.file,
         \A f \in Files : gen'[f] \in {gen[f]} \cup (Nat \ {0}),
         \A n \in Names : pending'[n] # 0 =>
           LET i == pending[n] IN
           /\ pending'[n] = i /\ node'[i] = node[i] /\ CalmAt(i)
           /\ target'[writer[i].file].kind = target[writer[i].file].kind
  PROVE  PendingInv'
<1>1. Owned' /\ Blank'
  BY DEF PendingInv, Owned, Blank
<1>2. Placed'
  BY DEF PendingInv, Placed, AtPlace, JobsOn
<1>3. made.ino \in Nat /\ made.ino <= made'.ino
  BY DEF TypeOK, Counts
<1>4. ASSUME NEW n \in Names, pending'[n] # 0 PROVE Buffered(pending[n], n)' /\ pending'[n] = pending[n]
  <2>1. /\ pending'[n] = pending[n] /\ node'[pending[n]] = node[pending[n]] /\ CalmAt(pending[n])
        /\ target'[writer[pending[n]].file].kind = target[writer[pending[n]].file].kind
    BY <1>4
  <2>2. Buffered(pending[n], n) /\ writer[pending[n]].file \in Files
    BY <1>4, <2>1, BufferedIno
  <2>3. PICK i : i = pending[n]
    OBVIOUS
  <2>4. Buffered(i, n)'
    BY <1>3, <2>1, <2>2, <2>3, BufferedStays
  <2> QED BY <2>1, <2>3, <2>4
<1>5. (\A n \in Names : pending[n] # 0 => Buffered(pending[n], n))'
  <2> SUFFICES ASSUME NEW n \in Names, pending'[n] # 0 PROVE Buffered(pending[n], n)'
    OBVIOUS
  <2> QED BY <1>4
<1> QED BY <1>1, <1>2, <1>5 DEF PendingInv

\* Steps that have nothing to do with it.
LEMMA QuietPending ==
  ASSUME TypeOK, PendingInv, JobsCalm, UNCHANGED <<inodes, writer, handle, target, committed>>,
         made'.ino = made.ino, made'.file = made.file,
         \A f \in Files : gen'[f] \in {gen[f]} \cup (Nat \ {0})
  PROVE  PendingInv'
<1>1. Linked' /\ JobsOn /\ UNCHANGED <<inoOf, node, pending>>
  BY DEF PendingInv, Linked, inodes, JobsCalm
<1>2. \A i : CalmAt(i)
  BY CalmEverywhere
<1> QED BY <1>1, <1>2, CalmPending

\* Inodes that are not saved yet have their buffers for themselves.
LEMMA BuffersApart ==
  ASSUME TypeOK, PendingInv, NEW n \in Names, pending[n] # 0, NEW k \in Inos, k # pending[n]
  PROVE  writer[k].file # writer[pending[n]].file
<1>1. pending[n] \in Inos /\ writer[pending[n]].file \in Files
  BY BufferedIno
<1>2. 0 \notin Files
  BY DEF Files
<1> QED BY <1>1, <1>2 DEF PendingInv, Owned

\* repoint_ino_to, for whoever calls it.
LEMMA RepointPending ==
  ASSUME TypeOK, PendingInv, NEW k \in Inos, NEW old, NEW new, Repoint(k, old, new), JobsOn,
         UNCHANGED <<writer, handle, committed, gen, made>>,
         \A i \in Inos \ {k} : CalmAt(i),
         \A f \in Files : f # writer[k].file => target'[f] = target[f]
  PROVE  PendingInv'
<1>1. node'[k] = Remote(new) /\ \A i \in Inos \ {k} : node'[i] = node[i]
  BY DEF Repoint, TypeOK
<1>2. Linked'
  <2> SUFFICES ASSUME NEW id \in Ids, inoOf'[id] # 0 PROVE node'[inoOf'[id]].kind # "pending"
    BY DEF Linked
  <2>1. inoOf'[id] \in {k, inoOf[id]} /\ inoOf[id] \in Inos \cup {0}
    BY DEF Repoint, TypeOK, OptIno
  <2>2. CASE inoOf'[id] = k
    BY <1>1, <2>2 DEF Remote
  <2>3. CASE inoOf'[id] # k
    BY <1>1, <2>1, <2>3 DEF PendingInv, Linked
  <2> QED BY <2>2, <2>3
<1>3. ASSUME NEW n \in Names, pending'[n] # 0
      PROVE  /\ pending'[n] = pending[n] /\ node'[pending[n]] = node[pending[n]] /\ CalmAt(pending[n])
             /\ target'[writer[pending[n]].file].kind = target[writer[pending[n]].file].kind
  <2>1. pending'[n] = pending[n] /\ node[k] # Pending(n)
    BY <1>3 DEF Repoint
  <2>2. pending[n] \in Inos /\ writer[pending[n]].file \in Files /\ pending[n] # k
    BY <1>3, <2>1, BufferedIno
  <2>3. writer[k].file # writer[pending[n]].file
    BY <1>3, <2>1, <2>2, BuffersApart
  <2> QED BY <1>1, <2>1, <2>2, <2>3
<1>4. \A f \in Files : gen'[f] = gen[f]
  OBVIOUS
<1> QED BY <1>2, <1>3, <1>4, CalmPending

\* The inode of a deleted record loses the id, its buffer the target: it is saved.
LEMMA UnbindPending ==
  ASSUME TypeOK, PendingInv, NEW id \in Ids, Unbind(id), JobsCalm,
         UNCHANGED <<node, pending, writer, handle, committed, gen, made>>
  PROVE  PendingInv'
<1>1. \A d \in Ids : inoOf'[d] \in {0, inoOf[d]}
  BY DEF Unbind, TypeOK
<1>2. Linked'
  BY <1>1 DEF PendingInv, Linked
<1>3. ASSUME NEW n \in Names, pending'[n] # 0
      PROVE  target'[writer[pending[n]].file].kind = target[writer[pending[n]].file].kind
  <2>1. pending[n] # 0 /\ pending[n] \in Inos /\ writer[pending[n]].file \in Files
        /\ node[pending[n]].kind = "pending"
    <3>1. pending[n] # 0
      BY <1>3
    <3>2. node[pending[n]] = Pending(n) /\ pending[n] \in Inos /\ writer[pending[n]].file \in Files
      BY <3>1, BufferedIno
    <3> QED BY <3>1, <3>2 DEF Pending
  <2>2. CASE inoOf[id] = 0
    BY <2>2 DEF Unbind
  <2>3. CASE inoOf[id] # 0
    <3>1. inoOf[id] \in Inos /\ inoOf[id] # pending[n]
      BY <2>1, <2>3 DEF TypeOK, OptIno, PendingInv, Linked
    <3>2. writer[inoOf[id]].file # writer[pending[n]].file
      BY <2>1, <3>1, BuffersApart
    <3>3. DiscardBuffer(inoOf[id])
      BY <2>3 DEF Unbind
    <3> QED BY <2>1, <3>2, <3>3 DEF DiscardBuffer, TypeOK
  <2> QED BY <2>2, <2>3
<1>4. JobsOn /\ \A i : CalmAt(i)
  BY CalmEverywhere DEF JobsCalm
<1>5. \A f \in Files : gen'[f] = gen[f]
  OBVIOUS
<1> QED BY <1>2, <1>3, <1>4, <1>5, CalmPending

\* unlink of a file that is not saved yet: it is not pending any more.
LEMMA UnlinkedPending == ASSUME TypeOK, PendingInv, NEW n \in Names, UnlinkPending(n) PROVE PendingInv'
<1>1. /\ pending[n] # 0 /\ node' = [node EXCEPT ![pending[n]] = NoNode] /\ DiscardBuffer(pending[n])
      /\ pending' = [pending EXCEPT ![n] = 0]
      /\ UNCHANGED <<inoOf, writer, handle, gen, committed, job, made>>
  BY DEF UnlinkPending
<1>2. pending[n] \in Inos /\ node[pending[n]] = Pending(n)
  BY <1>1, BufferedIno
<1>3. Linked'
  BY <1>1, <1>2 DEF PendingInv, Linked, TypeOK, NoNode, OptIno
<1>4. ASSUME NEW m \in Names, pending'[m] # 0
      PROVE  /\ pending'[m] = pending[m] /\ node'[pending[m]] = node[pending[m]]
             /\ target'[writer[pending[m]].file].kind = target[writer[pending[m]].file].kind
  <2>1. m # n /\ pending'[m] = pending[m]
    BY <1>1, <1>4 DEF TypeOK
  <2>2. pending[m] \in Inos /\ node[pending[m]] = Pending(m) /\ writer[pending[m]].file \in Files
    BY <1>4, <2>1, BufferedIno
  <2>3. pending[m] # pending[n]
    BY <1>2, <2>1, <2>2 DEF Pending
  <2>4. writer[pending[n]].file # writer[pending[m]].file
    BY <1>2, <1>4, <2>1, <2>3, BuffersApart
  <2>5. target'[writer[pending[m]].file] = target[writer[pending[m]].file]
    BY <1>1, <2>2, <2>4 DEF DiscardBuffer, TypeOK
  <2> QED BY <1>1, <1>2, <2>1, <2>2, <2>3, <2>5 DEF TypeOK
<1>5. JobsOn /\ \A i : CalmAt(i)
  BY <1>1, JobsStepCalm, CalmEverywhere DEF JobsCalm
<1>6. \A f \in Files : gen'[f] = gen[f]
  BY <1>1
<1> QED BY <1>1, <1>3, <1>4, <1>5, <1>6, CalmPending

\* lookup: a new inode is a hash, and none that create gave out.
LEMMA LookupPending == ASSUME TypeOK, PendingInv, NEW n \in Names, Lookup(n) PROVE PendingInv'
<1>1. UNCHANGED <<pending, writer, handle, buffers, job, made>>
  BY DEF Lookup
<1>2. JobsCalm /\ JobsOn /\ \A i : CalmAt(i)
  BY <1>1, JobsStepCalm, CalmEverywhere DEF JobsCalm
<1>3. Linked' /\ \A m \in Names : pending[m] # 0 => node'[pending[m]] = node[pending[m]]
  <2>1. CASE UNCHANGED <<node, inoOf>>
    BY <2>1 DEF PendingInv, Linked
  <2>2. CASE pending[n] = 0 /\ Holder(n) # 0
    <3> PICK id, k : id = Holder(n) /\ k = InoForRemote(id)
      OBVIOUS
    <3>1. /\ inoOf' = [inoOf EXCEPT ![id] = k] /\ id \in Ids
          /\ node' = [node EXCEPT ![k] = IF inoOf[id] # 0 THEN @ ELSE Remote(id)]
      BY <2>2, HolderId DEF Lookup, OptId
    <3>2. CASE inoOf[id] # 0
      <4>1. k = inoOf[id] /\ node' = node
        BY <3>1, <3>2 DEF InoForRemote, TypeOK
      <4> QED BY <3>1, <4>1 DEF PendingInv, Linked, TypeOK
    <3>3. CASE inoOf[id] = 0
      <4>1. k = MaxCreate + id /\ node' = [node EXCEPT ![k] = Remote(id)]
        BY <3>1, <3>3 DEF InoForRemote, HashedIno
      <4>2. k > MaxCreate /\ k \in Inos
        <5>1. MaxCreate \in Nat /\ MaxId \in Nat /\ id \in 1 .. MaxId
          BY <3>1, SessionAssumption DEF Ids
        <5> QED BY <4>1, <5>1 DEF Inos
      <4>3. node'[k] = Remote(id) /\ \A i \in Inos \ {k} : node'[i] = node[i]
        BY <4>1, <4>2 DEF TypeOK
      <4>4. ASSUME NEW m \in Names, pending[m] # 0 PROVE node'[pending[m]] = node[pending[m]]
        <5>1. pending[m] \in Inos /\ pending[m] <= MaxCreate /\ MaxCreate \in Nat
          BY <4>4, BufferedIno, SessionAssumption
        <5>2. pending[m] # k
          BY <4>1, <4>2, <5>1 DEF Inos
        <5> QED BY <4>3, <5>1, <5>2
      <4>5. Linked'
        <5> SUFFICES ASSUME NEW d \in Ids, inoOf'[d] # 0 PROVE node'[inoOf'[d]].kind # "pending"
          BY DEF Linked
        <5>1. inoOf'[d] \in {k, inoOf[d]} /\ inoOf[d] \in Inos \cup {0}
          BY <3>1 DEF TypeOK, OptIno
        <5> QED BY <4>3, <5>1 DEF PendingInv, Linked, Remote
      <4> QED BY <4>4, <4>5
    <3> QED BY <3>2, <3>3
  <2> QED BY <2>1, <2>2 DEF Lookup
<1>4. \A f \in Files : gen'[f] = gen[f]
  BY <1>1 DEF buffers
<1>5. UNCHANGED <<writer, handle, committed, target>> /\ made'.ino = made.ino /\ made'.file = made.file
  BY <1>1 DEF buffers
<1> QED BY <1>1, <1>2, <1>3, <1>4, <1>5, CalmPending

\* The buffer of a save that has begun was made.
LEMMA PlacedMade ==
  ASSUME IInv, PendingInv, NEW w \in Workers, Middle(job[w])
  PROVE  /\ AtPlace(job[w]) /\ job[w].fh \in Fhs /\ handle[job[w].fh] # 0
         /\ job[w].file \in Files /\ job[w].ino \in Inos /\ job[w].file <= made.file
<1>1. AtPlace(job[w])
  BY DEF PendingInv, Placed
<1>2. /\ job[w].fh \in Fhs /\ handle[job[w].fh] # 0
      /\ job[w].file \in Files /\ job[w].ino \in Inos
  BY MiddleJob
<1>3. job[w].file <= made.file
  BY <1>1, <1>2 DEF PendingInv, Owned, AtPlace
<1> QED BY <1>1, <1>2, <1>3

\* A handle is opened, on a buffer that is there or on a new one.
LEMMA AttachPending ==
  ASSUME IInv, PendingInv, NEW i \in Inos, NEW f, Attach(i, f), Made("fh") \in Fhs, JobsCalm,
         made' \in Counts, made.ino <= made'.ino,
         \/ /\ writer[i].file # 0 /\ made'.file = made.file
            /\ UNCHANGED buffers
         \/ /\ writer[i].file = 0 /\ f = made.file + 1 /\ made'.file = f /\ f \in Files
            /\ \A g \in Files \ {f} :
                 target'[g] = target[g] /\ gen'[g] = gen[g] /\ committed'[g] = committed[g]
  PROVE  /\ Owned' /\ Blank' /\ Placed'
         /\ \A n \in Names : pending[n] # 0 /\ pending'[n] = pending[n]
                             /\ node'[pending[n]] = node[pending[n]] => Buffered(pending[n], n)'
<1> PICK h : h = Made("fh")
  OBVIOUS
<1>0. TypeOK /\ Owned
  BY DEF IInv, PendingInv
<1>1. /\ handle' = [handle EXCEPT ![h] = i] /\ h \in Fhs /\ i # 0
      /\ made.file \in Nat /\ made'.file \in Nat /\ made'.ino \in Nat /\ 0 \notin Files
  <2>1. i # 0 /\ 0 \notin Files
    BY DEF Inos, Files
  <2> QED BY <1>0, <2>1 DEF Attach, TypeOK, Counts
<1>2. handle[h] = 0 /\ \A v \in Workers : Commits(v) => job[v].fh # h
  <2>1. h = made.fh + 1 /\ made.fh \in Nat
    BY <1>0, NextNumbers
  <2>2. handle[h] = 0
    BY <1>1, <2>1 DEF IInv, Known
  <2> QED BY <2>2, SaveFh
<1>3. /\ handle'[h] = i /\ \A fh \in Fhs \ {h} : handle'[fh] = handle[fh]
  BY <1>0, <1>1 DEF TypeOK
<1>4. \A k \in Inos : /\ writer[k].file # 0 => writer'[k].file = writer[k].file
                      /\ k # i => writer'[k].file = writer[k].file
                      /\ writer[k].file = 0 /\ k = i => writer'[k].file = f
                      /\ writer[k].file \in Files \cup {0}
  BY <1>0 DEF Attach, TypeOK
<1>5. Owned'
  <2>1. \A k \in Inos : writer[k].file <= made.file /\ writer[k].file \in Int
    BY <1>0, <1>4 DEF Owned, Files
  <2>2. CASE writer[i].file # 0
    <3>1. \A k \in Inos : writer'[k].file = writer[k].file
      BY <1>4, <2>2
    <3> QED BY <1>0, <2>1, <2>2, <3>1, <1>1 DEF Owned
  <2>3. CASE writer[i].file = 0
    <3>1. writer'[i].file = made.file + 1 /\ made'.file = made.file + 1
      BY <1>4, <2>3
    <3>2. \A k \in Inos \ {i} : writer'[k].file = writer[k].file
      BY <1>4
    <3> QED BY <1>0, <1>1, <2>1, <3>1, <3>2 DEF Owned
  <2> QED BY <2>2, <2>3
<1>6. Blank'
  <2> SUFFICES ASSUME NEW g \in Files, g > made'.file PROVE committed'[g] = 0
    BY DEF Blank
  <2>1. g > made.file /\ (g # f \/ writer[i].file # 0)
    BY <1>1 DEF Files
  <2>2. committed'[g] = committed[g]
    BY <2>1 DEF buffers
  <2> QED BY <2>1, <2>2 DEF PendingInv, Blank
<1>7. Placed'
  <2> SUFFICES ASSUME NEW w \in Workers, Middle(job'[w])
               PROVE  /\ handle'[job'[w].fh] = job'[w].ino
                      /\ writer'[job'[w].ino].file = job'[w].file
    BY DEF Placed, AtPlace
  <2>1. /\ Middle(job[w]) /\ job'[w].fh = job[w].fh /\ job'[w].ino = job[w].ino
        /\ job'[w].file = job[w].file
    BY DEF JobsCalm, JobsOn
  <2>2. /\ handle[job[w].fh] = job[w].ino /\ writer[job[w].ino].file = job[w].file
        /\ job[w].fh \in Fhs /\ job[w].ino \in Inos /\ job[w].file # 0 /\ handle[job[w].fh] # 0
    BY <1>1, <2>1, PlacedMade DEF AtPlace
  <2>3. handle'[job[w].fh] = handle[job[w].fh]
    BY <1>2, <1>3, <2>2
  <2> QED BY <1>4, <2>1, <2>2, <2>3
<1>8. ASSUME NEW n \in Names, pending[n] # 0, pending'[n] = pending[n],
             node'[pending[n]] = node[pending[n]]
      PROVE  Buffered(pending[n], n)'
  <2> PICK p : p = pending[n]
    OBVIOUS
  <2>1. Buffered(p, n) /\ p \in Inos /\ writer[p].file \in Files
    BY <1>0, <1>8, BufferedIno
  <2>2. writer'[p].file = writer[p].file
    BY <1>1, <1>4, <2>1
  <2>3. CalmAt(p)
    <3>1. \A fh \in Fhs : Closing(fh) => fh # h
      BY <1>2 DEF Closing, Doing, Commits
    <3>2. \A fh \in Fhs : Closing(fh)' => Closing(fh) /\ handle'[fh] = handle[fh]
      BY <1>3, <3>1, CalmEverywhere
    <3> QED BY <3>2, CalmEverywhere DEF CalmAt
  <2>4. /\ target'[writer[p].file] = target[writer[p].file] /\ gen'[writer[p].file] = gen[writer[p].file]
        /\ committed'[writer[p].file] = committed[writer[p].file]
    <3>1. writer[p].file <= made.file /\ writer[p].file \in Int
      BY <1>0, <2>1 DEF Owned, Files
    <3>2. writer[p].file # made.file + 1
      BY <1>1, <3>1
    <3> QED BY <2>1, <3>2 DEF buffers
  <2>5. Buffered(p, n)'
    BY <1>0, <1>1, <1>8, <2>1, <2>2, <2>3, <2>4, BufferedStays
  <2> QED BY <1>8, <2>5
<1> QED BY <1>5, <1>6, <1>7, <1>8

\* A handle is closed: not the last one of a file that was never saved, and if a save is about
\* to say that it was, that save has a handle of its own.
LEMMA ClosePending ==
  ASSUME IInv, PendingInv, TypeOK', HandlesCounted', NEW fh \in Fhs, handle[fh] # 0,
         CloseHandle(fh), JobsCalm, UNCHANGED <<inodes, buffers, made>>,
         ~Dirty(writer[handle[fh]].file) \/ Closing(fh),
         \A v \in Workers : Middle(job[v]) => job[v].fh # fh
  PROVE  PendingInv'
<1> PICK i : i = handle[fh]
  OBVIOUS
<1>0. TypeOK /\ Owned /\ i \in Inos /\ i # 0
  <2>1. TypeOK
    BY DEF IInv
  <2> QED BY <2>1 DEF PendingInv, TypeOK, OptIno
<1>1. /\ handle'[fh] = 0 /\ \A k \in Fhs \ {fh} : handle'[k] = handle[k]
      /\ \A k \in Inos : writer'[k].file \in {0, writer[k].file}
      /\ \A k \in Inos : k # i => writer'[k].file = writer[k].file
  BY <1>0 DEF CloseHandle, TypeOK, NoWriter
<1>2. \A k \in Fhs : handle'[k] # 0 => writer'[handle'[k]].file # 0 /\ handle'[k] \in Inos
  BY HandleHasBufferNext
<1>3. Owned' /\ Blank' /\ Linked'
  <2>1. \A k \in Inos : writer[k].file \in Nat /\ made.file \in Nat
    BY <1>0 DEF TypeOK, Counts, Files
  <2>2. Owned'
    BY <1>0, <1>1, <2>1 DEF Owned
  <2> QED BY <2>2 DEF PendingInv, Blank, Linked, buffers, inodes
<1>4. \A w \in Workers : Middle(job[w]) =>
        /\ handle'[job[w].fh] = handle[job[w].fh] /\ writer'[job[w].ino].file = writer[job[w].ino].file
        /\ handle[job[w].fh] = job[w].ino /\ job[w].ino \in Inos
  <2> SUFFICES ASSUME NEW w \in Workers, Middle(job[w])
               PROVE  /\ handle'[job[w].fh] = handle[job[w].fh]
                      /\ writer'[job[w].ino].file = writer[job[w].ino].file
                      /\ handle[job[w].fh] = job[w].ino /\ job[w].ino \in Inos
    OBVIOUS
  <2>1. job[w].fh # fh /\ job[w].fh \in Fhs /\ handle[job[w].fh] # 0 /\ handle[job[w].fh] = job[w].ino
    BY PlacedMade DEF AtPlace
  <2> QED BY <1>1, <1>2, <2>1
<1>5. Placed'
  BY <1>4 DEF PendingInv, Placed, AtPlace, JobsCalm, JobsOn
<1>6. ASSUME NEW n \in Names, pending[n] # 0 PROVE Buffered(pending[n], n)'
  <2> PICK p : p = pending[n]
    OBVIOUS
  <2>1. Buffered(p, n) /\ p \in Inos /\ writer[p].file \in Files /\ pending'[n] = p
    BY <1>0, <1>6, BufferedIno DEF inodes
  <2>2. writer'[p].file = writer[p].file
    <3>1. CASE p # i
      BY <1>1, <2>1, <3>1
    <3>2. CASE p = i /\ Unsaved(p)
      <4>1. Dirty(writer[p].file)
        BY <3>2 DEF Unsaved, Dirty
      <4>2. ~Closing(fh)
        BY <3>2 DEF Unsaved
      <4> QED BY <3>2, <4>1, <4>2
    <3>3. CASE Repointing(p)
      <4>1. PICK w \in Workers : Middle(job[w]) /\ job[w].ino = p
        BY <3>3 DEF Repointing, Saving, Commits, Middle
      <4> QED BY <1>4, <4>1
    <3> QED BY <2>1, <3>1, <3>2, <3>3 DEF Buffered
  <2>3. CalmAt(p)
    <3>1. p # 0
      BY <1>6
    <3>2. \A k \in Fhs : handle'[k] = p => handle[k] = p
      BY <1>1, <3>1
    <3> QED BY <3>2, CalmEverywhere DEF CalmAt
  <2>4. made'.ino \in Nat /\ made.ino <= made'.ino
    BY <1>0 DEF TypeOK, Counts
  <2>5. Buffered(p, n)'
    BY <1>0, <2>1, <2>2, <2>3, <2>4, BufferedStays DEF inodes, buffers
  <2> QED BY <2>1, <2>5
<1>7. (\A n \in Names : pending[n] # 0 => Buffered(pending[n], n))'
  BY <1>6 DEF inodes
<1> QED BY <1>3, <1>5, <1>7 DEF PendingInv

\* mark_committed: the save says next that the name is the record's.
LEMMA SettlePending == ASSUME IInv, PendingInv, NEW w \in Workers, Settle(w) PROVE PendingInv'
<1> PICK f, k : f = job[w].file /\ k = job[w].ino
  OBVIOUS
<1>0. TypeOK /\ Owned
  BY DEF IInv, PendingInv
<1>1. /\ Commits(w) /\ Middle(job[w]) /\ job[w].pc = "settle" /\ GoTo(w, "repoint")
      /\ committed' = [committed EXCEPT ![f] = job[w].ver]
      /\ target' = [target EXCEPT ![f] = Existing(job[w].new)]
      /\ UNCHANGED <<node, inoOf, pending, writer, handle, gen, made>>
  BY DEF Settle, Saving, Commits, Middle, inodes
<1>2. f \in Files /\ k \in Inos /\ writer[k].file = f /\ f <= made.file
  BY <1>1, PlacedMade DEF AtPlace
<1>3. /\ job'[w].kind = job[w].kind /\ job'[w].fh = job[w].fh /\ job'[w].ino = k
      /\ job'[w].file = f /\ job'[w].pc = "repoint" /\ \A v \in Workers \ {w} : job'[v] = job[v]
  <2>1. /\ job'[w] = [job[w] EXCEPT !.pc = "repoint"] /\ job[w] \in Job
        /\ \A v \in Workers \ {w} : job'[v] = job[v]
    BY <1>0, <1>1 DEF GoTo, TypeOK
  <2> QED BY <2>1 DEF Job
<1>4. \A i : CalmAt(i)
  <2>1. \A fh : Closing(fh)' => Closing(fh)
    BY <1>3 DEF Closing, Doing
  <2>2. \A i : Repointing(i) => Repointing(i)'
    BY <1>1, <1>3 DEF Repointing, Saving, Commits
  <2> QED BY <1>1, <2>1, <2>2 DEF CalmAt
<1>5. Placed'
  BY <1>1, <1>3 DEF PendingInv, Placed, AtPlace, Middle
<1>6. /\ target'[f].kind = "existing"
      /\ \A g \in Files \ {f} : target'[g] = target[g] /\ committed'[g] = committed[g]
  BY <1>0, <1>1, <1>2 DEF TypeOK, Existing
<1>7. Owned' /\ Linked' /\ Blank'
  <2>1. made.file \in Nat /\ Files \subseteq Nat
    BY <1>0, SessionAssumption DEF TypeOK, Counts, Files
  <2>2. \A g \in Files : g > made.file => committed'[g] = committed[g]
    <3>1. \A g \in Files : g > made.file => g # f
      BY <1>2, <2>1
    <3> QED BY <1>6, <3>1
  <2>3. Owned' /\ Linked'
    BY <1>1 DEF PendingInv, Owned, Linked
  <2> QED BY <1>1, <2>2, <2>3 DEF PendingInv, Blank
<1>8. ASSUME NEW n \in Names, pending[n] # 0 PROVE Buffered(pending[n], n)'
  <2> PICK p : p = pending[n]
    OBVIOUS
  <2>1. Buffered(p, n) /\ p \in Inos /\ writer[p].file \in Files /\ pending'[n] = p
    BY <1>0, <1>1, <1>8, BufferedIno
  <2>2. CASE p = k
    <3>1. Repointing(p)'
      BY <1>1, <1>3, <2>2 DEF Repointing, Saving, Commits
    <3>2. p \in 1 .. made'.ino /\ node'[p] = Pending(n) /\ writer'[p].file # 0
      BY <1>1, <2>1 DEF Buffered
    <3>3. writer'[p].file = f
      BY <1>1, <1>2, <2>2
    <3>4. Buffered(p, n)'
      BY <1>6, <3>1, <3>2, <3>3 DEF Buffered, Pending
    <3> QED BY <2>1, <3>4
  <2>3. CASE p # k
    <3>1. writer[p].file # f
      BY <1>0, <1>2, <1>8, <2>1, <2>3, BuffersApart
    <3>2. made'.ino \in Nat /\ made.ino <= made'.ino
      BY <1>0, <1>1 DEF TypeOK, Counts
    <3>3. Buffered(p, n)'
      BY <1>0, <1>1, <1>4, <1>6, <2>1, <3>1, <3>2, BufferedStays
    <3> QED BY <2>1, <3>3
  <2> QED BY <2>2, <2>3
<1>9. (\A n \in Names : pending[n] # 0 => Buffered(pending[n], n))'
  BY <1>1, <1>8
<1> QED BY <1>5, <1>7, <1>9 DEF PendingInv

\* A save finds nothing to do: the buffer is not one that was never saved.
LEMMA IdlePending ==
  ASSUME IInv, PendingInv, NEW w \in Workers, Commits(w), job[w].pc = "lock", Saved(w),
         UNCHANGED <<inodes, writer, handle, target, gen, made>>,
         NEW f \in Files, f = writer[handle[job[w].fh]].file,
         \/ ~Dirty(f) /\ committed'[f] = committed[f]
         \/ target[f].kind = "discarded",
         \A g \in Files \ {f} : committed'[g] = committed[g]
  PROVE  PendingInv'
<1>0. TypeOK /\ Owned /\ handle[job[w].fh] \in Inos
  BY SaveHandle DEF IInv, PendingInv
<1>1. UNCHANGED <<node, inoOf, pending>>
  BY DEF inodes
<1>2. /\ \A v \in Workers \ {w} : job'[v] = job[v]
      /\ ~Middle(job'[w])
      /\ Doing(w, "release", "close")' => job'[w].fh = job[w].fh
  <2>1. CASE job[w].kind = "release"
    <3>1. /\ job'[w] = [job[w] EXCEPT !.pc = "close"] /\ job[w] \in Job
          /\ \A v \in Workers \ {w} : job'[v] = job[v]
      BY <1>0, <2>1 DEF Saved, GoTo, TypeOK
    <3>2. job'[w].pc = "close" /\ job'[w].fh = job[w].fh
      BY <3>1 DEF Job
    <3> QED BY <3>1, <3>2 DEF Middle
  <2>2. CASE job[w].kind # "release"
    <3>1. job'[w] = NoJob /\ \A v \in Workers \ {w} : job'[v] = job[v]
      BY <1>0, <2>2 DEF Saved, End, TypeOK
    <3>2. ~Middle(NoJob) /\ NoJob.kind # "release"
      BY DEF Middle, NoJob
    <3> QED BY <3>1, <3>2 DEF Doing
  <2> QED BY <2>1, <2>2
<1>3. \A i : Repointing(i) => Repointing(i)'
  BY <1>2 DEF Repointing, Saving, Commits
<1>4. \A fh : Closing(fh)' => Closing(fh) \/ fh = job[w].fh
  BY <1>2 DEF Closing, Doing
<1>5. Placed'
  BY <1>2 DEF PendingInv, Placed, AtPlace
<1>6. Owned' /\ Linked' /\ Blank'
  <2>1. f <= made.file /\ made.file \in Nat /\ Files \subseteq Nat
    BY <1>0, SessionAssumption DEF Owned, TypeOK, Counts, Files
  <2>2. \A g \in Files : g > made.file => committed'[g] = committed[g]
    BY <2>1
  <2>3. Owned' /\ Linked'
    BY <1>1 DEF PendingInv, Owned, Linked
  <2> QED BY <2>2, <2>3 DEF PendingInv, Blank
<1>7. ASSUME NEW n \in Names, pending[n] # 0 PROVE Buffered(pending[n], n)'
  <2> PICK p : p = pending[n]
    OBVIOUS
  <2>1. Buffered(p, n) /\ p \in Inos /\ writer[p].file \in Files /\ pending'[n] = p
    BY <1>0, <1>1, <1>7, BufferedIno
  <2>2. CASE writer[p].file = f
    <3>1. ~Unsaved(p)
      BY <2>2 DEF Unsaved, Dirty
    <3>2. Repointing(p)' /\ target'[writer'[p].file].kind # "discarded"
      BY <1>3, <2>1, <3>1 DEF Buffered
    <3>3. p \in 1 .. made'.ino /\ node'[p] = Pending(n) /\ writer'[p].file # 0
      BY <1>1, <2>1 DEF Buffered
    <3>4. Buffered(p, n)'
      BY <3>2, <3>3 DEF Buffered, Pending
    <3> QED BY <2>1, <3>4
  <2>3. CASE writer[p].file # f
    <3>1. CalmAt(p)
      BY <1>3, <1>4, <2>3 DEF CalmAt
    <3>2. made'.ino \in Nat /\ made.ino <= made'.ino
      BY <1>0 DEF TypeOK, Counts
    <3>3. Buffered(p, n)'
      BY <1>0, <1>1, <2>1, <2>3, <3>1, <3>2, BufferedStays
    <3> QED BY <2>1, <3>3
  <2> QED BY <2>2, <2>3
<1>8. (\A n \in Names : pending[n] # 0 => Buffered(pending[n], n))'
  BY <1>1, <1>7
<1> QED BY <1>5, <1>6, <1>8 DEF PendingInv

\* A save begins, or finds nothing to do.
LEMMA BeginPending == ASSUME IInv, PendingInv, NEW w \in Workers, BeginCommit(w) PROVE PendingInv'
<1> PICK f : f = writer[handle[job[w].fh]].file
  OBVIOUS
<1>0. TypeOK /\ Owned
  BY DEF IInv, PendingInv
<1>1. /\ Commits(w) /\ job[w].pc = "lock" /\ f \in Files /\ handle[job[w].fh] \in Inos
      /\ UNCHANGED <<inodes, writer, handle, target, gen, made>>
  BY SaveHandle DEF BeginCommit, Saving
<1>2. CASE ~Dirty(f)
  <2>1. Saved(w) /\ UNCHANGED committed
    BY <1>2 DEF BeginCommit
  <2> QED BY <1>1, <1>2, <2>1, IdlePending
<1>3. CASE Dirty(f) /\ target[f].kind = "discarded"
  <2>1. Saved(w) /\ committed' = [committed EXCEPT ![f] = gen[f]]
    BY <1>3 DEF BeginCommit
  <2>2. \A g \in Files \ {f} : committed'[g] = committed[g]
    BY <1>0, <2>1 DEF TypeOK
  <2> QED BY <1>1, <1>3, <2>1, <2>2, IdlePending
<1>4. CASE Dirty(f) /\ target[f].kind # "discarded"
  <2>1. job' = [job EXCEPT ![w] = Plan(w, f)] /\ UNCHANGED committed
    BY <1>4 DEF BeginCommit
  <2>2. job'[w] = Plan(w, f) /\ \A v \in Workers \ {w} : job'[v] = job[v]
    BY <1>0, <2>1 DEF TypeOK
  <2>3. /\ job'[w].fh = job[w].fh /\ job'[w].ino = handle[job[w].fh] /\ job'[w].file = f
        /\ job'[w].pc \in {"create", "upload"}
    <3>1. /\ Plan(w, f).fh = job[w].fh /\ Plan(w, f).ino = handle[job[w].fh]
          /\ Plan(w, f).file = f /\ Plan(w, f).pc \in {"create", "upload"}
      BY <1>0 DEF Plan, TypeOK, Job
    <3> QED BY <2>2, <3>1
  <2>4. Placed'
    BY <1>1, <2>2, <2>3 DEF PendingInv, Placed, AtPlace
  <2>5. Owned' /\ Linked' /\ Blank'
    BY <1>1, <2>1 DEF PendingInv, Owned, Linked, Blank, inodes
  <2>6. \A i : CalmAt(i)
    <3>1. \A fh : Closing(fh)' => Closing(fh)
      BY <2>2, <2>3 DEF Closing, Doing
    <3>2. \A i : Repointing(i) => Repointing(i)'
      BY <1>1, <2>2 DEF Repointing, Saving, Commits
    <3> QED BY <1>1, <3>1, <3>2 DEF CalmAt
  <2>7. made'.ino \in Nat /\ made.ino <= made'.ino /\ UNCHANGED <<node, pending>>
    BY <1>0, <1>1 DEF TypeOK, Counts, inodes
  <2>8. ASSUME NEW n \in Names, pending[n] # 0 PROVE Buffered(pending[n], n)'
    <3> PICK p : p = pending[n]
      OBVIOUS
    <3>1. Buffered(p, n) /\ writer[p].file \in Files /\ pending'[n] = p
      BY <1>0, <2>7, <2>8, BufferedIno
    <3>2. Buffered(p, n)'
      BY <1>0, <1>1, <2>1, <2>6, <2>7, <3>1, BufferedStays
    <3> QED BY <3>1, <3>2
  <2>9. (\A n \in Names : pending[n] # 0 => Buffered(pending[n], n))'
    BY <2>7, <2>8
  <2> QED BY <2>4, <2>5, <2>9 DEF PendingInv
<1> QED BY <1>2, <1>3, <1>4

\* create: the new name has a new inode, whose new buffer is to become a file.
LEMMA CreatePending ==
  ASSUME IInv, UnusedIsNowhere, PendingInv, made' \in Counts, NEW n \in Names, Create(n)
  PROVE  PendingInv'
<1> PICK i, f : i = Made("ino") /\ f = Made("file")
  OBVIOUS
<1>0. TypeOK /\ Room /\ HandlesCounted /\ made.ino \in Nat /\ made.file \in Nat
  BY NextNumbers DEF IInv
<1>1. /\ i \in Inos /\ f \in Files /\ Made("fh") \in Fhs
      /\ i = made.ino + 1 /\ f = made.file + 1 /\ i <= MaxCreate
  BY <1>0, CreateIno, RoomToMake, NextNumbers DEF Create
<1>2. Unused(i) /\ made'.ino = i /\ made'.file = f /\ MaxCreate \in Nat
  BY <1>0, <1>1, SessionAssumption DEF Create, Unused, TypeOK, Counts
<1>3. writer[i].file = 0 /\ \A id \in Ids : inoOf[id] # i
  BY <1>1, <1>2 DEF UnusedIsNowhere
<1>4. /\ Attach(i, f) /\ UNCHANGED <<inoOf, job, committed>>
      /\ node'[i] = Pending(n) /\ \A k \in Inos \ {i} : node'[k] = node[k]
      /\ pending'[n] = i /\ \A m \in Names \ {n} : pending'[m] = pending[m]
      /\ target'[f] = NewFile(n) /\ gen'[f] = made.ver + 1
      /\ \A g \in Files \ {f} : target'[g] = target[g] /\ gen'[g] = gen[g]
  BY <1>0, <1>1, NextNumbers DEF Create, TypeOK
<1>5. JobsCalm
  BY <1>0, <1>4, JobsStepCalm
<1>6. /\ Owned' /\ Blank' /\ Placed'
      /\ \A m \in Names : pending[m] # 0 /\ pending'[m] = pending[m]
                          /\ node'[pending[m]] = node[pending[m]] => Buffered(pending[m], m)'
  <2>1. made.ino <= made'.ino
    BY <1>0, <1>1, <1>2
  <2>2. \A g \in Files \ {f} :
          target'[g] = target[g] /\ gen'[g] = gen[g] /\ committed'[g] = committed[g]
    BY <1>4
  <2>3. Attach(i, f)
    BY <1>4
  <2> QED BY <1>1, <1>2, <1>3, <1>5, <2>1, <2>2, <2>3, AttachPending
<1>7. Linked'
  <2>1. \A id \in Ids : inoOf[id] # 0 => inoOf[id] \in Inos
    BY <1>0 DEF TypeOK, OptIno
  <2> QED BY <1>3, <1>4, <2>1 DEF PendingInv, Linked
<1>8. Buffered(i, n)'
  <2>1. writer'[i].file = f /\ f # 0
    <3>1. 0 \notin Files
      BY DEF Files
    <3> QED BY <1>0, <1>1, <1>3, <1>4, <3>1 DEF Attach, TypeOK
  <2>2. target'[f].kind = "new" /\ gen'[f] # 0 /\ committed'[f] = 0
    <3>1. made.ver \in Nat
      BY <1>0, NextNumbers
    <3>2. f > made.file
      BY <1>0, <1>1
    <3> QED BY <1>1, <1>4, <3>1, <3>2 DEF PendingInv, Blank, NewFile
  <2>3. ASSUME NEW fh \in Fhs, Closing(fh)' PROVE handle'[fh] # i
    <3>1. Closing(fh)
      BY <1>5, <2>3, CalmEverywhere
    <3>2. handle[fh] # 0 /\ fh <= made.fh
      BY <3>1, SaveFh DEF Closing, Doing, Commits
    <3>3. handle[fh] # i
      <4>1. writer[handle[fh]].file \in Files
        BY <1>0, <3>2, HandleHasBuffer
      <4> QED BY <1>3, <4>1 DEF Files
    <3>4. fh # Made("fh")
      <4>1. Made("fh") = made.fh + 1 /\ made.fh \in Nat
        BY <1>0, NextNumbers
      <4> QED BY <3>2, <4>1
    <3>5. handle'[fh] = handle[fh]
      BY <1>0, <1>4, <3>4 DEF Attach, TypeOK
    <3> QED BY <3>3, <3>5
  <2>4. i \in 1 .. made'.ino
    BY <1>0, <1>1, <1>2
  <2>5. Unsaved(i)'
    BY <2>1, <2>2, <2>3 DEF Unsaved
  <2>6. node'[i] = Pending(n) /\ writer'[i].file # 0
    BY <1>4, <2>1
  <2> QED BY <2>4, <2>5, <2>6 DEF Buffered, Pending
<1>9. ASSUME NEW m \in Names, NEW p, p = pending'[m], p # 0 PROVE Buffered(p, m)'
  <2>1. CASE m = n
    <3>1. p = i
      BY <1>4, <1>9, <2>1
    <3> QED BY <1>8, <2>1, <3>1
  <2>2. CASE m # n
    <3>1. pending[m] = p
      BY <1>4, <1>9, <2>2
    <3>2. p \in Inos /\ p <= made.ino
      BY <1>0, <1>9, <3>1, BufferedIno
    <3>3. node'[p] = node[p]
      <4>1. p # i
        BY <1>0, <1>1, <3>2 DEF Inos
      <4> QED BY <1>4, <3>2, <4>1
    <3>4. Buffered(pending[m], m)'
      BY <1>6, <1>9, <3>1, <3>3
    <3> QED BY <1>9, <3>4 DEF Buffered, Unsaved, Repointing, Saving, Commits, Closing, Doing
  <2> QED BY <2>1, <2>2
<1>10. (\A m \in Names : pending[m] # 0 => Buffered(pending[m], m))'
  <2> SUFFICES ASSUME NEW m \in Names, pending'[m] # 0 PROVE Buffered(pending[m], m)'
    OBVIOUS
  <2> PICK p : p = pending'[m]
    OBVIOUS
  <2>1. Buffered(p, m)'
    BY <1>9
  <2> QED BY <2>1 DEF Buffered, Unsaved, Repointing, Saving, Commits, Closing, Doing
<1> QED BY <1>6, <1>7, <1>10 DEF PendingInv

\* Every step keeps the invariant.
LEMMA PendingNext == IInv /\ UnusedIsNowhere /\ PendingInv /\ [Next]_vars => PendingInv'
<1> SUFFICES ASSUME IInv, UnusedIsNowhere, PendingInv, [Next]_vars
             PROVE  PendingInv'
  OBVIOUS
<1>0. /\ TypeOK /\ Room /\ TypeOK' /\ HandlesCounted' /\ made' \in Counts
      /\ made.ver \in Nat /\ made.file \in Nat /\ made.ino \in Nat
  BY TypeNext, CountedNext, CountsNext, NextNumbers DEF IInv
<1>1. ASSUME NEW n \in Names, Create(n) PROVE PendingInv'
  BY <1>0, <1>1, CreatePending
<1>2. ASSUME NEW n \in Names, Lookup(n) PROVE PendingInv'
  BY <1>0, <1>2, LookupPending
<1>3. ASSUME NEW n \in Names, UnlinkPending(n) PROVE PendingInv'
  BY <1>0, <1>3, UnlinkedPending
<1>4. ASSUME NEW w \in Workers, BeginCommit(w) PROVE PendingInv'
  BY <1>4, BeginPending
<1>5. ASSUME NEW w \in Workers, Settle(w) PROVE PendingInv'
  BY <1>5, SettlePending
<1>6. ASSUME NEW i \in Inos, NEW f, Attach(i, f), Made("fh") \in Fhs, JobsCalm, UNCHANGED inodes,
             made'.ino = made.ino,
             \/ /\ writer[i].file # 0 /\ made'.file = made.file
                /\ UNCHANGED buffers
             \/ /\ writer[i].file = 0 /\ f = made.file + 1 /\ made'.file = f /\ f \in Files
                /\ \A g \in Files \ {f} :
                     target'[g] = target[g] /\ gen'[g] = gen[g] /\ committed'[g] = committed[g]
      PROVE  PendingInv'
  <2>1. UNCHANGED <<node, inoOf, pending>> /\ made.ino <= made'.ino
    BY <1>0, <1>6 DEF inodes
  <2>2. /\ Owned' /\ Blank' /\ Placed'
        /\ \A n \in Names : pending[n] # 0 /\ pending'[n] = pending[n]
                            /\ node'[pending[n]] = node[pending[n]] => Buffered(pending[n], n)'
    BY <1>0, <1>6, <2>1, AttachPending
  <2>3. Linked'
    BY <2>1 DEF PendingInv, Linked
  <2>4. (\A n \in Names : pending[n] # 0 => Buffered(pending[n], n))'
    BY <2>1, <2>2
  <2> QED BY <2>2, <2>3, <2>4 DEF PendingInv
<1>7. ASSUME NEW n \in Names, OpenShared(n) PROVE PendingInv'
  <2>1. /\ Attach(dentry[n], 0) /\ dentry[n] \in Inos /\ Made("fh") \in Fhs
        /\ writer[dentry[n]].file # 0 /\ UNCHANGED <<inodes, buffers, job>>
    BY <1>7, <1>0, RoomToMake DEF OpenShared, TypeOK, OptIno
  <2>2. made'.file = made.file /\ made'.ino = made.ino
    BY <1>7, <1>0 DEF OpenShared, TypeOK, Counts
  <2>3. JobsCalm
    BY <1>0, <2>1, JobsStepCalm
  <2> QED BY <1>6, <2>1, <2>2, <2>3
<1>8. ASSUME NEW w \in Workers, AttachLoaded(w) PROVE PendingInv'
  <2> PICK i, f, id : i = job[w].ino /\ f = Made("file") /\ id = job[w].id
    OBVIOUS
  <2>1. /\ Attach(i, f) /\ i \in Inos /\ Made("fh") \in Fhs
        /\ f = made.file + 1 /\ f \in Files /\ End(w) /\ UNCHANGED inodes
        /\ ~Saving(w, "repoint")
    BY <1>8, <1>0, JobIds, UploadWaits, RoomToMake, NextNumbers
    DEF AttachLoaded, Doing, Saving, Commits
  <2>2. made'.ino = made.ino
    BY <1>8, <1>0 DEF AttachLoaded, TypeOK, Counts
  <2>3. JobsCalm
    BY <1>0, <2>1, JobsStepCalm
  <2>4. CASE writer[i].file # 0
    <3>1. made'.file = made.file /\ UNCHANGED buffers
      BY <1>8, <1>0, <2>4 DEF AttachLoaded, TypeOK, Counts
    <3> QED BY <1>6, <2>1, <2>2, <2>3, <2>4, <3>1
  <2>5. CASE writer[i].file = 0
    <3>1. /\ target' = [target EXCEPT ![f] = Existing(id)]
          /\ gen' = [gen EXCEPT ![f] = rec[id].ver]
          /\ committed' = [committed EXCEPT ![f] = rec[id].ver]
          /\ made'.file = f
      BY <1>8, <1>0, <2>1, <2>5 DEF AttachLoaded, TypeOK, Counts
    <3>2. \A g \in Files \ {f} :
             target'[g] = target[g] /\ gen'[g] = gen[g] /\ committed'[g] = committed[g]
      BY <1>0, <2>1, <3>1 DEF TypeOK
    <3> QED BY <1>6, <2>1, <2>2, <2>3, <2>5, <3>1, <3>2
  <2> QED BY <2>4, <2>5
<1>9. ASSUME NEW fh \in Fhs, ReleaseClean(fh) PROVE PendingInv'
  <2>1. /\ fh \in open /\ ~InJob(fh, {"flush"}) /\ ~Dirty(writer[handle[fh]].file)
        /\ CloseHandle(fh) /\ UNCHANGED <<inodes, buffers, job, made>>
    BY <1>9 DEF ReleaseClean, Releasable
  <2>2. handle[fh] # 0
    BY <2>1 DEF IInv, Known
  <2>3. \A v \in Workers : Middle(job[v]) => job[v].fh # fh
    BY <2>1, MiddleJob DEF InJob, Middle
  <2>4. JobsCalm
    BY <1>0, <2>1, JobsStepCalm
  <2> QED BY <1>0, <2>1, <2>2, <2>3, <2>4, ClosePending
<1>10. ASSUME NEW w \in Workers, CloseReleased(w) PROVE PendingInv'
  <2> PICK fh : fh = job[w].fh
    OBVIOUS
  <2>1. /\ Commits(w) /\ job[w].pc = "close" /\ CloseHandle(fh) /\ End(w)
        /\ UNCHANGED <<inodes, buffers, made>> /\ ~Saving(w, "repoint")
    BY <1>10 DEF CloseReleased, Saving
  <2>2. job[w].kind = "release"
    <3>1. JobShape(w)
      BY DEF IInv
    <3> QED BY <2>1, <3>1 DEF JobShape, SaveJob, Commits, NoJob
  <2>3. fh \in Fhs /\ handle[fh] # 0 /\ fh \notin open
    BY <2>1, <2>2, SaveFh
  <2>4. Closing(fh)
    BY <2>1, <2>2 DEF Closing, Doing
  <2>5. ASSUME NEW v \in Workers, Middle(job[v]), job[v].fh = fh PROVE FALSE
    <3>1. v # w
      BY <2>1, <2>5 DEF Middle
    <3>2. job[v].kind = "release"
      BY <2>3, <2>5, MiddleJob DEF Middle
    <3> QED BY <2>2, <2>5, <3>1, <3>2 DEF IInv, OneRelease
  <2>6. JobsCalm
    BY <1>0, <2>1, JobsStepCalm
  <2> QED BY <1>0, <2>1, <2>3, <2>4, <2>5, <2>6, ClosePending
<1>11. ASSUME NEW w \in Workers, RepointSaved(w) PROVE PendingInv'
  <2> PICK k : k = job[w].ino
    OBVIOUS
  <2>1. /\ Commits(w) /\ Middle(job[w]) /\ job[w].pc = "repoint" /\ Saved(w)
        /\ Repoint(k, job[w].id, job[w].new) /\ UNCHANGED <<writer, handle, buffers, made>>
    BY <1>11 DEF RepointSaved, Saving, Commits, Middle
  <2>2. k \in Inos /\ handle[job[w].fh] = k
    BY <2>1, PlacedMade DEF AtPlace
  <2>3. /\ \A v \in Workers \ {w} : job'[v] = job[v]
        /\ ~Middle(job'[w])
        /\ Doing(w, "release", "close")' => job'[w].fh = job[w].fh
    <3>1. CASE job[w].kind = "release"
      <4>1. /\ job'[w] = [job[w] EXCEPT !.pc = "close"] /\ job[w] \in Job
            /\ \A v \in Workers \ {w} : job'[v] = job[v]
        BY <1>0, <2>1, <3>1 DEF Saved, GoTo, TypeOK
      <4>2. job'[w].pc = "close" /\ job'[w].fh = job[w].fh
        BY <4>1 DEF Job
      <4> QED BY <4>1, <4>2 DEF Middle
    <3>2. CASE job[w].kind # "release"
      <4>1. job'[w] = NoJob /\ \A v \in Workers \ {w} : job'[v] = job[v]
        BY <1>0, <2>1, <3>2 DEF Saved, End, TypeOK
      <4>2. ~Middle(NoJob) /\ NoJob.kind # "release"
        BY DEF Middle, NoJob
      <4> QED BY <4>1, <4>2 DEF Doing
    <3> QED BY <3>1, <3>2
  <2>4. JobsOn
    BY <2>3 DEF JobsOn
  <2>5. ASSUME NEW i \in Inos \ {k} PROVE CalmAt(i)
    <3>1. \A fh : Closing(fh)' => Closing(fh) \/ fh = job[w].fh
      BY <2>3 DEF Closing, Doing
    <3>2. Repointing(i) => Repointing(i)'
      BY <2>3 DEF Repointing, Saving, Commits
    <3> QED BY <2>1, <2>2, <3>1, <3>2 DEF CalmAt
  <2> QED BY <1>0, <2>1, <2>2, <2>4, <2>5, RepointPending DEF buffers
<1>12. ASSUME NEW w \in Workers, RepointCut(w) PROVE PendingInv'
  <2>1. /\ job[w].ino \in Inos /\ Repoint(job[w].ino, job[w].id, job[w].new)
        /\ End(w) /\ ~Saving(w, "repoint") /\ UNCHANGED <<writer, handle, buffers, made>>
    BY <1>12, JobIds DEF RepointCut, Doing, Saving, Commits
  <2>2. JobsOn /\ \A i : CalmAt(i)
    BY <1>0, <2>1, JobsStepCalm, CalmEverywhere DEF JobsCalm
  <2> QED BY <1>0, <2>1, <2>2, RepointPending DEF buffers
<1>13. ASSUME UNCHANGED <<inodes, writer, handle, target, committed>>, JobsCalm,
              made'.ino = made.ino, made'.file = made.file,
              \A f \in Files : gen'[f] \in {gen[f]} \cup (Nat \ {0})
       PROVE  PendingInv'
  BY <1>0, <1>13, QuietPending
<1>14. ASSUME UNCHANGED <<inodes, writer, handle, buffers, made>>, JobsCalm PROVE PendingInv'
  BY <1>13, <1>14 DEF buffers
<1>15. ASSUME NEW w \in Workers, RepointRenamed(w) PROVE PendingInv'
  <2> PICK i : i = inoOf[job[w].id]
    OBVIOUS
  <2>1. /\ job[w].id \in Ids /\ End(w) /\ ~Saving(w, "repoint")
        /\ UNCHANGED <<writer, handle, gen, committed, made>>
    BY <1>15, JobIds DEF RepointRenamed, Doing, Saving, Commits
  <2>2. JobsCalm /\ JobsOn /\ \A k : CalmAt(k)
    BY <1>0, <2>1, JobsStepCalm, CalmEverywhere DEF JobsCalm
  <2>3. CASE i = 0
    <3>1. UNCHANGED <<inodes, target>>
      BY <1>15, <2>3 DEF RepointRenamed
    <3> QED BY <1>14, <2>1, <2>2, <3>1 DEF buffers
  <2>4. CASE i # 0
    <3>1. i \in Inos
      BY <1>0, <2>1, <2>4 DEF TypeOK, OptIno
    <3>2. Repoint(i, job[w].id, job[w].new) /\ Retarget(writer[i].file, job[w].id, job[w].new)
      BY <1>15, <2>4 DEF RepointRenamed
    <3>3. \A f \in Files : f # writer[i].file => target'[f] = target[f]
      BY <1>0, <3>2 DEF Retarget, TypeOK
    <3> QED BY <1>0, <2>1, <2>2, <3>1, <3>2, <3>3, RepointPending
  <2> QED BY <2>3, <2>4
<1>16. ASSUME NEW w \in Workers, DiscardUnlinked(w) \/ DiscardVictim(w) PROVE PendingInv'
  <2>1. PICK id \in Ids : Unbind(id)
    <3>1. CASE DiscardUnlinked(w)
      BY <3>1, JobIds DEF DiscardUnlinked, Doing
    <3>2. CASE DiscardVictim(w)
      <4>1. Doing(w, "rename", "discard") /\ JobShape(w)
        BY <3>2 DEF DiscardVictim, IInv
      <4>2. job[w].victim \in Ids
        BY <1>0, <4>1 DEF JobShape, Doing, RenameJob, Commits, NoJob, TypeOK, Job, OptId
      <4> QED BY <3>2, <4>2 DEF DiscardVictim
    <3> QED BY <1>16, <3>1, <3>2
  <2>2. /\ UNCHANGED <<node, pending, writer, handle, committed, gen, made>>
        /\ ~Commits(w) /\ (End(w) \/ GoTo(w, "repoint"))
    BY <1>16 DEF DiscardUnlinked, DiscardVictim, Doing, Commits
  <2>3. JobsCalm
    BY <1>0, <2>2, JobsStepCalm DEF Saving
  <2> QED BY <1>0, <2>1, <2>2, <2>3, UnbindPending
<1>17. ASSUME NEW fh \in Fhs, Write(fh) PROVE PendingInv'
  <2>1. /\ gen' = [gen EXCEPT ![writer[handle[fh]].file] = made.ver + 1]
        /\ UNCHANGED <<inodes, writer, handle, target, committed, job>>
    BY <1>0, <1>17, NextNumbers DEF Write
  <2>2. made'.ino = made.ino /\ made'.file = made.file
    BY <1>0, <1>17 DEF Write, TypeOK, Counts
  <2>3. JobsCalm /\ \A f \in Files : gen'[f] \in {gen[f]} \cup (Nat \ {0})
    BY <1>0, <2>1, JobsStepCalm DEF TypeOK
  <2> QED BY <1>13, <2>1, <2>2, <2>3
<1>18. ASSUME SetLen PROVE PendingInv'
  <2>1. /\ gen' = [gen EXCEPT ![arc] = made.ver + 1]
        /\ UNCHANGED <<inodes, writer, handle, target, committed, job>>
    BY <1>0, <1>18, NextNumbers DEF SetLen
  <2>2. made'.ino = made.ino /\ made'.file = made.file
    BY <1>0, <1>18 DEF SetLen, TypeOK, Counts
  <2>3. JobsCalm /\ \A f \in Files : gen'[f] \in {gen[f]} \cup (Nat \ {0})
    BY <1>0, <2>1, JobsStepCalm DEF TypeOK
  <2> QED BY <1>13, <2>1, <2>2, <2>3
<1>19. ASSUME NEW n \in Names, NEW w \in Workers,
              OpenRemote(n, w) \/ TruncateRemote(n, w) \/ UnlinkRemote(n, w)
       PROVE  PendingInv'
  <2>1. UNCHANGED <<inodes, writer, handle, buffers, made>>
    BY <1>19 DEF OpenRemote, TruncateRemote, UnlinkRemote
  <2>2. PICK j : Start(w, j) /\ j.kind \notin {"flush", "release"} /\ j.pc # "close"
    <3> DEFINE o(i, id) == [NoJob EXCEPT !.kind = "open", !.pc = "attach", !.ino = i, !.id = id]
               t(i, id) == [NoJob EXCEPT !.kind = "truncate", !.pc = "upload", !.ino = i, !.id = id]
               u(id) == [NoJob EXCEPT !.kind = "unlink", !.pc = "delete", !.id = id, !.name = n]
    <3>1. \A i, id : /\ o(i, id).kind = "open" /\ o(i, id).pc = "attach"
                     /\ t(i, id).kind = "truncate" /\ t(i, id).pc = "upload"
                     /\ u(id).kind = "unlink" /\ u(id).pc = "delete"
      BY DEF NoJob
    <3>2. \/ Start(w, o(dentry[n], node[dentry[n]].id)) \/ Start(w, t(dentry[n], node[dentry[n]].id))
          \/ Start(w, u(Holder(n)))
      BY <1>19 DEF OpenRemote, TruncateRemote, UnlinkRemote
    <3> HIDE DEF o, t, u
    <3> QED BY <3>1, <3>2
  <2>3. JobsCalm
    BY <1>0, <2>2, JobsStepCalm DEF Middle
  <2> QED BY <1>14, <2>1, <2>3
<1>20. ASSUME NEW n \in Names, NEW to \in Names, NEW w \in Workers, Rename(n, to, w)
       PROVE  PendingInv'
  <2>1. UNCHANGED <<inodes, writer, handle, buffers, made>>
    BY <1>20 DEF Rename
  <2>2. PICK j : Start(w, j) /\ j.kind = "rename" /\ j.pc = "upload"
    <3> DEFINE j(old, v, victim) ==
                 [NoJob EXCEPT !.kind = "rename", !.pc = "upload", !.id = old, !.name = to,
                               !.ver = v, !.victim = victim]
    <3>1. \A old, v, victim : j(old, v, victim).kind = "rename" /\ j(old, v, victim).pc = "upload"
      BY DEF NoJob
    <3>2. Start(w, j(Holder(n), rec[Holder(n)].ver, Holder(to)))
      BY <1>20 DEF Rename
    <3> HIDE DEF j
    <3> QED BY <3>1, <3>2
  <2>3. JobsCalm
    BY <1>0, <2>2, JobsStepCalm DEF Middle
  <2> QED BY <1>14, <2>1, <2>3
<1>21. ASSUME NEW fh \in Fhs, NEW w \in Workers, Flush(fh, w) \/ ReleaseDirty(fh, w)
       PROVE  PendingInv'
  <2>1. UNCHANGED <<inodes, writer, handle, buffers, made>>
    BY <1>21 DEF Flush, ReleaseDirty
  <2>2. PICK j : Start(w, j) /\ j.pc = "lock"
    <3> DEFINE o(k) == [NoJob EXCEPT !.kind = k, !.pc = "lock", !.fh = fh]
    <3>1. \A k : o(k).pc = "lock"
      BY DEF NoJob
    <3>2. Start(w, o("flush")) \/ Start(w, o("release"))
      BY <1>21 DEF Flush, ReleaseDirty
    <3> HIDE DEF o
    <3> QED BY <3>1, <3>2
  <2>3. JobsCalm
    BY <1>0, <2>2, JobsStepCalm DEF Middle
  <2> QED BY <1>14, <2>1, <2>3
<1>22. ASSUME NEW w \in Workers, Upload(w) \/ UploadRenamed(w) \/ UploadCut(w) PROVE PendingInv'
  <2>1. /\ Landed(w) /\ (Commits(w) => job[w].pc \in {"create", "upload"})
        /\ UNCHANGED <<inodes, writer, handle, buffers>>
    BY <1>22 DEF Upload, UploadRenamed, UploadCut, Landed, Doing, Commits
  <2>2. made'.ino = made.ino /\ made'.file = made.file
    BY <1>0, <1>22 DEF Upload, UploadRenamed, UploadCut, TypeOK, Counts
  <2>3. JobsCalm
    BY <1>0, <2>1, JobsStepCalm
  <2> QED BY <1>13, <2>1, <2>2, <2>3 DEF buffers
<1>23. ASSUME NEW w \in Workers,
              UploadFails(w) \/ JobFails(w)
       PROVE  PendingInv'
  <2>1. /\ End(w) /\ ~Saving(w, "repoint") /\ UNCHANGED <<inodes, writer, handle, buffers, made>>
    BY <1>23 DEF UploadFails, JobFails, Saving, Commits
  <2>2. JobsCalm
    BY <1>0, <2>1, JobsStepCalm
  <2> QED BY <1>14, <2>1, <2>2
<1>24. ASSUME NEW w \in Workers, DropReplaced(w) \/ DropOld(w) \/ Delete(w) \/ KeepsVictim(w)
       PROVE  PendingInv'
  <2>1. /\ UNCHANGED <<inodes, writer, handle, buffers, made>>
        /\ \E p : GoTo(w, p) /\ (Commits(w) => p = "settle" /\ job[w].pc = "drop")
    BY <1>24 DEF DropReplaced, DropOld, Delete, KeepsVictim, Saving, Doing, Commits
  <2>2. JobsCalm
    BY <1>0, <2>1, JobsStepCalm
  <2> QED BY <1>14, <2>1, <2>2
<1>25. ASSUME NEW n \in Names, Truncate(n) \/ AddedElsewhere(n) PROVE PendingInv'
  <2>1. UNCHANGED <<inodes, writer, handle, buffers, job>>
    BY <1>25 DEF Truncate, AddedElsewhere
  <2>2. made'.ino = made.ino /\ made'.file = made.file
    BY <1>0, <1>25 DEF Truncate, AddedElsewhere, TypeOK, Counts
  <2>3. JobsCalm
    BY <1>0, <2>1, JobsStepCalm
  <2> QED BY <1>13, <2>1, <2>2, <2>3 DEF buffers
<1>26. ASSUME \/ \E fh \in Fhs : FlushClean(fh)
              \/ \E id \in Ids : RemovedElsewhere(id)
              \/ UNCHANGED vars
       PROVE  PendingInv'
  <2>1. UNCHANGED <<inodes, writer, handle, buffers, job, made>>
    BY <1>26 DEF FlushClean, RemovedElsewhere, vars
  <2>2. JobsCalm
    BY <1>0, <2>1, JobsStepCalm
  <2> QED BY <1>14, <2>1, <2>2
<1> QED
  BY <1>1, <1>2, <1>3, <1>4, <1>5, <1>7, <1>8, <1>9, <1>10, <1>11, <1>12, <1>15, <1>16, <1>17,
     <1>18, <1>19, <1>20, <1>21, <1>22, <1>23, <1>24, <1>25, <1>26
  DEF Next, Request, JobStep, CommitStep, OtherStep

\* At the start no file is unsaved.
LEMMA PendingInit == Init => PendingInv
<1> SUFFICES ASSUME Init PROVE PendingInv
  OBVIOUS
<1>1. /\ \A w \in Workers : job[w] = NoJob
      /\ \A i \in Inos : writer[i] = NoWriter
      /\ \A id \in Ids : inoOf[id] = 0
      /\ \A n \in Names : pending[n] = 0
      /\ \A f \in Files : committed[f] = 0
      /\ made.file = 0
  BY DEF Init
<1>2. ~Middle(NoJob) /\ NoWriter.file = 0
  BY DEF NoJob, Middle, NoWriter
<1> QED BY <1>1, <1>2 DEF PendingInv, Owned, Placed, Linked, Blank

\* A name that only exists here, created and not saved yet, always leads to an inode that knows
\* the name and has a buffer with a file to become: no release of another handle takes the
\* buffer away before the save says that the record is there, and no unlink, rename or late
\* repoint takes its target.  An open of the name is not answered with EIO.
THEOREM PendingHasBuffer == Spec => []PendingIsBuffered
<1> DEFINE Inv == IInv /\ UnusedIsNowhere /\ PendingInv
<1>1. Init => Inv
  BY InitInv, SavedInit, PendingInit
<1>2. Inv /\ [Next]_vars => Inv'
  BY NextInv, UnusedNext, PendingNext
<1>3. Inv => PendingIsBuffered
  BY DEF PendingInv, Buffered, Unsaved, PendingIsBuffered
<1> QED BY <1>1, <1>2, <1>3, PTL DEF Spec
=============================================================================
