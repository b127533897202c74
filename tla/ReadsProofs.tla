----------------------------- MODULE ReadsProofs -----------------------------
(***************************************************************************)
(* Proofs about Reads.tla: types; that no file and no chunk is loaded      *)
(* twice at a time and every claim has a thread that lets go of it; that   *)
(* permits, slots and threads are given back; that a read finds what it    *)
(* has made sure of and gives the bytes of its own file; and the caches.   *)
(***************************************************************************)
EXTENDS Reads, FoldLemmas

(* Types. *)

\* The cache of small files with some of the ids in it: what is under an id follows.
Entries(D) == [id \in D |-> [of |-> ContentOf(id), size |-> world.size[id]]]
Keys     == [id : Ids, live : BOOLEAN]
Larges   == [map : UNION {[D -> Nat] : D \in SUBSET Ids}, order : Seq(Ids)]
States   == UNION {[0 .. (n - 1) -> {"missing", "loading", "ready"}] : n \in Nat}
Objects  == [of : Ids, whole : BOOLEAN, from : Ids, chunks : Nat, state : States,
             tried : SUBSET Nat, have : SUBSET Nat]
OpenFiles == [id : Ids, pin : {None, "mem", "large"}, obj : Nat]

\* The fields of requests, and the values of some.
IsReq(j) ==
  /\ {"pc", "h", "id", "lo", "hi", "at", "via", "obj", "tries", "before", "got", "ok", "permit"}
       \subseteq DOMAIN j
  /\ {j.lo, j.hi, j.at, j.obj} \subseteq Nat /\ {j.ok, j.permit} \subseteq BOOLEAN

Typed ==
  /\ world \in Worlds /\ index \cup stored \cup loading \subseteq Ids
  /\ objs \in Seq(Objects)
  /\ handle \in [Handles -> OpenFiles]
  /\ DOMAIN req = Reqs /\ (\A r \in Reqs : IsReq(req[r]))
  /\ IsFiniteSet(ahead) /\ (\A x \in ahead : IsReq(x))
  /\ burst \in [running : Int, queue : Seq(Reqs)] /\ ioq \in Seq(Reqs)
  /\ free \in [permits : Int, slots : Int]
  /\ mover \in [pc : {"idle", "rekey", "forget", "repoint", "done"},
                old : Ids \cup {None}, new : Ids \cup {None}]
  /\ reads \in 0 .. MaxReads /\ faults \in 0 .. MaxFaults

\* A rename is one of a file that was there from the start.
Renaming ==
  IF mover.pc = "idle" THEN index = {id \in Ids : world.from[id] = None}
  ELSE mover.old \in Ids /\ mover.new \in Ids /\ ContentOf(mover.old) = ContentOf(mover.new)

(* Objects and what refers to them. *)

Shaped ==
  \A o \in DOMAIN objs :
    /\ ~Small(objs[o].of) /\ objs[o].chunks = world.size[objs[o].of]
    /\ DOMAIN objs[o].state = 0 .. (objs[o].chunks - 1)
    /\ objs[o].have \cup objs[o].tried \subseteq DOMAIN objs[o].state
    /\ \A i \in DOMAIN objs[o].state : objs[o].state[i] = "ready" => i \in objs[o].have

Points(o, id) == o \in DOMAIN objs /\ objs[o].of = ContentOf(id)

\* x is in the sequence; and it is at one place at most.
Has(o, x)  == \E k \in DOMAIN o : o[k] = x
Once(o, x) == \A k, l \in DOMAIN o : o[k] = x /\ o[l] = x => k = l

\* What is cached of small files has one live key each, and the total counts it.
Bulk(D) == SumFunctionOnSet(world.size, D)
Booked(D, o, t) ==
  /\ D \subseteq Ids /\ IsFiniteSet(D) /\ o \in Seq(Keys) /\ t \in Int
  /\ \A id \in Ids : Once(o, Live(id)) /\ (id \in D <=> Has(o, Live(id)))
  /\ Bulk(D) <= t
Book(c) ==
  /\ Booked(DOMAIN c.entries, c.order, c.total)
  /\ c = [entries |-> Entries(DOMAIN c.entries), order |-> c.order, total |-> c.total]

\* What is cached of large files is that file, and in the order.
Shelf(l) ==
  /\ l \in Larges
  /\ \A id \in DOMAIN l.map : Points(l.map[id], id) /\ Has(l.order, id)

Cachings == Book(cache) /\ Bulk(DOMAIN cache.entries) <= MaxBytes /\ Shelf(large)

Pinned == \A h \in Handles : handle[h].pin = "large" => Points(handle[h].obj, handle[h].id)

(* Requests. *)

Reading  == {"read", "ensure", "slot", "fetch", "loaded", "ahead", "copy", "enforce"}
InFlight == {"again", "work", "check", "put", "unclaim"}
Steps    == {"queued", "answer", "cached", "permit", "info", "look", "claim", "wait", "pin"}
              \cup InFlight \cup Reading

\* The request is of a file, and of the handle's file if it has one.
Aimed(j) ==
  /\ j.pc \in Steps /\ j.id \in Ids /\ j.via \in {"net", "io", "none", "prefetch"}
  /\ j.via = "prefetch" => Small(j.id)
  /\ j.via \in {"net", "io"} => j.h \in Handles /\ ContentOf(handle[j.h].id) = ContentOf(j.id)
  /\ j.lo <= j.hi /\ (Small(j.id) \/ j.hi < world.size[j.id])

\* Where a request has a LargeFile.
HasFile(j) ==
  \/ j.pc \in Reading \/ (j.pc = "queued" /\ j.via = "io")
  \/ j.pc \in {"check", "put", "pin"} /\ ~Small(j.id)
  \/ j.pc = "unclaim" /\ j.ok /\ ~Small(j.id)

\* The chunks a .. b are ready.
Ready(o, a, b) == \A i \in a .. b : i \in DOMAIN objs[o].state /\ objs[o].state[i] = "ready"

Progress(j) ==
  /\ j.pc \in {"ensure", "slot", "fetch", "loaded"} =>
       /\ j.lo <= j.at /\ Ready(j.obj, j.lo, j.at - 1)
       /\ IF j.pc = "ensure" THEN j.at <= j.hi + 1 ELSE j.at <= j.hi
  /\ j.pc = "ahead" => j.hi < j.at /\ Ready(j.obj, j.lo, j.hi)
  /\ j.pc = "copy"  => objs[j.obj].whole \/ Ready(j.obj, j.lo, j.hi)
  /\ j.pc = "loaded" /\ j.ok => j.at \in objs[j.obj].have

ReqOk(j) ==
  /\ j.pc # "idle" => Aimed(j)
  /\ HasFile(j) => Points(j.obj, j.id)
  /\ j.pc \in {"idle", "queued", "cached", "permit"} => ~j.permit
  /\ Progress(j)
  /\ j.got # None => j.got = ContentOf(j.id)

Requests == \A r \in Reqs : ReqOk(req[r])

(* Flights and loads. *)

Flights ==
  /\ \A r \in Reqs : Flying(r) => req[r].id \in loading
  /\ \A id \in loading : \E r \in Reqs : Flying(r) /\ req[r].id = id
  /\ \A r, s \in Reqs : Flying(r) /\ Flying(s) /\ req[r].id = req[s].id => r = s

LoadsAt(x, o, i) == Loads(x) /\ x.obj = o /\ x.at = i
Fetched(x) == x.pc = "loaded" /\ x.ok => x.at \in objs[x.obj].have
Claimed(x) == x.obj \in DOMAIN objs /\ x.at \in DOMAIN objs[x.obj].state
              /\ objs[x.obj].state[x.at] = "loading"

\* Those that load are a request or a read-ahead thread for each chunk being loaded.
Loaders ==
  /\ \A r \in Reqs : Loads(req[r]) => Claimed(req[r])
  /\ \A x \in ahead : Loads(x) /\ ~x.permit /\ Claimed(x) /\ Fetched(x)
  /\ \A o \in DOMAIN objs : \A i \in DOMAIN objs[o].state :
       objs[o].state[i] = "loading" =>
         \/ \E r \in Reqs : LoadsAt(req[r], o, i)
         \/ \E x \in ahead : LoadsAt(x, o, i)
  /\ \A r, s \in Reqs : Loads(req[r]) /\ LoadsAt(req[s], req[r].obj, req[r].at) => r = s
  /\ \A x, y \in ahead : LoadsAt(y, x.obj, x.at) => x = y
  /\ \A r \in Reqs, x \in ahead : Loads(req[r]) => ~LoadsAt(x, req[r].obj, req[r].at)

(* Queues, permits, slots and threads. *)

Queued(q, via) ==
  /\ \A k \in DOMAIN q : req[q[k]].pc = "queued" /\ req[q[k]].via = via
  /\ \A k, l \in DOMAIN q : q[k] = q[l] => k = l
Queues ==
  /\ Queued(burst.queue, "net") /\ Queued(ioq, "io")
  /\ burst.queue # << >> => burst.running = NetWorkers

Permitted  == {r \in Reqs : req[r].permit}
Slotted    == {r \in Reqs : HasSlot(req[r])}
SlotsAhead == {x \in ahead : HasSlot(x)}
NetThreads == {r \in Reqs : req[r].via = "net" /\ req[r].pc \notin {"idle", "queued"}}
Counts ==
  /\ free.permits + Cardinality(Permitted) = Permits
  /\ free.slots + Cardinality(Slotted) + Cardinality(SlotsAhead) = ChunkSlots
  /\ burst.running = Cardinality(NetThreads) /\ burst.running <= NetWorkers

RInv == Typed /\ Renaming /\ Shaped /\ Cachings /\ Pinned /\ Requests /\ Flights /\ Loaders
        /\ Queues /\ Counts

-----------------------------------------------------------------------------
(* Sequences. *)

\* What a loop that skips x has made of the first k places.
Skipped(o, x, k, w) ==
  /\ \A j \in DOMAIN w : \E i \in 1 .. k : w[j] = o[i] /\ o[i] # x
  /\ \A i \in 1 .. k : o[i] # x => Has(w, o[i])
  /\ \A y : (\A i, j \in 1 .. k : o[i] = y /\ o[j] = y => i = j) => Once(w, y)

LEMMA SkipOne ==
  ASSUME NEW K, NEW o \in Seq(K), NEW x, NEW k \in 1 .. Len(o), NEW v \in Seq(K),
         Skipped(o, x, k - 1, v), NEW w, w = IF o[k] = x THEN v ELSE Append(v, o[k])
  PROVE  w \in Seq(K) /\ Skipped(o, x, k, w)
<1>0. 1 .. k = (1 .. (k - 1)) \cup {k} /\ k \notin 1 .. (k - 1) /\ o[k] \in K
  OBVIOUS
<1>1. CASE o[k] = x
  BY <1>0, <1>1 DEF Skipped
<1>2. CASE o[k] # x
  <2>0. w = Append(v, o[k])
    BY <1>2
  <2>1. /\ w \in Seq(K) /\ DOMAIN w = (DOMAIN v) \cup {Len(v) + 1} /\ w[Len(v) + 1] = o[k]
        /\ Len(v) + 1 \notin DOMAIN v /\ \A j \in DOMAIN v : w[j] = v[j]
    BY <1>0, <2>0
  <2>2. \A j \in DOMAIN w : \E i \in 1 .. k : w[j] = o[i] /\ o[i] # x
    BY <1>0, <1>2, <2>1 DEF Skipped
  <2>3. ASSUME NEW i \in 1 .. k, o[i] # x PROVE Has(w, o[i])
    <3>1. CASE i = k
      BY <2>1, <3>1 DEF Has
    <3>2. CASE i # k
      <4>1. Has(v, o[i])
        BY <1>0, <2>3, <3>2 DEF Skipped
      <4> QED BY <2>1, <4>1 DEF Has
    <3> QED BY <3>1, <3>2
  <2>4. ASSUME NEW y, \A i, j \in 1 .. k : o[i] = y /\ o[j] = y => i = j
        PROVE  Once(w, y)
    <3>1. Once(v, y)
      BY <1>0, <2>4 DEF Skipped
    <3>2. CASE y = o[k]
      <4>1. \A j \in DOMAIN v : v[j] # y
        BY <1>0, <2>4, <3>2 DEF Skipped
      <4> QED BY <2>1, <4>1 DEF Once
    <3>3. CASE y # o[k]
      BY <2>1, <3>1, <3>3 DEF Once
    <3> QED BY <3>2, <3>3
  <2> QED BY <2>1, <2>2, <2>3, <2>4 DEF Skipped
<1> QED BY <1>1, <1>2

\* A sequence that x is dropped from.
LEMMA DroppedIs ==
  ASSUME NEW K, NEW o \in Seq(K), NEW x, NEW w, w = Dropped(o, x)
  PROVE  /\ w \in Seq(K)
         /\ \A y : Has(w, y) <=> (y # x /\ Has(o, y))
         /\ \A y : Once(o, y) => Once(w, y)
<1> DEFINE n == Len(o)
           G == [k \in 1 .. n |-> [v \in Seq(K) |-> IF o[k] = x THEN v ELSE Append(v, o[k])]]
           Def(f) == [s \in SUBSET DOMAIN o |->
                        IF s = {} THEN << >>
                        ELSE LET i == Max(s)
                             IN IF o[i] = x THEN f[s \ {i}] ELSE Append(f[s \ {i}], o[i])]
<1>0. n \in Nat /\ DOMAIN o = 1 .. n /\ << >> \in Seq(K)
  OBVIOUS
<1>1. G \in [1 .. n -> [Seq(K) -> Seq(K)]]
  OBVIOUS
<1>2. PICK it : IsLoop(it, n, Seq(K), << >>, G)
  <2> HIDE DEF G, n
  <2> QED BY <1>0, <1>1, LoopExists
<1>3. \A k \in 1 .. n : \A v \in Seq(K) : G[k][v] = IF o[k] = x THEN v ELSE Append(v, o[k])
  OBVIOUS
<1> HIDE DEF G, n
<1>4. \A s \in SUBSET DOMAIN o : it[s] = IF s = {} THEN << >>
         ELSE IF o[Max(s)] = x THEN it[s \ {Max(s)}] ELSE Append(it[s \ {Max(s)}], o[Max(s)])
  BY <1>0, <1>2, <1>3, MaxIs DEF IsLoop
<1>5. it = Def(it)
  BY <1>0, <1>2, <1>4, Zenon DEF IsLoop
<1> DEFINE f == CHOOSE g : g = Def(g)
<1>6. f = Def(f)
  BY <1>5, Zenon
<1>7. w = f[DOMAIN o]
  BY Zenon DEF Dropped, FoldLeft, MapThenFoldSet
<1>8. ASSUME NEW s \in SUBSET (1 .. n), s = {} \/ f[s \ {Max(s)}] = it[s \ {Max(s)}]
      PROVE  f[s] = it[s]
  <2>1. f[s] = IF s = {} THEN << >>
         ELSE IF o[Max(s)] = x THEN f[s \ {Max(s)}] ELSE Append(f[s \ {Max(s)}], o[Max(s)])
    BY <1>0, <1>6
  <2> HIDE DEF f
  <2> QED BY <1>0, <1>4, <1>8, <2>1
<1> HIDE DEF f
<1>9. w = it[1 .. n]
  <2>1. Repeats(f, it, n)
    BY <1>8 DEF Repeats
  <2> QED BY <1>0, <1>7, <2>1, LoopSame
<1> DEFINE T == [k \in Nat |-> {v \in Seq(K) : Skipped(o, x, k, v)}]
<1>10. it[1 .. 0] \in T[0]
  <2>1. it[1 .. 0] = << >>
    BY <1>0, <1>2, LoopTurn
  <2>2. Skipped(o, x, 0, << >>)
    BY DEF Skipped, Has, Once
  <2> QED BY <1>0, <2>1, <2>2
<1>11. ASSUME NEW k \in 1 .. n, it[1 .. (k - 1)] \in T[k - 1] PROVE it[1 .. k] \in T[k]
  <2>1. it[1 .. (k - 1)] \in Seq(K) /\ Skipped(o, x, k - 1, it[1 .. (k - 1)])
    BY <1>0, <1>11
  <2>2. it[1 .. k] = G[k][it[1 .. (k - 1)]]
    BY <1>0, <1>2, LoopTurn
  <2>3. it[1 .. k] = IF o[k] = x THEN it[1 .. (k - 1)] ELSE Append(it[1 .. (k - 1)], o[k])
    BY <1>3, <2>1, <2>2
  <2>4. k \in 1 .. Len(o) /\ k \in Nat
    BY <1>0 DEF n
  <2>5. it[1 .. k] \in Seq(K) /\ Skipped(o, x, k, it[1 .. k])
    BY <2>1, <2>3, <2>4, SkipOne
  <2> QED BY <2>4, <2>5
<1>12. it[1 .. n] \in T[n]
  <2> HIDE DEF T
  <2> QED BY <1>0, <1>10, <1>11, FoldLeftIn
<1>13. w \in Seq(K) /\ Skipped(o, x, n, w)
  BY <1>0, <1>9, <1>12
<1>14. \A y : Has(w, y) <=> (y # x /\ Has(o, y))
  <2>1. ASSUME NEW j \in DOMAIN w PROVE w[j] # x /\ Has(o, w[j])
    BY <1>0, <1>13 DEF Skipped, Has
  <2>2. ASSUME NEW i \in 1 .. n, o[i] # x PROVE Has(w, o[i])
    BY <1>13, <2>2 DEF Skipped
  <2> QED BY <1>0, <2>1, <2>2 DEF Has
<1>15. \A y : Once(o, y) => Once(w, y)
  BY <1>0, <1>13, Zenon DEF Skipped, Once
<1> QED BY <1>13, <1>14, <1>15

LEMMA AppendIs ==
  ASSUME NEW K, NEW o \in Seq(K), NEW x \in K, NEW w, w = Append(o, x)
  PROVE  /\ w \in Seq(K)
         /\ \A y : Has(w, y) <=> (y = x \/ Has(o, y))
         /\ \A y : Once(o, y) /\ (y # x \/ ~Has(o, y)) => Once(w, y)
<1>1. /\ w \in Seq(K) /\ DOMAIN w = (DOMAIN o) \cup {Len(o) + 1} /\ w[Len(o) + 1] = x
      /\ Len(o) + 1 \notin DOMAIN o /\ \A j \in DOMAIN o : w[j] = o[j]
  OBVIOUS
<1>2. \A y : Has(w, y) <=> (y = x \/ Has(o, y))
  BY <1>1 DEF Has
<1>3. \A y : Once(o, y) /\ (y # x \/ ~Has(o, y)) => Once(w, y)
  BY <1>1 DEF Has, Once
<1> QED BY <1>1, <1>2, <1>3

LEMMA TailIs ==
  ASSUME NEW K, NEW o \in Seq(K), o # << >>, NEW w, w = Tail(o)
  PROVE  /\ w \in Seq(K) /\ Len(w) = Len(o) - 1 /\ Head(o) \in K /\ Has(o, Head(o))
         /\ \A y : Has(w, y) => Has(o, y)
         /\ \A y : Has(o, y) /\ y # Head(o) => Has(w, y)
         /\ \A y : Once(o, y) => Once(w, y) /\ (y = Head(o) => ~Has(w, y))
<1>1. /\ w \in Seq(K) /\ Len(w) = Len(o) - 1 /\ Head(o) \in K /\ Head(o) = o[1] /\ 1 \in DOMAIN o
      /\ DOMAIN o = 1 .. Len(o) /\ DOMAIN w = 1 .. (Len(o) - 1) /\ Len(o) \in Nat
      /\ \A j \in DOMAIN w : w[j] = o[j + 1]
  OBVIOUS
<1>2. \A j \in DOMAIN w : j + 1 \in DOMAIN o /\ j + 1 # 1
  BY <1>1
<1>3. \A j \in DOMAIN o : j # 1 => j - 1 \in DOMAIN w /\ w[j - 1] = o[j]
  BY <1>1
<1>4. \A y : Has(w, y) => Has(o, y)
  BY <1>1, <1>2 DEF Has
<1>5. ASSUME NEW y, Has(o, y), y # Head(o) PROVE Has(w, y)
  <2>1. PICK j \in DOMAIN o : o[j] = y
    BY <1>5 DEF Has
  <2> QED BY <1>1, <1>3, <1>5, <2>1 DEF Has
<1>6. ASSUME NEW y, Once(o, y) PROVE Once(w, y) /\ (y = Head(o) => ~Has(w, y))
  <2>1. \A j, l \in DOMAIN w : w[j] = y /\ w[l] = y => j = l
    <3>1. \A j, l \in DOMAIN w : w[j] = y /\ w[l] = y => j + 1 = l + 1
      BY <1>1, <1>2, <1>6 DEF Once
    <3> QED BY <1>1, <3>1
  <2>2. y = Head(o) => ~Has(w, y)
    BY <1>1, <1>2, <1>6 DEF Once, Has
  <2> QED BY <2>1, <2>2 DEF Once
<1> QED BY <1>1, <1>4, <1>5, <1>6, Zenon DEF Has

LEMMA AppendLive ==
  ASSUME NEW o \in Seq(Keys), NEW id \in Ids, NEW w, w = Append(o, Live(id))
  PROVE  /\ w \in Seq(Keys)
         /\ \A x \in Ids : Has(w, Live(x)) <=> (x = id \/ Has(o, Live(x)))
         /\ \A x \in Ids : Once(o, Live(x)) /\ (x # id \/ ~Has(o, Live(x))) => Once(w, Live(x))
<1>1. Live(id) \in Keys /\ \A x \in Ids : Live(x) = Live(id) => x = id
  BY DEF Live, Keys
<1>2. PICK k : k = Live(id)
  OBVIOUS
<1>3. k \in Keys /\ w = Append(o, k)
  BY <1>1, <1>2
<1>4. /\ w \in Seq(Keys)
      /\ \A y : Has(w, y) <=> (y = k \/ Has(o, y))
      /\ \A y : Once(o, y) /\ (y # k \/ ~Has(o, y)) => Once(w, y)
  BY <1>3, AppendIs, Zenon
<1> QED BY <1>1, <1>2, <1>4

LEMMA UnlinkedIs ==
  ASSUME NEW o \in Seq(Keys), NEW id, NEW w, w = Unlinked(o, id)
  PROVE  /\ w \in Seq(Keys)
         /\ \A y : Has(w, y) <=> (y # Live(id) /\ Has(o, y))
         /\ \A y : Once(o, y) => Once(w, y)
<1>1. PICK x : x = Live(id)
  OBVIOUS
<1>2. w = Dropped(o, x)
  BY <1>1 DEF Unlinked
<1> QED BY <1>1, <1>2, DroppedIs, Zenon

LEMMA DanglingIs ==
  ASSUME NEW o \in Seq(Keys), NEW id \in Ids, NEW w, w = Dangling(o, id)
  PROVE  /\ w \in Seq(Keys) /\ Len(w) = Len(o)
         /\ \A x \in Ids : Has(w, Live(x)) <=> (x # id /\ Has(o, Live(x)))
         /\ \A x \in Ids : Once(o, Live(x)) => Once(w, Live(x))
<1>1. /\ DOMAIN w = DOMAIN o
      /\ \A k \in DOMAIN o : w[k] = IF o[k] = Live(id) THEN [o[k] EXCEPT !.live = FALSE] ELSE o[k]
  BY DEF Dangling
<1>2. \A k \in DOMAIN o : o[k] \in Keys
  OBVIOUS
<1>3. \A k \in DOMAIN o : w[k] \in Keys /\ (o[k] = Live(id) => w[k].live = FALSE)
  BY <1>1, <1>2 DEF Keys, Live
<1>4. w \in Seq(Keys) /\ Len(w) = Len(o)
  <2>1. DOMAIN o = 1 .. Len(o) /\ Len(o) \in Nat
    OBVIOUS
  <2>2. w = [k \in 1 .. Len(o) |-> w[k]]
    BY <2>1 DEF Dangling
  <2> QED BY <1>1, <1>3, <2>1, <2>2
<1>5. \A x \in Ids : Live(x).live = TRUE /\ (Live(x) = Live(id) => x = id)
  BY DEF Live
<1>6. \A k \in DOMAIN o, x \in Ids : w[k] = Live(x) <=> (x # id /\ o[k] = Live(x))
  BY <1>1, <1>3, <1>5
<1> QED BY <1>1, <1>4, <1>6 DEF Has, Once

-----------------------------------------------------------------------------
(* The cache of small files. *)

\* Ids of one content are of one size and kind.
LEMMA WorldIs ==
  ASSUME world \in Worlds
  PROVE  /\ \A id \in Ids : /\ world.size[id] \in Nat /\ ContentOf(id) \in Ids
                            /\ world.size[ContentOf(id)] = world.size[id]
                            /\ Small(ContentOf(id)) <=> Small(id)
         /\ \A h \in Handles : world.open[h] \in Ids
         /\ {NetWorkers, Permits} \subseteq Nat \ {0} /\ {MaxReads, MaxFaults} \subseteq Nat
BY ReadsAssumption DEF Ids, ContentOf, Small, NetWorkers, Permits, MaxReads, MaxFaults

LEMMA BulkIs ==
  ASSUME world \in Worlds, NEW D, D \subseteq Ids, IsFiniteSet(D)
  PROVE  /\ Bulk(D) \in Nat
         /\ \A x \in D : IsFiniteSet(D \ {x}) /\ Bulk(D) = world.size[x] + Bulk(D \ {x})
         /\ \A x \in Ids \ D : IsFiniteSet(D \cup {x}) /\ Bulk(D \cup {x}) = Bulk(D) + world.size[x]
<1> DEFINE F == world.size
<1>1. \A x \in Ids : F[x] \in Nat
  BY WorldIs
<1>2. \A x \in D : F[x] \in Nat /\ F[x] \in Int
  BY <1>1
<1>3. Bulk(D) \in Nat
  BY <1>2, SumNat DEF Bulk
<1>4. ASSUME NEW x \in D PROVE IsFiniteSet(D \ {x}) /\ Bulk(D) = F[x] + Bulk(D \ {x})
  BY <1>2, SumTake, FS_RemoveElement DEF Bulk
<1>5. ASSUME NEW x \in Ids \ D PROVE IsFiniteSet(D \cup {x}) /\ Bulk(D \cup {x}) = Bulk(D) + F[x]
  <2>1. \A y \in D \cup {x} : F[y] \in Int
    BY <1>1
  <2>2. IsFiniteSet(D \cup {x})
    BY FS_AddElement
  <2>3. x \notin D
    OBVIOUS
  <2>4. SumFunctionOnSet(F, D \cup {x}) = SumFunctionOnSet(F, D) + F[x]
    BY <2>1, <2>3, SumPut
  <2> QED BY <2>2, <2>4 DEF Bulk
<1> QED BY <1>3, <1>4, <1>5

\* A cache from its parts.
LEMMA BookOf ==
  ASSUME NEW D, NEW o, NEW t, Booked(D, o, t), NEW c,
         c = [entries |-> Entries(D), order |-> o, total |-> t]
  PROVE  Book(c) /\ DOMAIN c.entries = D
BY DEF Book, Entries

\* Smaller entries are less in bytes.
LEMMA BookLess ==
  ASSUME world \in Worlds, NEW D, D \subseteq Ids, IsFiniteSet(D), NEW x \in Ids
  PROVE  Bulk(D \ {x}) <= Bulk(D) /\ Bulk(D \ {x}) \in Nat
<1>1. CASE x \in D
  <2>1. IsFiniteSet(D \ {x}) /\ Bulk(D) = world.size[x] + Bulk(D \ {x}) /\ world.size[x] \in Nat
    BY <1>1, BulkIs, WorldIs
  <2>2. Bulk(D) \in Nat /\ Bulk(D \ {x}) \in Nat
    BY <2>1, BulkIs
  <2> QED BY <2>1, <2>2
<1>2. CASE x \notin D
  <2>1. D \ {x} = D
    BY <1>2
  <2>2. Bulk(D) \in Nat
    BY BulkIs
  <2>3. Bulk(D \ {x}) = Bulk(D)
    BY <2>1, Zenon
  <2> QED BY <2>2, <2>3
<1> QED BY <1>1, <1>2

LEMMA BookHit ==
  ASSUME NEW c, Book(c), NEW id \in Ids, NEW d, d = Hit(c, id)
  PROVE  Book(d) /\ DOMAIN d.entries = DOMAIN c.entries
<1>0. PICK D : D = DOMAIN c.entries
  OBVIOUS
<1>1. Booked(D, c.order, c.total) /\ c = [entries |-> Entries(D), order |-> c.order, total |-> c.total]
  BY <1>0 DEF Book
<1>2. CASE Live(id) \in Range(c.order)
  <2>1. PICK u : u = Unlinked(c.order, id)
    OBVIOUS
  <2>2. PICK w : w = Append(u, Live(id))
    OBVIOUS
  <2>3. d = [entries |-> Entries(D), order |-> w, total |-> c.total]
    <3>1. d = [c EXCEPT !.order = w]
      BY <1>2, <2>1, <2>2 DEF Hit
    <3>2. PICK o, n : o = c.order /\ n = c.total
      OBVIOUS
    <3>3. c = [entries |-> Entries(D), order |-> o, total |-> n]
      BY <1>1, <3>2, Zenon
    <3>4. d = [entries |-> Entries(D), order |-> w, total |-> n]
      BY <3>1, <3>3
    <3> QED BY <3>2, <3>4
  <2>4. Live(id) \in Keys /\ c.order \in Seq(Keys) /\ Has(c.order, Live(id))
    BY <1>1, <1>2 DEF Live, Keys, Booked, Range, Has
  <2>5. /\ u \in Seq(Keys) /\ (\A y : Has(u, y) <=> (y # Live(id) /\ Has(c.order, y)))
        /\ \A y : Once(c.order, y) => Once(u, y)
    BY <2>1, <2>4, UnlinkedIs
  <2>6. /\ w \in Seq(Keys)
        /\ \A x \in Ids : Has(w, Live(x)) <=> (x = id \/ Has(u, Live(x)))
        /\ \A x \in Ids : Once(u, Live(x)) /\ (x # id \/ ~Has(u, Live(x))) => Once(w, Live(x))
    BY <2>2, <2>5, AppendLive
  <2>7. \A x \in Ids : Live(x) = Live(id) => x = id
    BY DEF Live
  <2>8. Booked(D, w, c.total)
    BY <1>1, <2>4, <2>5, <2>6, <2>7 DEF Booked
  <2> QED BY <1>0, <2>3, <2>8, BookOf
<1>3. CASE Live(id) \notin Range(c.order)
  <2>1. d = [entries |-> Entries(D), order |-> c.order, total |-> c.total]
    BY <1>1, <1>3 DEF Hit
  <2> QED BY <1>0, <1>1, <2>1, BookOf
<1> QED BY <1>2, <1>3

LEMMA BookUncache ==
  ASSUME world \in Worlds, NEW c, Book(c), NEW id \in Ids, NEW d, d = Uncache(c, id)
  PROVE  Book(d) /\ DOMAIN d.entries = DOMAIN c.entries \ {id}
<1>0. PICK D : D = DOMAIN c.entries
  OBVIOUS
<1>1. Booked(D, c.order, c.total) /\ c = [entries |-> Entries(D), order |-> c.order, total |-> c.total]
  BY <1>0 DEF Book
<1>2. CASE id \in D
  <2>1. PICK w : w = Unlinked(c.order, id)
    OBVIOUS
  <2>2. Without(c.entries, id) = Entries(D \ {id}) /\ c.entries[id].size = world.size[id]
    BY <1>0, <1>1, <1>2 DEF Without, Restrict, Entries
  <2>3. d = [entries |-> Entries(D \ {id}), order |-> w, total |-> c.total - world.size[id]]
    BY <1>0, <1>1, <1>2, <2>1, <2>2 DEF Uncache, Cached
  <2>4. c.order \in Seq(Keys) /\ \A x \in Ids : Live(x) = Live(id) => x = id
    BY <1>1 DEF Booked, Live
  <2>5. /\ w \in Seq(Keys) /\ (\A y : Has(w, y) <=> (y # Live(id) /\ Has(c.order, y)))
        /\ \A y : Once(c.order, y) => Once(w, y)
    BY <2>1, <2>4, UnlinkedIs
  <2>6. /\ IsFiniteSet(D \ {id}) /\ Bulk(D) = world.size[id] + Bulk(D \ {id})
        /\ world.size[id] \in Nat /\ Bulk(D) <= c.total /\ c.total \in Int
    BY <1>1, <1>2, BulkIs, WorldIs DEF Booked
  <2>7. Bulk(D \ {id}) \in Nat
    BY <1>1, BookLess DEF Booked
  <2>8. Bulk(D \ {id}) <= c.total - world.size[id] /\ c.total - world.size[id] \in Int
    BY <2>6, <2>7
  <2>9. Booked(D \ {id}, w, c.total - world.size[id])
    BY <1>1, <2>4, <2>5, <2>6, <2>8 DEF Booked
  <2> QED BY <1>0, <2>3, <2>9, BookOf
<1>3. CASE id \notin D
  <2>1. D \ {id} = D /\ d = c
    BY <1>0, <1>3 DEF Uncache, Cached
  <2> QED BY <1>0, <2>1
<1> QED BY <1>2, <1>3

LEMMA BookEvict ==
  ASSUME world \in Worlds, NEW c, Book(c), c.order # << >>, NEW d, d = EvictOldest(c)
  PROVE  /\ Book(d) /\ DOMAIN d.entries \subseteq DOMAIN c.entries
         /\ Len(d.order) = Len(c.order) - 1
<1>0. PICK D : D = DOMAIN c.entries
  OBVIOUS
<1>1. Booked(D, c.order, c.total) /\ c = [entries |-> Entries(D), order |-> c.order, total |-> c.total]
  BY <1>0 DEF Book
<1>2. PICK t : t = Tail(c.order)
  OBVIOUS
<1>3. PICK h : h = Head(c.order)
  OBVIOUS
<1>4. c.order \in Seq(Keys)
  BY <1>1 DEF Booked
<1>5. /\ t \in Seq(Keys) /\ Len(t) = Len(c.order) - 1 /\ h \in Keys /\ Has(c.order, h)
      /\ \A y : Has(t, y) => Has(c.order, y)
      /\ \A y : Has(c.order, y) /\ y # h => Has(t, y)
      /\ \A y : Once(c.order, y) => Once(t, y) /\ (y = h => ~Has(t, y))
  BY <1>2, <1>3, <1>4, TailIs
<1>6. h.id \in Ids
  BY <1>5 DEF Keys
<1>7. \A x \in Ids : (h = Live(x) => h.id = x) /\ (Live(x) = Live(h.id) => x = h.id)
  BY DEF Live
<1>8. CASE h.id \in D
  <2>1. PICK w : w = Dangling(t, h.id)
    OBVIOUS
  <2>2. Without(c.entries, h.id) = Entries(D \ {h.id}) /\ c.entries[h.id].size = world.size[h.id]
    BY <1>0, <1>1, <1>8 DEF Without, Restrict, Entries
  <2>3. d = [entries |-> Entries(D \ {h.id}), order |-> w, total |-> c.total - world.size[h.id]]
    BY <1>0, <1>1, <1>2, <1>3, <1>8, <2>1, <2>2 DEF EvictOldest, Cached
  <2>4. /\ w \in Seq(Keys) /\ Len(w) = Len(t)
        /\ \A x \in Ids : Has(w, Live(x)) <=> (x # h.id /\ Has(t, Live(x)))
        /\ \A x \in Ids : Once(t, Live(x)) => Once(w, Live(x))
    BY <1>5, <1>6, <2>1, DanglingIs
  <2>5. /\ IsFiniteSet(D \ {h.id}) /\ Bulk(D) = world.size[h.id] + Bulk(D \ {h.id})
        /\ world.size[h.id] \in Nat /\ Bulk(D) <= c.total /\ c.total \in Int
    BY <1>1, <1>6, <1>8, BulkIs, WorldIs DEF Booked
  <2>6. Bulk(D \ {h.id}) \in Nat
    BY <1>1, <1>6, BookLess DEF Booked
  <2>7. Bulk(D \ {h.id}) <= c.total - world.size[h.id] /\ c.total - world.size[h.id] \in Int
    BY <2>5, <2>6
  <2>8. \A x \in Ids : x \in D \ {h.id} <=> Has(w, Live(x))
    BY <1>1, <1>5, <1>7, <2>4 DEF Booked
  <2>9. Booked(D \ {h.id}, w, c.total - world.size[h.id])
    BY <1>1, <1>5, <2>4, <2>5, <2>7, <2>8 DEF Booked
  <2>10. Len(w) = Len(c.order) - 1
    BY <1>5, <2>4
  <2>11. Book(d) /\ DOMAIN d.entries = D \ {h.id}
    BY <2>3, <2>9, BookOf
  <2>12. d.order = w
    BY <2>3
  <2> QED BY <1>0, <2>10, <2>11, <2>12
<1>9. CASE h.id \notin D
  <2>1. d = [entries |-> Entries(D), order |-> t, total |-> c.total]
    <3>1. d = [c EXCEPT !.order = t]
      BY <1>0, <1>2, <1>3, <1>9 DEF EvictOldest, Cached
    <3>2. PICK o, n : o = c.order /\ n = c.total
      OBVIOUS
    <3>3. c = [entries |-> Entries(D), order |-> o, total |-> n]
      BY <1>1, <3>2, Zenon
    <3>4. d = [entries |-> Entries(D), order |-> t, total |-> n]
      BY <3>1, <3>3
    <3> QED BY <3>2, <3>4
  <2>2. \A x \in Ids : Has(c.order, Live(x)) <=> Has(t, Live(x))
    BY <1>1, <1>5, <1>7, <1>9 DEF Booked
  <2>3. Booked(D, t, c.total)
    BY <1>1, <1>5, <2>2 DEF Booked
  <2>4. Book(d) /\ DOMAIN d.entries = D /\ d.order = t
    BY <2>1, <2>3, BookOf
  <2> QED BY <1>0, <1>5, <2>4
<1> QED BY <1>8, <1>9

LEMMA BookAdd ==
  ASSUME world \in Worlds, NEW c, Book(c), NEW id \in Ids, ~Cached(c, id), NEW d,
         d = [entries |-> With(c.entries, id, [of |-> ContentOf(id), size |-> world.size[id]]),
              order   |-> Append(c.order, Live(id)), total |-> c.total + world.size[id]]
  PROVE  Book(d) /\ DOMAIN d.entries = DOMAIN c.entries \cup {id}
<1>0. PICK D, o, n : D = DOMAIN c.entries /\ o = c.order /\ n = c.total
  OBVIOUS
<1>1. Booked(D, o, n) /\ c.entries = Entries(D) /\ id \notin D
  <2>1. Booked(D, o, n) /\ c = [entries |-> Entries(D), order |-> o, total |-> n]
    BY <1>0, Zenon DEF Book
  <2>2. c.entries = Entries(D)
    BY <2>1
  <2> QED BY <1>0, <2>1, <2>2 DEF Cached
<1>2. PICK w : w = Append(o, Live(id))
  OBVIOUS
<1>3. With(Entries(D), id, [of |-> ContentOf(id), size |-> world.size[id]]) = Entries(D \cup {id})
  BY DEF Entries, With
<1>4. d = [entries |-> Entries(D \cup {id}), order |-> w, total |-> n + world.size[id]]
  BY <1>0, <1>1, <1>2, <1>3
<1>5. o \in Seq(Keys) /\ \A x \in Ids : Live(x) \in Keys /\ (Live(x) = Live(id) => x = id)
  BY <1>1 DEF Booked, Live, Keys
<1>6. /\ w \in Seq(Keys)
      /\ \A x \in Ids : Has(w, Live(x)) <=> (x = id \/ Has(o, Live(x)))
      /\ \A x \in Ids : Once(o, Live(x)) /\ (x # id \/ ~Has(o, Live(x))) => Once(w, Live(x))
  BY <1>2, <1>5, AppendLive
<1>7. /\ IsFiniteSet(D \cup {id}) /\ Bulk(D \cup {id}) = Bulk(D) + world.size[id]
      /\ Bulk(D) \in Nat /\ world.size[id] \in Nat /\ Bulk(D) <= n /\ n \in Int
  BY <1>1, BulkIs, WorldIs DEF Booked
<1>8. Bulk(D \cup {id}) <= n + world.size[id] /\ n + world.size[id] \in Int
  BY <1>7
<1>9. \A x \in Ids : Once(w, Live(x)) /\ (x \in D \cup {id} <=> Has(w, Live(x)))
  BY <1>1, <1>5, <1>6 DEF Booked
<1>10. Booked(D \cup {id}, w, n + world.size[id])
  BY <1>1, <1>6, <1>7, <1>8, <1>9 DEF Booked
<1> QED BY <1>0, <1>4, <1>10, BookOf

\* insert evicts until the limit is kept, or nothing is cached.
LEMMA BookEvictAll ==
  ASSUME world \in Worlds, NEW c, Book(c), NEW d, d = EvictAll(c)
  PROVE  Book(d) /\ Bulk(DOMAIN d.entries) <= MaxBytes
<1> DEFINE n == Len(c.order)
           S == {b \in [entries : {Entries(D) : D \in SUBSET Ids}, order : Seq(Keys), total : Int] : Book(b)}
           Turn(b) == IF b.total > MaxBytes /\ b.order # << >> THEN EvictOldest(b) ELSE b
           G == [k \in 1 .. n |-> [b \in S |-> Turn(b)]]
           Def(f) == [s \in SUBSET DOMAIN c.order |->
                        IF s = {} THEN c
                        ELSE LET i == Max(s)
                             IN IF f[s \ {i}].total > MaxBytes /\ f[s \ {i}].order # << >>
                                THEN EvictOldest(f[s \ {i}]) ELSE f[s \ {i}]]
<1>0. n \in Nat /\ DOMAIN c.order = 1 .. n
  BY DEF Book, Booked
<1>a. ASSUME NEW b, Book(b) PROVE b \in S /\ b.order \in Seq(Keys) /\ b.total \in Int
  <2>1. PICK D, o, m : Booked(D, o, m) /\ b = [entries |-> Entries(D), order |-> o, total |-> m]
    BY <1>a, Zenon DEF Book
  <2>2. b \in [entries : {Entries(E) : E \in SUBSET Ids}, order : Seq(Keys), total : Int]
    BY <2>1 DEF Booked
  <2> QED BY <1>a, <2>1, <2>2 DEF Booked
<1>b. ASSUME NEW b, Book(b)
      PROVE  /\ Book(Turn(b)) /\ Len(Turn(b).order) >= Len(b.order) - 1
             /\ Turn(b).total <= MaxBytes \/ Len(Turn(b).order) <= Len(b.order) - 1
                \/ Len(Turn(b).order) = 0
  <2>0. Len(b.order) \in Nat /\ b.total \in Int /\ (b.order = << >> => Len(b.order) = 0)
    BY <1>a, <1>b
  <2>1. CASE b.total > MaxBytes /\ b.order # << >>
    <3>1. Turn(b) = EvictOldest(b)
      BY <2>1
    <3>2. Book(EvictOldest(b)) /\ Len(EvictOldest(b).order) = Len(b.order) - 1
      BY <1>b, <2>1, BookEvict
    <3> HIDE DEF Turn
    <3> QED BY <2>0, <3>1, <3>2
  <2>2. CASE ~(b.total > MaxBytes /\ b.order # << >>)
    <3>1. Turn(b) = b
      BY <2>2
    <3> HIDE DEF Turn
    <3> QED BY <1>b, <2>0, <2>2, <3>1, ReadsAssumption
  <2> QED BY <2>1, <2>2
<1>1. G \in [1 .. n -> [S -> S]]
  <2>1. \A b \in S : Turn(b) \in S
    <3> HIDE DEF Turn
    <3> QED BY <1>a, <1>b
  <2> HIDE DEF S, Turn
  <2> QED BY <2>1
<1>2. c \in S
  BY <1>a
<1>3. \A k \in 1 .. n : \A b \in S : G[k][b] = Turn(b)
  OBVIOUS
<1> HIDE DEF G, n, S
<1>4. PICK it : IsLoop(it, n, S, c, G)
  BY <1>0, <1>1, <1>2, LoopExists
<1>5. \A s \in SUBSET DOMAIN c.order :
         it[s] = IF s = {} THEN c ELSE Turn(it[s \ {Max(s)}])
  <2> HIDE DEF Turn
  <2> QED BY <1>0, <1>3, <1>4, MaxIs DEF IsLoop
<1>6. it = Def(it)
  BY <1>0, <1>4, <1>5, Zenon DEF IsLoop
<1> DEFINE f == CHOOSE g : g = Def(g)
<1>7. f = Def(f)
  BY <1>6, Zenon
<1>8. d = f[DOMAIN c.order]
  BY Zenon DEF EvictAll, FoldLeft, MapThenFoldSet
<1>9. ASSUME NEW s \in SUBSET (1 .. n), s = {} \/ f[s \ {Max(s)}] = it[s \ {Max(s)}]
      PROVE  f[s] = it[s]
  <2>1. f[s] = IF s = {} THEN c ELSE Turn(f[s \ {Max(s)}])
    BY <1>0, <1>7
  <2> HIDE DEF f, Turn
  <2> QED BY <1>0, <1>5, <1>9, <2>1
<1> HIDE DEF f, Turn
<1>10. d = it[1 .. n]
  <2>1. Repeats(f, it, n)
    BY <1>9 DEF Repeats
  <2> QED BY <1>0, <1>8, <2>1, LoopSame
\* After k turns, at most n - k keys are left if the total does not fit.
<1> DEFINE T == [k \in Nat |-> {b \in S : b.total <= MaxBytes \/ Len(b.order) <= n - k \/ Len(b.order) = 0}]
<1>11. it[1 .. 0] \in T[0]
  <2>1. it[1 .. 0] = c
    BY <1>0, <1>4, LoopTurn
  <2>2. Len(c.order) <= n - 0
    BY <1>0 DEF n
  <2> QED BY <1>2, <2>1, <2>2
<1>12. ASSUME NEW k \in 1 .. n, it[1 .. (k - 1)] \in T[k - 1] PROVE it[1 .. k] \in T[k]
  <2>1. PICK b : b = it[1 .. (k - 1)]
    OBVIOUS
  <2>2. b \in S /\ (b.total <= MaxBytes \/ Len(b.order) <= n - (k - 1) \/ Len(b.order) = 0)
    BY <1>0, <1>12, <2>1
  <2>3. Book(b) /\ b.order \in Seq(Keys) /\ b.total \in Int
    BY <1>a, <2>2 DEF S
  <2>4. it[1 .. k] = Turn(b)
    BY <1>0, <1>3, <1>4, <2>1, <2>2, LoopTurn
  <2>5. CASE b.total <= MaxBytes
    <3>1. Turn(b) = b
      BY <2>3, <2>5, ReadsAssumption DEF Turn
    <3> QED BY <1>0, <2>2, <2>4, <2>5, <3>1
  <2>6. CASE ~(b.total <= MaxBytes)
    <3>1. /\ Book(Turn(b)) /\ Len(Turn(b).order) >= Len(b.order) - 1
          /\ Turn(b).total <= MaxBytes \/ Len(Turn(b).order) <= Len(b.order) - 1
             \/ Len(Turn(b).order) = 0
      BY <1>b, <2>3
    <3>2. Turn(b) \in S /\ Turn(b).order \in Seq(Keys)
      BY <1>a, <3>1
    <3>3. Len(b.order) \in Nat /\ Len(Turn(b).order) \in Nat
      BY <2>3, <3>2
    <3>4. Turn(b).total <= MaxBytes \/ Len(Turn(b).order) <= n - k \/ Len(Turn(b).order) = 0
      BY <1>0, <2>2, <2>6, <3>1, <3>3
    <3> QED BY <1>0, <2>4, <3>2, <3>4
  <2> QED BY <2>5, <2>6
<1>13. it[1 .. n] \in T[n]
  <2> HIDE DEF T
  <2> QED BY <1>0, <1>11, <1>12, FoldLeftIn
<1>14. d \in S /\ (d.total <= MaxBytes \/ Len(d.order) <= n - n \/ Len(d.order) = 0)
  BY <1>0, <1>10, <1>13
<1>15. Book(d) /\ d.order \in Seq(Keys) /\ d.total \in Int
  BY <1>a, <1>14 DEF S
<1>16. CASE d.total <= MaxBytes
  <2>1. Bulk(DOMAIN d.entries) <= d.total /\ Bulk(DOMAIN d.entries) \in Nat
    BY <1>15, BulkIs DEF Book, Booked
  <2> QED BY <1>15, <1>16, <2>1, ReadsAssumption
<1>17. CASE ~(d.total <= MaxBytes)
  <2>1. Len(d.order) = 0
    BY <1>0, <1>14, <1>15, <1>17
  <2>2. d.order = << >>
    BY <1>15, <2>1
  <2>3. DOMAIN d.entries = {}
    BY <1>15, <2>2 DEF Book, Booked, Has
  <2>4. Bulk({}) = 0
    BY SumEmpty DEF Bulk
  <2> QED BY <1>15, <2>3, <2>4, ReadsAssumption
<1> QED BY <1>15, <1>16, <1>17

LEMMA BookInsert ==
  ASSUME world \in Worlds, NEW c, Book(c), Bulk(DOMAIN c.entries) <= MaxBytes, NEW id \in Ids,
         NEW d, d = CacheInsert(c, id)
  PROVE  Book(d) /\ Bulk(DOMAIN d.entries) <= MaxBytes
<1>1. PICK b : b = Uncache(c, id)
  OBVIOUS
<1>2. Book(b) /\ ~Cached(b, id)
  BY <1>1, BookUncache DEF Cached
<1>3. PICK a : a = [entries |-> With(b.entries, id, [of |-> ContentOf(id), size |-> world.size[id]]),
                    order   |-> Append(b.order, Live(id)), total |-> b.total + world.size[id]]
  OBVIOUS
<1>4. Book(a)
  BY <1>2, <1>3, BookAdd
<1>5. d = IF world.size[id] > MaxEntryBytes THEN c ELSE EvictAll(a)
  BY <1>1, <1>3, Zenon DEF CacheInsert
<1>6. Book(EvictAll(a)) /\ Bulk(DOMAIN EvictAll(a).entries) <= MaxBytes
  BY <1>4, BookEvictAll
<1> QED BY <1>5, <1>6

\* A rename leaves the bytes that are cached, or there were copies under both ids.
LEMMA BookRekey ==
  ASSUME world \in Worlds, NEW c, Book(c), Bulk(DOMAIN c.entries) <= MaxBytes,
         NEW old \in Ids, NEW new \in Ids, ContentOf(old) = ContentOf(new),
         NEW d, d = CacheRekey(c, old, new)
  PROVE  Book(d) /\ Bulk(DOMAIN d.entries) <= MaxBytes
<1>0. PICK D, o, n : D = DOMAIN c.entries /\ o = c.order /\ n = c.total
  OBVIOUS
<1>1. Booked(D, o, n) /\ c = [entries |-> Entries(D), order |-> o, total |-> n]
  BY <1>0, Zenon DEF Book
<1>2. CASE old \in D
  <2>1. PICK u : u = Unlinked(o, old)
    OBVIOUS
  <2>2. PICK v : v = Dangling(u, new)
    OBVIOUS
  <2>3. PICK w : w = Append(v, Live(new))
    OBVIOUS
  <2>4. PICK E : E = (D \ {old}) \cup {new}
    OBVIOUS
  <2>5. world.size[old] = world.size[new] /\ world.size[new] \in Nat
    BY WorldIs
  <2>6. With(Without(Entries(D), old), new, Entries(D)[old]) = Entries(E)
    BY <1>2, <2>4, <2>5 DEF With, Without, Restrict, Entries
  <2>7. d = [c EXCEPT !.entries = With(Without(@, old), new, @[old]),
                      !.order   = Append(Dangling(Unlinked(@, old), new), Live(new))]
    BY <1>0, <1>2 DEF CacheRekey, Cached
  <2>8. d = [entries |-> With(Without(Entries(D), old), new, Entries(D)[old]),
             order |-> w, total |-> n]
    BY <1>1, <2>1, <2>2, <2>3, <2>7
  <2>9. d = [entries |-> Entries(E), order |-> w, total |-> n]
    BY <2>6, <2>8
  <2>10. \A x \in Ids : (Live(x) = Live(old) => x = old)
    BY DEF Live
  <2>11. /\ u \in Seq(Keys) /\ (\A y : Has(u, y) <=> (y # Live(old) /\ Has(o, y)))
         /\ \A y : Once(o, y) => Once(u, y)
    BY <1>1, <2>1, UnlinkedIs DEF Booked
  <2>12. /\ v \in Seq(Keys)
         /\ \A x \in Ids : Has(v, Live(x)) <=> (x # new /\ Has(u, Live(x)))
         /\ \A x \in Ids : Once(u, Live(x)) => Once(v, Live(x))
    BY <2>2, <2>11, DanglingIs
  <2>13. /\ w \in Seq(Keys)
         /\ \A x \in Ids : Has(w, Live(x)) <=> (x = new \/ Has(v, Live(x)))
         /\ \A x \in Ids : Once(v, Live(x)) /\ (x # new \/ ~Has(v, Live(x))) => Once(w, Live(x))
    BY <2>3, <2>12, AppendLive
  <2>14. \A x \in Ids : Once(w, Live(x)) /\ (x \in E <=> Has(w, Live(x)))
    BY <1>1, <2>4, <2>10, <2>11, <2>12, <2>13 DEF Booked
  <2>15. /\ IsFiniteSet(D) /\ D \subseteq Ids /\ IsFiniteSet(D \ {old})
         /\ Bulk(D) = world.size[old] + Bulk(D \ {old}) /\ Bulk(D \ {old}) \in Nat
    BY <1>1, <1>2, BulkIs, BookLess DEF Booked
  <2>16. IsFiniteSet(E) /\ Bulk(E) <= Bulk(D) /\ Bulk(E) \in Nat /\ Bulk(D) \in Nat
    <3>1. CASE new \in D \ {old}
      <4>1. E = D \ {old}
        BY <2>4, <3>1
      <4> QED BY <2>5, <2>15, <4>1, BulkIs
    <3>2. CASE new \notin D \ {old}
      <4>1. PICK F : F = D \ {old}
        OBVIOUS
      <4>2. F \subseteq Ids /\ IsFiniteSet(F) /\ new \in Ids \ F /\ E = F \cup {new}
        BY <2>4, <2>15, <3>2, <4>1
      <4>3. IsFiniteSet(E) /\ Bulk(E) = Bulk(F) + world.size[new]
        BY <4>2, BulkIs
      <4>4. Bulk(D) = world.size[new] + Bulk(F) /\ Bulk(F) \in Nat
        BY <2>5, <2>15, <4>1
      <4> QED BY <2>5, <4>3, <4>4
    <3> QED BY <3>1, <3>2
  <2>17. Bulk(D) <= n /\ n \in Int /\ Bulk(D) <= MaxBytes /\ E \subseteq Ids /\ MaxBytes \in Nat
    BY <1>0, <1>1, <2>4, ReadsAssumption DEF Booked
  <2>18. Bulk(E) <= n /\ Bulk(E) <= MaxBytes
    BY <2>16, <2>17
  <2>19. Booked(E, w, n)
    BY <2>13, <2>14, <2>16, <2>17, <2>18 DEF Booked
  <2> QED BY <2>9, <2>18, <2>19, BookOf
<1>3. CASE old \notin D
  <2>1. d = c
    BY <1>0, <1>3 DEF CacheRekey, Cached
  <2> QED BY <2>1
<1> QED BY <1>2, <1>3

-----------------------------------------------------------------------------
(* The cache of large files. *)

LEMMA ShelfIs ==
  ASSUME NEW l, Shelf(l)
  PROVE  /\ DOMAIN l.map \subseteq Ids /\ l.map \in [DOMAIN l.map -> Nat] /\ l.order \in Seq(Ids)
         /\ l = [map |-> l.map, order |-> l.order]
         /\ \A id \in DOMAIN l.map : Points(l.map[id], id) /\ Has(l.order, id)
<1>1. l \in Larges
  BY DEF Shelf
<1>2. l = [map |-> l.map, order |-> l.order] /\ l.order \in Seq(Ids)
  BY <1>1 DEF Larges
<1>3. PICK D \in SUBSET Ids : l.map \in [D -> Nat]
  BY <1>1 DEF Larges
<1>4. DOMAIN l.map \subseteq Ids /\ l.map \in [DOMAIN l.map -> Nat]
  BY <1>3
<1> QED BY <1>2, <1>4, Zenon DEF Shelf

\* A cache from its parts.
LEMMA ShelfOf ==
  ASSUME NEW D, D \subseteq Ids, NEW m \in [D -> Nat], NEW o \in Seq(Ids),
         \A id \in D : Points(m[id], id) /\ Has(o, id), NEW l, l = [map |-> m, order |-> o]
  PROVE  Shelf(l)
<1>1. l \in Larges
  BY DEF Larges
<1>2. l.map = m /\ l.order = o /\ DOMAIN l.map = D
  OBVIOUS
<1> QED BY <1>1, <1>2, Zenon DEF Shelf

LEMMA RemoveAtIs ==
  ASSUME NEW K, NEW o \in Seq(K), NEW at \in DOMAIN o, NEW w, w = RemoveAt(o, at)
  PROVE  w \in Seq(K) /\ \A k \in DOMAIN o : k # at => Has(w, o[k])
<1> DEFINE a == SubSeq(o, 1, at - 1)
           b == SubSeq(o, at + 1, Len(o))
<1>0. at \in 1 .. Len(o) /\ Len(o) \in Nat /\ DOMAIN o = 1 .. Len(o)
  OBVIOUS
<1>1. a \in Seq(K) /\ Len(a) = at - 1 /\ \A k \in 1 .. (at - 1) : a[k] = o[k]
  BY <1>0
<1>2. b \in Seq(K) /\ Len(b) = Len(o) - at /\ \A k \in 1 .. (Len(o) - at) : b[k] = o[at + k]
  BY <1>0
<1>3. w = a \o b
  BY DEF RemoveAt
<1> HIDE DEF a, b
<1>4. /\ w \in Seq(K) /\ DOMAIN w = 1 .. (Len(o) - 1)
      /\ \A k \in 1 .. (at - 1) : w[k] = a[k]
      /\ \A k \in at .. (Len(o) - 1) : w[k] = b[k - (at - 1)]
  <2>1. w \in Seq(K) /\ Len(w) = Len(a) + Len(b)
    BY <1>1, <1>2, <1>3
  <2>2. /\ \A k \in 1 .. Len(a) : w[k] = a[k]
        /\ \A k \in (Len(a) + 1) .. (Len(a) + Len(b)) : w[k] = b[k - Len(a)]
    BY SMTT(20), <1>1, <1>2, <1>3
  <2>3. Len(a) + Len(b) = Len(o) - 1 /\ Len(a) + 1 = at /\ DOMAIN w = 1 .. Len(w)
    BY <1>0, <1>1, <1>2, <2>1
  <2> QED BY <1>0, <1>1, <2>1, <2>2, <2>3
<1>5. ASSUME NEW k \in DOMAIN o, k # at PROVE Has(w, o[k])
  <2>1. CASE k < at
    <3>1. k \in 1 .. (at - 1) /\ k \in DOMAIN w
      BY <1>0, <1>4, <2>1
    <3>2. w[k] = o[k]
      BY <1>1, <1>4, <3>1
    <3> QED BY <3>1, <3>2 DEF Has
  <2>2. CASE k > at
    <3>1. k - at \in 1 .. (Len(o) - at) /\ k - 1 \in at .. (Len(o) - 1) /\ k - 1 \in 1 .. (Len(o) - 1)
          /\ k - 1 - (at - 1) = k - at /\ at + (k - at) = k
      BY <1>0, <2>2
    <3>2. w[k - 1] = b[k - at] /\ b[k - at] = o[k] /\ k - 1 \in DOMAIN w
      BY <1>2, <1>4, <3>1
    <3> QED BY <3>1, <3>2 DEF Has
  <2> QED BY <1>0, <1>5, <2>1, <2>2
<1> QED BY <1>4, <1>5

LEMMA ShelfTouch ==
  ASSUME NEW l, Shelf(l), NEW id \in Ids, NEW m, m = Touch(l, id)
  PROVE  Shelf(m)
<1>1. PICK at : at = SelectInSeq(l.order, LAMBDA x : x = id)
  OBVIOUS
<1>2. m = IF at = 0 \/ Last(l.order) = id THEN l
          ELSE [l EXCEPT !.order = Append(RemoveAt(@, at), id)]
  BY <1>1, Zenon DEF Touch
<1>3. PICK D, p, o : D = DOMAIN l.map /\ p = l.map /\ o = l.order
  OBVIOUS
<1>4. /\ D \subseteq Ids /\ p \in [D -> Nat] /\ o \in Seq(Ids) /\ l = [map |-> p, order |-> o]
      /\ \A x \in D : Points(p[x], x) /\ Has(o, x)
  BY <1>3, ShelfIs, Zenon
<1>5. CASE at # 0 /\ Last(l.order) # id
  <2> DEFINE I == {i \in 1 .. Len(o) : o[i] = id}
  <2>1. at = IF I # {} THEN Min(I) ELSE 0
    BY <1>1, <1>3, Zenon DEF SelectInSeq
  <2>2. I # {} => Min(I) \in I
    <3>1. I \subseteq Nat
      OBVIOUS
    <3> HIDE DEF I
    <3>2. I # {} => \E n \in I : \A k \in I : n <= k
      BY <3>1, LeastNat
    <3> QED BY <3>2 DEF Min
  <2>3. at \in DOMAIN o /\ o[at] = id
    BY <1>4, <1>5, <2>1, <2>2
  <2>4. PICK u : u = RemoveAt(o, at)
    OBVIOUS
  <2>5. PICK w : w = Append(u, id)
    OBVIOUS
  <2>6. u \in Seq(Ids) /\ \A k \in DOMAIN o : k # at => Has(u, o[k])
    BY <1>4, <2>3, <2>4, RemoveAtIs
  <2>7. w \in Seq(Ids) /\ \A y : Has(w, y) <=> (y = id \/ Has(u, y))
    BY <2>5, <2>6, AppendIs
  <2>8. \A x \in D : Points(p[x], x) /\ Has(w, x)
    <3>1. \A x \in D : x = id \/ Has(u, x)
      BY <1>4, <2>3, <2>6 DEF Has
    <3> QED BY <1>4, <2>7, <3>1
  <2>9. m = [map |-> p, order |-> w]
    <3>1. m = [l EXCEPT !.order = w]
      BY <1>2, <1>3, <1>5, <2>4, <2>5
    <3> QED BY <1>4, <3>1
  <2> QED BY <1>4, <2>7, <2>8, <2>9, ShelfOf
<1>6. CASE ~(at # 0 /\ Last(l.order) # id)
  BY <1>2, <1>6
<1> QED BY <1>5, <1>6

LEMMA ShelfRemove ==
  ASSUME NEW l, Shelf(l), NEW id \in Ids, NEW m, m = LargeRemove(l, id)
  PROVE  Shelf(m) /\ DOMAIN m.map = DOMAIN l.map \ {id}
<1>3. PICK D, p, o : D = DOMAIN l.map /\ p = l.map /\ o = l.order
  OBVIOUS
<1>4. /\ D \subseteq Ids /\ p \in [D -> Nat] /\ o \in Seq(Ids) /\ l = [map |-> p, order |-> o]
      /\ \A x \in D : Points(p[x], x) /\ Has(o, x)
  BY <1>3, ShelfIs, Zenon
<1>5. CASE id \in D
  <2>0. PICK q : q = Without(p, id)
    OBVIOUS
  <2>1. PICK w : w = Dropped(o, id)
    OBVIOUS
  <2>2. m = [map |-> q, order |-> w]
    BY <1>3, <1>5, <2>0, <2>1 DEF LargeRemove
  <2>3. q \in [D \ {id} -> Nat] /\ \A x \in D \ {id} : q[x] = p[x]
    BY <1>4, <2>0 DEF Without, Restrict
  <2>4. w \in Seq(Ids) /\ \A y : Has(w, y) <=> (y # id /\ Has(o, y))
    BY <1>4, <2>1, DroppedIs
  <2>5. \A x \in D \ {id} : Points(q[x], x) /\ Has(w, x)
    BY <1>4, <2>3, <2>4
  <2>6. D \ {id} \subseteq Ids /\ DOMAIN m.map = D \ {id}
    BY <1>4, <2>2, <2>3
  <2> QED BY <1>3, <2>2, <2>3, <2>4, <2>5, <2>6, ShelfOf
<1>6. CASE id \notin D
  <2>1. m = l /\ D \ {id} = D
    BY <1>3, <1>6 DEF LargeRemove
  <2> QED BY <1>3, <2>1
<1> QED BY <1>5, <1>6

LEMMA ShelfDrop ==
  ASSUME NEW l, Shelf(l), NEW m, m = DropOldest(l)
  PROVE  Shelf(m)
<1>3. PICK D, p, o : D = DOMAIN l.map /\ p = l.map /\ o = l.order
  OBVIOUS
<1>4. /\ D \subseteq Ids /\ p \in [D -> Nat] /\ o \in Seq(Ids) /\ l = [map |-> p, order |-> o]
      /\ \A x \in D : Points(p[x], x) /\ Has(o, x)
  BY <1>3, ShelfIs, Zenon
<1>5. CASE LargeTotal(l) > MaxLarge /\ Len(l.order) > 1
  <2>1. PICK h, w : h = Head(o) /\ w = Tail(o)
    OBVIOUS
  <2>0. PICK q : q = Without(p, h)
    OBVIOUS
  <2>2. m = [map |-> q, order |-> w]
    BY <1>3, <1>5, <2>0, <2>1 DEF DropOldest
  <2>3. q \in [D \ {h} -> Nat] /\ \A x \in D \ {h} : q[x] = p[x]
    BY <1>4, <2>0 DEF Without, Restrict
  <2>4. w \in Seq(Ids) /\ \A y : Has(o, y) /\ y # h => Has(w, y)
    <3>1. o # << >>
      BY <1>3, <1>5
    <3> QED BY <1>4, <2>1, <3>1, TailIs
  <2>5. \A x \in D \ {h} : Points(q[x], x) /\ Has(w, x)
    BY <1>4, <2>3, <2>4
  <2>6. D \ {h} \subseteq Ids
    BY <1>4
  <2> QED BY <2>2, <2>3, <2>4, <2>5, <2>6, ShelfOf
<1>6. CASE ~(LargeTotal(l) > MaxLarge /\ Len(l.order) > 1)
  BY <1>6 DEF DropOldest
<1> QED BY <1>5, <1>6

LEMMA ShelfEnforce ==
  ASSUME NEW l, Shelf(l), NEW m, m = Enforce(l)
  PROVE  Shelf(m)
<1> DEFINE n == Len(l.order)
           S == {b \in Larges : Shelf(b)}
           G == [k \in 1 .. n |-> [b \in S |-> DropOldest(b)]]
           Def(f) == [s \in SUBSET DOMAIN l.order |->
                        IF s = {} THEN l ELSE LET i == Max(s) IN DropOldest(f[s \ {i}])]
<1>0. n \in Nat /\ DOMAIN l.order = 1 .. n
  BY ShelfIs
<1>1. \A b : Shelf(b) <=> b \in S
  BY DEF Shelf
<1>2. G \in [1 .. n -> [S -> S]]
  <2>1. \A b \in S : DropOldest(b) \in S
    BY <1>1, ShelfDrop
  <2> HIDE DEF S
  <2> QED BY <2>1
<1>3. l \in S
  BY <1>1
<1>4. \A k \in 1 .. n : \A b \in S : G[k][b] = DropOldest(b)
  OBVIOUS
<1> HIDE DEF G, n, S
<1>5. PICK it : IsLoop(it, n, S, l, G)
  BY <1>0, <1>2, <1>3, LoopExists
<1>6. \A s \in SUBSET DOMAIN l.order : it[s] = IF s = {} THEN l ELSE DropOldest(it[s \ {Max(s)}])
  BY <1>0, <1>4, <1>5, MaxIs DEF IsLoop
<1>7. it = Def(it)
  BY <1>0, <1>5, <1>6, Zenon DEF IsLoop
<1> DEFINE f == CHOOSE g : g = Def(g)
<1>8. f = Def(f)
  BY <1>7, Zenon
<1>9. m = f[DOMAIN l.order]
  BY Zenon DEF Enforce, FoldLeft, MapThenFoldSet
<1>10. ASSUME NEW s \in SUBSET (1 .. n), s = {} \/ f[s \ {Max(s)}] = it[s \ {Max(s)}]
       PROVE  f[s] = it[s]
  <2>1. f[s] = IF s = {} THEN l ELSE DropOldest(f[s \ {Max(s)}])
    BY <1>0, <1>8
  <2> HIDE DEF f
  <2> QED BY <1>0, <1>6, <1>10, <2>1
<1> HIDE DEF f
<1>11. m = it[1 .. n]
  <2>1. Repeats(f, it, n)
    BY <1>10 DEF Repeats
  <2> QED BY <1>0, <1>9, <2>1, LoopSame
<1>12. m \in S
  <2>1. DOMAIN l.order \in SUBSET DOMAIN l.order /\ it \in [SUBSET (1 .. n) -> S]
    BY <1>5 DEF IsLoop
  <2> QED BY <1>11, <2>1
<1> QED BY <1>1, <1>12

LEMMA ShelfInsert ==
  ASSUME NEW l, Shelf(l), NEW id \in Ids, NEW o, o \in Nat, Points(o, id),
         NEW m, m = LargeInsert(l, id, o)
  PROVE  Shelf(m)
<1>1. PICK b : b = LargeRemove(l, id)
  OBVIOUS
<1>2. Shelf(b)
  BY <1>1, ShelfRemove
<1>3. PICK D, p, q : D = DOMAIN b.map /\ p = b.map /\ q = b.order
  OBVIOUS
<1>4. /\ D \subseteq Ids /\ p \in [D -> Nat] /\ q \in Seq(Ids)
      /\ \A x \in D : Points(p[x], x) /\ Has(q, x)
  BY <1>2, <1>3, ShelfIs, Zenon
<1>0. PICK v : v = With(p, id, o)
  OBVIOUS
<1>5. PICK w : w = Append(q, id)
  OBVIOUS
<1>6. PICK a : a = [map |-> v, order |-> w]
  OBVIOUS
<1>7. m = Enforce(a)
  BY <1>0, <1>1, <1>3, <1>5, <1>6, Zenon DEF LargeInsert
<1>8. v \in [D \cup {id} -> Nat] /\ v[id] = o /\ \A x \in D \ {id} : v[x] = p[x]
  BY <1>0, <1>4 DEF With
<1>9. w \in Seq(Ids) /\ \A y : Has(w, y) <=> (y = id \/ Has(q, y))
  <2>1. PICK K : K = Ids
    OBVIOUS
  <2>2. q \in Seq(K) /\ id \in K
    BY <1>4, <2>1
  <2>3. w \in Seq(K) /\ \A y : Has(w, y) <=> (y = id \/ Has(q, y))
    BY ZenonT(40), <1>5, <2>2, AppendIs
  <2> QED BY <2>1, <2>3
<1>10. \A x \in D \cup {id} : Points(v[x], x) /\ Has(w, x)
  BY <1>4, <1>8, <1>9
<1>11. D \cup {id} \subseteq Ids
  BY <1>4
<1>12. Shelf(a)
  BY <1>6, <1>8, <1>9, <1>10, <1>11, ShelfOf
<1> QED BY <1>7, <1>12, ShelfEnforce

LEMMA ShelfRekey ==
  ASSUME NEW l, Shelf(l), NEW old \in Ids, NEW new \in Ids, ContentOf(old) = ContentOf(new),
         NEW m, m = LargeRekey(l, old, new)
  PROVE  Shelf(m)
<1>1. PICK D, p, o : D = DOMAIN l.map /\ p = l.map /\ o = l.order
  OBVIOUS
<1>2. /\ D \subseteq Ids /\ p \in [D -> Nat] /\ o \in Seq(Ids) /\ l = [map |-> p, order |-> o]
      /\ \A x \in D : Points(p[x], x) /\ Has(o, x)
  BY <1>1, ShelfIs, Zenon
<1>3. CASE old \in D
  <2>0. PICK u : u = Without(p, old)
    OBVIOUS
  <2>a. PICK z : z = p[old]
    OBVIOUS
  <2>b. PICK v : v = With(u, new, z)
    OBVIOUS
  <2>1. PICK w : w = [k \in DOMAIN o |-> IF o[k] = old THEN new ELSE o[k]]
    OBVIOUS
  <2>2. m = [map |-> v, order |-> w]
    BY <1>1, <1>3, <2>0, <2>a, <2>b, <2>1 DEF LargeRekey
  <2>4. PICK E : E = D \ {old}
    OBVIOUS
  <2>3. u \in [E -> Nat] /\ (\A x \in E : u[x] = p[x]) /\ z \in Nat /\ E \subseteq Ids
    <3>1. u \in [D \ {old} -> Nat] /\ \A x \in D \ {old} : u[x] = p[x]
      BY <1>2, <2>0 DEF Without, Restrict
    <3> QED BY <1>2, <1>3, <2>a, <2>4, <3>1
  <2>5. v \in [E \cup {new} -> Nat] /\ v[new] = p[old] /\ \A x \in E \ {new} : v[x] = p[x]
    <3>1. v \in [E \cup {new} -> Nat] /\ v[new] = z /\ \A x \in E \ {new} : v[x] = u[x]
      BY <2>b, <2>3 DEF With
    <3> QED BY <2>a, <2>3, <3>1
  <2>6. w \in Seq(Ids) /\ \A k \in DOMAIN o : k \in DOMAIN w /\ w[k] = IF o[k] = old THEN new ELSE o[k]
    <3>1. DOMAIN o = 1 .. Len(o) /\ Len(o) \in Nat /\ \A k \in DOMAIN o : o[k] \in Ids
      BY <1>2
    <3>2. w = [k \in 1 .. Len(o) |-> w[k]] /\ \A k \in 1 .. Len(o) : w[k] \in Ids
      BY <2>1, <3>1
    <3> QED BY <2>1, <3>1, <3>2
  <2>7. \A x \in E \cup {new} : Has(w, x)
    BY <1>2, <1>3, <2>4, <2>6 DEF Has
  <2>8. \A x \in E \cup {new} : Points(v[x], x)
    BY <1>2, <1>3, <2>4, <2>5 DEF Points
  <2>9. E \cup {new} \subseteq Ids
    BY <1>2, <2>4
  <2> QED BY <2>2, <2>5, <2>6, <2>7, <2>8, <2>9, ShelfOf
<1>4. CASE old \notin D
  BY <1>1, <1>4 DEF LargeRekey
<1> QED BY <1>3, <1>4

-----------------------------------------------------------------------------
(* Steps that leave most of the state alone. *)

\* Files keep what they are, and what is there of them stays there.
Grows ==
  \A o \in DOMAIN objs :
    /\ o \in DOMAIN objs' /\ objs'[o].of = objs[o].of /\ objs'[o].whole = objs[o].whole
    /\ DOMAIN objs'[o].state = DOMAIN objs[o].state /\ objs[o].have \subseteq objs'[o].have
    /\ \A i \in DOMAIN objs[o].state :
         objs[o].state[i] = "ready" => objs'[o].state[i] = "ready"

\* Handles may move to another id of the same bytes.
SameFiles == \A h \in Handles : ContentOf(handle'[h].id) = ContentOf(handle[h].id)

LEMMA GoToIs ==
  ASSUME RInv, NEW r \in Reqs, NEW p, GoTo(r, p), NEW k, k = [req[r] EXCEPT !.pc = p]
  PROVE  Go(r, k)
BY DEF RInv, Typed, GoTo, Go

LEMMA BookNext ==
  ASSUME Book(cache'), Bulk(DOMAIN cache'.entries) <= MaxBytes, Shelf(large'), Grows, UNCHANGED world
  PROVE  Cachings'
<1>1. Book(cache)'
  BY DEF Book, Booked, Entries, Keys, Bulk, Ids, ContentOf
<1>2. Bulk(DOMAIN cache.entries)' <= MaxBytes
  BY DEF Bulk
<1>3. \A o, id : Points(o, id) => Points(o, id)'
  BY DEF Points, Grows, ContentOf
<1>4. Shelf(large)'
  BY <1>3 DEF Shelf, Larges, Ids
<1> QED BY <1>1, <1>2, <1>4 DEF Cachings

LEMMA ReqKept ==
  ASSUME NEW j, ReqOk(j), Grows, SameFiles, UNCHANGED world
  PROVE  ReqOk(j)'
<1>0. \A id : Small(id)' <=> Small(id)
  BY DEF Small
<1>a. \A id : ContentOf(id)' = ContentOf(id)
  BY DEF ContentOf
<1>1. Aimed(j) => Aimed(j)'
  BY <1>0, <1>a DEF Aimed, Ids, SameFiles
<1>2. HasFile(j)' <=> HasFile(j)
  BY <1>0 DEF HasFile
<1>3. Points(j.obj, j.id) => Points(j.obj, j.id)'
  BY <1>a DEF Points, Grows
<1>4. Progress(j) /\ (HasFile(j) => Points(j.obj, j.id)) => Progress(j)'
  <2>1. \A o \in DOMAIN objs : \A a, b : Ready(o, a, b) => Ready(o, a, b)'
    BY DEF Ready, Grows
  <2>2. j.pc \in {"ensure", "slot", "fetch", "loaded", "ahead", "copy"} => HasFile(j)
    BY DEF HasFile, Reading
  <2> QED BY <2>1, <2>2 DEF Progress, Points, Grows
<1> QED BY <1>a, <1>1, <1>2, <1>3, <1>4 DEF ReqOk

\* A request goes from j to k: no claim, slot, permit, thread or place in a queue
\* comes or goes.
Plain(j, k) ==
  /\ IsReq(k) /\ k.id = j.id /\ k.via = j.via /\ k.permit = j.permit
  /\ {j.pc, k.pc} \cap {"idle", "queued", "slot", "fetch", "loaded"} = {}
  /\ j.pc \in InFlight <=> k.pc \in InFlight

\* No chunk begins or ceases to be loaded.
StillLoading ==
  /\ \A o \in DOMAIN objs : o \in DOMAIN objs' /\ DOMAIN objs'[o].state = DOMAIN objs[o].state
                            /\ objs[o].have \subseteq objs'[o].have
  /\ \A o \in DOMAIN objs' : \A i \in DOMAIN objs'[o].state :
       objs'[o].state[i] = "loading" =>
         o \in DOMAIN objs /\ i \in DOMAIN objs[o].state /\ objs[o].state[i] = "loading"
  /\ \A o \in DOMAIN objs : \A i \in DOMAIN objs[o].state :
       objs[o].state[i] = "loading" => objs'[o].state[i] = "loading"

LEMMA FlightsKept ==
  ASSUME RInv, \A s \in Reqs : Flying(s)' <=> Flying(s),
         \A s \in Reqs : Flying(s) => req'[s].id = req[s].id, UNCHANGED loading
  PROVE  Flights'
BY DEF RInv, Flights

LEMMA LoadersKept ==
  ASSUME RInv, \A s \in Reqs : Loads(req[s]) \/ Loads(req'[s]) => req'[s] = req[s],
         StillLoading, UNCHANGED ahead
  PROVE  Loaders'
<1>1. \A s \in Reqs : Loads(req'[s]) => req'[s] = req[s]
  OBVIOUS
<1>2. \A s \in Reqs : Loads(req[s]) => req'[s] = req[s]
  OBVIOUS
<1>3. \A x : Claimed(x) => Claimed(x)'
  BY DEF Claimed, StillLoading
<1>4. \A x \in ahead : Fetched(x) /\ Claimed(x) => Fetched(x)'
  BY DEF Fetched, Claimed, StillLoading
<1>5. Loaders
  BY DEF RInv
<1>6. /\ \A s \in Reqs : Loads(req[s])' => Claimed(req[s])'
      /\ \A x \in ahead' : Loads(x) /\ ~x.permit /\ Claimed(x)' /\ Fetched(x)'
  <2>1. \A s \in Reqs : Loads(req[s])' => Claimed(req'[s])
    BY <1>1, <1>5 DEF Loaders
  <2>2. \A s \in Reqs : Claimed(req'[s]) => Claimed(req[s])'
    BY DEF Claimed, StillLoading
  <2> QED BY <1>3, <1>4, <1>5, <2>1, <2>2 DEF Loaders
<1>7. \A o \in DOMAIN objs' : \A i \in DOMAIN objs'[o].state :
        objs'[o].state[i] = "loading" =>
          \/ \E s \in Reqs : LoadsAt(req'[s], o, i)
          \/ \E x \in ahead' : LoadsAt(x, o, i)
  BY <1>2, <1>5 DEF Loaders, LoadsAt, StillLoading
<1>8. /\ \A s, t \in Reqs : Loads(req'[s]) /\ LoadsAt(req'[t], req'[s].obj, req'[s].at) => s = t
      /\ \A s \in Reqs, x \in ahead : Loads(req'[s]) => ~LoadsAt(x, req'[s].obj, req'[s].at)
  BY <1>1, <1>5 DEF Loaders, LoadsAt
<1> QED BY <1>5, <1>6, <1>7, <1>8 DEF Loaders, LoadsAt, Loads

LEMMA QueuesKept ==
  ASSUME RInv, \A s \in Reqs : req[s].pc = "queued" => req'[s] = req[s],
         UNCHANGED <<world, burst, ioq>>
  PROVE  Queues'
<1>1. Queued(burst.queue, "net") /\ Queued(ioq, "io")
  BY DEF RInv, Queues
<1>2. burst.queue \in Seq(Reqs) /\ ioq \in Seq(Reqs)
  BY DEF RInv, Typed
<1>3. Queued(burst.queue, "net")' /\ Queued(ioq, "io")'
  <2>2. /\ \A n \in DOMAIN burst.queue : req'[burst.queue[n]] = req[burst.queue[n]]
        /\ \A n \in DOMAIN ioq : req'[ioq[n]] = req[ioq[n]]
    BY <1>1, <1>2 DEF Queued
  <2> QED BY <1>1, <2>2 DEF Queued
<1>4. burst'.queue # << >> => burst'.running = NetWorkers'
  BY DEF RInv, Queues, NetWorkers
<1> QED BY <1>3, <1>4 DEF Queues

LEMMA PlainStep ==
  ASSUME RInv, NEW r \in Reqs, NEW k, Plain(req[r], k), Go(r, k), StillLoading,
         UNCHANGED <<world, loading, ahead, burst, ioq, free>>
  PROVE  Flights' /\ Loaders' /\ Queues' /\ Counts'
<1>1. /\ DOMAIN req' = Reqs /\ DOMAIN req = Reqs /\ req'[r] = k
      /\ \A s \in Reqs : s # r => req'[s] = req[s]
  BY DEF RInv, Typed, Go
<1>2. \A s \in Reqs : req'[s].id = req[s].id /\ req'[s].via = req[s].via /\ req'[s].permit = req[s].permit
  BY <1>1 DEF Plain
<1>3. \A s \in Reqs : Flying(s)' <=> Flying(s)
  BY <1>1 DEF Plain, Flying, InFlight
<1>4. \A s \in Reqs : req[s].pc \in {"idle", "queued", "slot", "fetch", "loaded"} => req'[s] = req[s]
  BY <1>1 DEF Plain
<1>5. \A s \in Reqs : req'[s].pc \in {"idle", "queued", "slot", "fetch", "loaded"} => req'[s] = req[s]
  BY <1>1 DEF Plain
<1>6. Flights'
  BY <1>2, <1>3 DEF RInv, Flights
<1>7. Loaders'
  BY <1>4, <1>5, LoadersKept DEF Loads
<1>8. Queues'
  BY <1>4, QueuesKept
<1>9. Counts'
  <2>1. Permitted' = Permitted
    BY <1>2 DEF Permitted
  <2>2. Slotted' = Slotted
    BY <1>4, <1>5 DEF Slotted, HasSlot
  <2>3. SlotsAhead' = SlotsAhead
    BY DEF SlotsAhead
  <2>4. NetThreads' = NetThreads
    BY <1>2, <1>4, <1>5 DEF NetThreads
  <2> QED BY <2>1, <2>2, <2>3, <2>4, Zenon DEF RInv, Counts, Permits, NetWorkers
<1> QED BY <1>6, <1>7, <1>8, <1>9

\* A plain step that changes no file.
LEMMA PlainKeeps ==
  ASSUME RInv, NEW r \in Reqs, NEW k, Plain(req[r], k), ReqOk(k), Go(r, k), Cachings',
         SameFiles, handle' \in [Handles -> OpenFiles], Pinned',
         reads' \in 0 .. MaxReads, faults' \in 0 .. MaxFaults,
         UNCHANGED <<world, index, stored, objs, loading, ahead, burst, ioq, free, mover>>
  PROVE  RInv'
<1>1. Grows /\ StillLoading
  BY DEF Grows, StillLoading
<1>2. Flights' /\ Loaders' /\ Queues' /\ Counts'
  BY <1>1, PlainStep
<1>3. /\ DOMAIN req' = Reqs /\ req'[r] = k /\ \A s \in Reqs : s # r => req'[s] = req[s]
  BY DEF RInv, Typed, Go
<1>4. Requests'
  <2>1. \A s \in Reqs : ReqOk(req'[s])
    BY <1>3 DEF RInv, Requests
  <2>2. \A s \in Reqs : ReqOk(req'[s]) => ReqOk(req[s])'
    BY <1>1, ReqKept
  <2> QED BY <2>1, <2>2 DEF Requests
<1>5. Typed'
  <2>1. \A s \in Reqs : IsReq(req'[s])
    BY <1>3 DEF RInv, Typed, Plain
  <2> QED BY <1>3, <2>1 DEF RInv, Typed, Ids, IsReq, Objects, States, OpenFiles, MaxReads, MaxFaults
<1>6. Renaming' /\ Shaped'
  BY DEF RInv, Renaming, Shaped, Ids, ContentOf, Small
<1> QED BY <1>2, <1>4, <1>5, <1>6 DEF RInv

\* One that changes no handle.
LEMMA PlainMove ==
  ASSUME RInv, NEW r \in Reqs, NEW k, Plain(req[r], k), ReqOk(k), Go(r, k),
         Book(cache'), Bulk(DOMAIN cache'.entries) <= MaxBytes, Shelf(large'),
         faults' = faults \/ Fault,
         UNCHANGED <<world, index, stored, objs, loading, handle, ahead, burst, ioq, free, mover, reads>>
  PROVE  RInv'
<1>1. Grows /\ SameFiles
  BY DEF Grows, SameFiles
<1>2. Cachings'
  BY <1>1, BookNext
<1>3. handle' \in [Handles -> OpenFiles]
  BY DEF RInv, Typed
<1>4. Pinned'
  BY DEF RInv, Pinned, Points, ContentOf
<1>5. reads' \in 0 .. MaxReads /\ faults' \in 0 .. MaxFaults
  <2>1. reads \in 0 .. MaxReads /\ faults \in 0 .. MaxFaults /\ MaxFaults \in Nat /\ MaxReads \in Nat
    BY WorldIs DEF RInv, Typed
  <2> QED BY <2>1 DEF Fault
<1> QED BY <1>1, <1>2, <1>3, <1>4, <1>5, PlainKeeps

\* Only the request changes.
LEMMA PlainGo ==
  ASSUME RInv, NEW r \in Reqs, NEW k, Plain(req[r], k), ReqOk(k), Go(r, k),
         faults' = faults \/ Fault,
         UNCHANGED <<world, index, stored, cache, large, objs, loading, handle, ahead, burst, ioq,
                     free, mover, reads>>
  PROVE  RInv'
<1>1. Book(cache') /\ Bulk(DOMAIN cache'.entries) <= MaxBytes /\ Shelf(large')
  BY DEF RInv, Cachings
<1> QED BY <1>1, PlainMove

\* What a request in the invariant is.
LEMMA ReqIs ==
  ASSUME RInv, NEW r \in Reqs
  PROVE  IsReq(req[r]) /\ ReqOk(req[r])
BY DEF RInv, Typed, Requests

\* What the caches say is in them.
LEMMA CacheIs ==
  ASSUME NEW c, Book(c), NEW id, Cached(c, id)
  PROVE  c.entries[id].of = ContentOf(id)
<1>1. PICK D, o, t : D = DOMAIN c.entries /\ c = [entries |-> Entries(D), order |-> o, total |-> t]
  BY Zenon DEF Book
<1> QED BY <1>1 DEF Cached, Entries

-----------------------------------------------------------------------------
(* The steps of a request, one by one. *)

LEMMA InfoKeeps ==
  ASSUME RInv, NEW r \in Reqs, Info(r)
  PROVE  RInv'
<1>0. IsReq(req[r]) /\ ReqOk(req[r])
  BY ReqIs
<1>1. CASE req[r].id \in index
  <2>1. PICK k : k = [req[r] EXCEPT !.pc = "look"]
    OBVIOUS
  <2>2. Go(r, k)
    BY <1>1, <2>1, GoToIs DEF Info
  <2>3. Plain(req[r], k) /\ ReqOk(k)
    BY <1>0, <2>1 DEF Info, At, Plain, IsReq, InFlight, ReqOk, Aimed, HasFile, Progress, Reading, Steps
  <2> QED BY <2>2, <2>3, PlainGo DEF Info, files, store, pools
<1>2. CASE req[r].id \notin index
  <2>1. PICK k : k = [req[r] EXCEPT !.pc = "answer", !.ok = FALSE]
    OBVIOUS
  <2>2. Go(r, k)
    BY <1>2, <2>1 DEF Info, Fail, Go, RInv, Typed
  <2>3. Plain(req[r], k) /\ ReqOk(k)
    BY <1>0, <2>1 DEF Info, At, Plain, IsReq, InFlight, ReqOk, Aimed, HasFile, Progress, Reading, Steps
  <2> QED BY <2>2, <2>3, PlainGo DEF Info, files, store, pools
<1> QED BY <1>1, <1>2

LEMMA WaitKeeps ==
  ASSUME RInv, NEW r \in Reqs, Wait(r)
  PROVE  RInv'
<1>0. IsReq(req[r]) /\ ReqOk(req[r])
  BY ReqIs
<1>1. PICK k : k = [req[r] EXCEPT !.pc = "look"]
  OBVIOUS
<1>2. Go(r, k)
  BY <1>1, GoToIs DEF Wait
<1>3. Plain(req[r], k) /\ ReqOk(k)
  BY <1>0, <1>1 DEF Wait, At, Plain, IsReq, InFlight, ReqOk, Aimed, HasFile, Progress, Reading, Steps
<1> QED BY <1>2, <1>3, PlainGo DEF Wait, files, store, pools

LEMMA CheckStillKeeps ==
  ASSUME RInv, NEW r \in Reqs, CheckStill(r)
  PROVE  RInv'
<1>0. IsReq(req[r]) /\ ReqOk(req[r])
  BY ReqIs
<1>1. PICK p : p = IF req[r].id \in index THEN "put" ELSE "unclaim"
  OBVIOUS
<1>2. PICK k : k = [req[r] EXCEPT !.pc = p]
  OBVIOUS
<1>3. Go(r, k)
  BY <1>1, <1>2, GoToIs DEF CheckStill
<1>4. Plain(req[r], k) /\ ReqOk(k)
  BY <1>0, <1>1, <1>2
     DEF CheckStill, At, Plain, IsReq, InFlight, ReqOk, Aimed, HasFile, Progress, Reading, Steps
<1> QED BY <1>3, <1>4, PlainGo DEF CheckStill, files, store, pools

LEMMA PutKeeps ==
  ASSUME RInv, NEW r \in Reqs, Put(r)
  PROVE  RInv'
<1>0. IsReq(req[r]) /\ ReqOk(req[r]) /\ At(r, "put")
  BY ReqIs DEF Put
<1>1. PICK k : k = [req[r] EXCEPT !.pc = "unclaim"]
  OBVIOUS
<1>2. Go(r, k)
  BY <1>1, GoToIs DEF Put
<1>3. Plain(req[r], k) /\ ReqOk(k)
  BY <1>0, <1>1
     DEF At, Plain, IsReq, InFlight, ReqOk, Aimed, HasFile, Progress, Reading, Steps
<1>4. req[r].id \in Ids /\ (~Small(req[r].id) => Points(req[r].obj, req[r].id)) /\ req[r].obj \in Nat
  BY <1>0 DEF At, IsReq, ReqOk, Aimed, HasFile
<1>5. Book(cache') /\ Bulk(DOMAIN cache'.entries) <= MaxBytes /\ Shelf(large')
  <2>1. Book(cache) /\ Bulk(DOMAIN cache.entries) <= MaxBytes /\ Shelf(large) /\ world \in Worlds
    BY DEF RInv, Cachings, Typed
  <2>2. CASE Small(req[r].id)
    <3>1. cache' = CacheInsert(cache, req[r].id) /\ large' = large
      BY <2>2 DEF Put
    <3> QED BY <1>4, <2>1, <3>1, BookInsert
  <2>3. CASE ~Small(req[r].id)
    <3>1. large' = LargeInsert(large, req[r].id, req[r].obj) /\ cache' = cache
      BY <2>3 DEF Put
    <3> QED BY <1>4, <2>1, <2>3, <3>1, ShelfInsert
  <2> QED BY <2>2, <2>3
<1> QED BY <1>2, <1>3, <1>5, PlainMove DEF Put, files, pools

LEMMA EnforceLimitKeeps ==
  ASSUME RInv, NEW r \in Reqs, EnforceLimit(r)
  PROVE  RInv'
<1>0. IsReq(req[r]) /\ ReqOk(req[r]) /\ At(r, "enforce")
  BY ReqIs DEF EnforceLimit
<1>1. PICK k : k = [req[r] EXCEPT !.pc = "pin"]
  OBVIOUS
<1>2. Go(r, k)
  BY <1>1, GoToIs DEF EnforceLimit
<1>3. Plain(req[r], k) /\ ReqOk(k)
  BY <1>0, <1>1
     DEF At, Plain, IsReq, InFlight, ReqOk, Aimed, HasFile, Progress, Reading, Steps
<1>4. Book(cache') /\ Bulk(DOMAIN cache'.entries) <= MaxBytes /\ Shelf(large')
  BY ShelfEnforce DEF EnforceLimit, RInv, Cachings
<1> QED BY <1>2, <1>3, <1>4, PlainMove DEF EnforceLimit, files, pools

LEMMA FailFlightKeeps ==
  ASSUME RInv, NEW r \in Reqs, At(r, "work"), FailFlight(r), faults' = faults \/ Fault,
         UNCHANGED <<world, index, stored, cache, large, objs, loading, handle, ahead, burst, ioq,
                     free, mover, reads>>
  PROVE  RInv'
<1>0. IsReq(req[r]) /\ ReqOk(req[r])
  BY ReqIs
<1>1. PICK k : k = [req[r] EXCEPT !.pc = "unclaim", !.ok = FALSE]
  OBVIOUS
<1>2. Go(r, k)
  BY <1>1 DEF FailFlight, Go, RInv, Typed
<1>3. Plain(req[r], k) /\ ReqOk(k)
  BY <1>0, <1>1 DEF At, Plain, IsReq, InFlight, ReqOk, Aimed, HasFile, Progress, Reading, Steps
<1> QED BY <1>2, <1>3, PlainGo

LEMMA DownloadSmallKeeps ==
  ASSUME RInv, NEW r \in Reqs, DownloadSmall(r)
  PROVE  RInv'
<1>0. IsReq(req[r]) /\ ReqOk(req[r]) /\ At(r, "work") /\ Small(req[r].id)
  BY ReqIs DEF DownloadSmall
<1>1. CASE FailFlight(r)
  BY <1>0, <1>1, FailFlightKeeps DEF DownloadSmall, Calm, files, store, pools
<1>2. CASE ~FailFlight(r)
  <2>1. PICK k : k = [req[r] EXCEPT !.pc = "put", !.got = ContentOf(req[r].id)]
    OBVIOUS
  <2>2. Go(r, k) /\ faults' = faults
    BY <1>2, <2>1 DEF DownloadSmall, Calm
  <2>3. Plain(req[r], k) /\ ReqOk(k)
    BY <1>0, <2>1 DEF At, Plain, IsReq, InFlight, ReqOk, Aimed, HasFile, Progress, Reading, Steps
  <2> QED BY <2>2, <2>3, PlainGo DEF DownloadSmall, files, store, pools
<1> QED BY <1>1, <1>2

LEMMA TouchHitKeeps ==
  ASSUME RInv, NEW id \in Ids, TouchHit(id)
  PROVE  Book(cache') /\ Bulk(DOMAIN cache'.entries) <= MaxBytes /\ Shelf(large')
<1>1. Book(cache) /\ Bulk(DOMAIN cache.entries) <= MaxBytes /\ Shelf(large)
  BY DEF RInv, Cachings
<1>2. CASE Small(id)
  <2>1. cache' = Hit(cache, id) /\ large' = large
    BY <1>2 DEF TouchHit
  <2> QED BY <1>1, <2>1, BookHit
<1>3. CASE ~Small(id)
  <2>1. large' = Touch(large, id) /\ cache' = cache
    BY <1>3 DEF TouchHit
  <2> QED BY <1>1, <2>1, ShelfTouch
<1> QED BY <1>2, <1>3

LEMMA TryCachedKeeps ==
  ASSUME RInv, NEW r \in Reqs, TryCached(r)
  PROVE  RInv'
<1>0. IsReq(req[r]) /\ ReqOk(req[r]) /\ At(r, "cached") /\ req[r].id \in Ids
  BY ReqIs DEF TryCached, At, ReqOk, Aimed
<1>1. Book(cache) /\ Bulk(DOMAIN cache.entries) <= MaxBytes /\ Shelf(large)
  BY DEF RInv, Cachings
<1>2. PICK id : id = req[r].id
  OBVIOUS
<1>3. CASE Cached(cache, id)
  <2>1. PICK k : k = [req[r] EXCEPT !.pc = "answer", !.got = cache.entries[id].of]
    OBVIOUS
  <2>2. Go(r, k) /\ cache' = Hit(cache, id) /\ large' = large
    BY <1>2, <1>3, <2>1 DEF TryCached
  <2>3. cache.entries[id].of = ContentOf(id)
    BY <1>1, <1>3, CacheIs
  <2>4. Plain(req[r], k) /\ ReqOk(k)
    BY <1>0, <1>2, <2>1, <2>3
       DEF At, Plain, IsReq, InFlight, ReqOk, Aimed, HasFile, Progress, Reading, Steps
  <2>5. Book(cache') /\ Bulk(DOMAIN cache'.entries) <= MaxBytes /\ Shelf(large')
    BY <1>0, <1>1, <1>2, <2>2, BookHit
  <2> QED BY <2>2, <2>4, <2>5, PlainMove DEF TryCached, files, pools
<1>4. CASE ~Cached(cache, id) /\ id \in DOMAIN large.map
  <2>1. Book(cache') /\ Bulk(DOMAIN cache'.entries) <= MaxBytes /\ Shelf(large')
    BY <1>0, <1>1, <1>2, <1>4, ShelfTouch DEF TryCached
  <2>2. CASE AllReady(large.map[id], r)
    <3>1. PICK k : k = [req[r] EXCEPT !.pc = "answer", !.got = objs[large.map[id]].of]
      OBVIOUS
    <3>2. Go(r, k)
      BY <1>2, <1>4, <2>2, <3>1 DEF TryCached
    <3>3. objs[large.map[id]].of = ContentOf(id)
      BY <1>1, <1>4 DEF Shelf, Points
    <3>4. Plain(req[r], k) /\ ReqOk(k)
      BY <1>0, <1>2, <3>1, <3>3
         DEF At, Plain, IsReq, InFlight, ReqOk, Aimed, HasFile, Progress, Reading, Steps
    <3> QED BY <2>1, <3>2, <3>4, PlainMove DEF TryCached, files, pools
  <2>3. CASE ~AllReady(large.map[id], r)
    <3>1. PICK k : k = [req[r] EXCEPT !.pc = "permit"]
      OBVIOUS
    <3>2. Go(r, k)
      BY <1>2, <1>4, <2>3, <3>1, GoToIs DEF TryCached
    <3>3. Plain(req[r], k) /\ ReqOk(k)
      BY <1>0, <3>1 DEF At, Plain, IsReq, InFlight, ReqOk, Aimed, HasFile, Progress, Reading, Steps
    <3> QED BY <2>1, <3>2, <3>3, PlainMove DEF TryCached, files, pools
  <2> QED BY <2>2, <2>3
<1>5. CASE ~Cached(cache, id) /\ id \notin DOMAIN large.map
  <2>1. PICK k : k = [req[r] EXCEPT !.pc = "permit"]
    OBVIOUS
  <2>2. Go(r, k) /\ cache' = cache /\ large' = large
    BY <1>2, <1>5, <2>1, GoToIs DEF TryCached
  <2>3. Plain(req[r], k) /\ ReqOk(k)
    BY <1>0, <2>1 DEF At, Plain, IsReq, InFlight, ReqOk, Aimed, HasFile, Progress, Reading, Steps
  <2> QED BY <2>2, <2>3, PlainGo DEF TryCached, files, pools
<1> QED BY <1>3, <1>4, <1>5

\* What a request is given of a cached file is that file.
LEMMA TakeIs ==
  ASSUME RInv, NEW id \in Ids, Found(id), NEW j, IsReq(j), NEW k, k = Take(j, id)
  PROVE  /\ IsReq(k) /\ k.pc = j.pc /\ k.id = j.id /\ k.via = j.via /\ k.permit = j.permit
         /\ k.h = j.h /\ k.lo = j.lo /\ k.hi = j.hi /\ k.ok = j.ok
         /\ Small(id)  => k.got = ContentOf(id) /\ k.obj = j.obj
         /\ ~Small(id) => k.got = j.got /\ Points(k.obj, id)
<1>1. Book(cache) /\ Shelf(large)
  BY DEF RInv, Cachings
<1>2. CASE Small(id)
  <2>1. k = [j EXCEPT !.got = cache.entries[id].of]
    BY <1>2 DEF Take
  <2>2. cache.entries[id].of = ContentOf(id)
    BY <1>1, <1>2, CacheIs DEF Found
  <2> QED BY <1>2, <2>1, <2>2 DEF IsReq
<1>3. CASE ~Small(id)
  <2>1. k = [j EXCEPT !.obj = large.map[id]]
    BY <1>3 DEF Take
  <2>2. id \in DOMAIN large.map /\ Points(large.map[id], id) /\ large.map[id] \in Nat
    BY <1>1, <1>3, ShelfIs DEF Found
  <2> QED BY <1>3, <2>1, <2>2 DEF IsReq
<1> QED BY <1>2, <1>3

LEMMA LookKeeps ==
  ASSUME RInv, NEW r \in Reqs, Look(r)
  PROVE  RInv'
<1>0. IsReq(req[r]) /\ ReqOk(req[r]) /\ At(r, "look") /\ req[r].id \in Ids
  BY ReqIs DEF Look, At, ReqOk, Aimed
<1>1. PICK id : id = req[r].id
  OBVIOUS
<1>2. CASE Found(id)
  <2>1. PICK j : j = [req[r] EXCEPT !.pc = IF Small(id) THEN "pin" ELSE "read"]
    OBVIOUS
  <2>2. PICK k : k = Take(j, id)
    OBVIOUS
  <2>3. Go(r, k) /\ TouchHit(id)
    BY <1>1, <1>2, <2>1, <2>2, Zenon DEF Look
  <2>4. IsReq(j) /\ j.pc = (IF Small(id) THEN "pin" ELSE "read") /\ j.id = id /\ j.via = req[r].via
        /\ j.permit = req[r].permit /\ j.h = req[r].h /\ j.lo = req[r].lo /\ j.hi = req[r].hi
        /\ j.got = req[r].got
    BY <1>0, <1>1, <2>1 DEF IsReq
  <2>5. /\ IsReq(k) /\ k.pc = j.pc /\ k.id = j.id /\ k.via = j.via /\ k.permit = j.permit
        /\ k.h = j.h /\ k.lo = j.lo /\ k.hi = j.hi
        /\ Small(id)  => k.got = ContentOf(id)
        /\ ~Small(id) => k.got = j.got /\ Points(k.obj, id)
    BY <1>0, <1>1, <1>2, <2>2, <2>4, TakeIs
  <2>6. Plain(req[r], k) /\ ReqOk(k)
    BY <1>0, <1>1, <2>4, <2>5
       DEF At, Plain, IsReq, InFlight, ReqOk, Aimed, HasFile, Progress, Reading, Steps
  <2>7. Book(cache') /\ Bulk(DOMAIN cache'.entries) <= MaxBytes /\ Shelf(large')
    BY <1>0, <1>1, <2>3, TouchHitKeeps
  <2> QED BY <2>3, <2>6, <2>7, PlainMove DEF Look, files, pools
<1>3. CASE ~Found(id)
  <2>1. PICK k : k = [req[r] EXCEPT !.pc = "claim"]
    OBVIOUS
  <2>2. Go(r, k) /\ cache' = cache /\ large' = large
    BY <1>1, <1>3, <2>1, GoToIs DEF Look
  <2>3. Plain(req[r], k) /\ ReqOk(k)
    BY <1>0, <2>1 DEF At, Plain, IsReq, InFlight, ReqOk, Aimed, HasFile, Progress, Reading, Steps
  <2> QED BY <2>2, <2>3, PlainGo DEF Look, files, pools
<1> QED BY <1>2, <1>3

LEMMA LookAgainKeeps ==
  ASSUME RInv, NEW r \in Reqs, LookAgain(r)
  PROVE  RInv'
<1>0. IsReq(req[r]) /\ ReqOk(req[r]) /\ At(r, "again") /\ req[r].id \in Ids
  BY ReqIs DEF LookAgain, At, ReqOk, Aimed
<1>1. PICK id : id = req[r].id
  OBVIOUS
<1>2. CASE Found(id)
  <2>1. PICK j : j = [req[r] EXCEPT !.pc = "unclaim"]
    OBVIOUS
  <2>2. PICK k : k = Take(j, id)
    OBVIOUS
  <2>3. Go(r, k) /\ TouchHit(id)
    BY <1>1, <1>2, <2>1, <2>2, Zenon DEF LookAgain
  <2>4. IsReq(j) /\ j.pc = "unclaim" /\ j.id = id /\ j.via = req[r].via
        /\ j.permit = req[r].permit /\ j.h = req[r].h /\ j.lo = req[r].lo /\ j.hi = req[r].hi
        /\ j.got = req[r].got
    BY <1>0, <1>1, <2>1 DEF IsReq
  <2>5. /\ IsReq(k) /\ k.pc = j.pc /\ k.id = j.id /\ k.via = j.via /\ k.permit = j.permit
        /\ k.h = j.h /\ k.lo = j.lo /\ k.hi = j.hi
        /\ Small(id)  => k.got = ContentOf(id)
        /\ ~Small(id) => k.got = j.got /\ Points(k.obj, id)
    BY <1>0, <1>1, <1>2, <2>2, <2>4, TakeIs
  <2>6. Plain(req[r], k) /\ ReqOk(k)
    BY <1>0, <1>1, <2>4, <2>5
       DEF At, Plain, IsReq, InFlight, ReqOk, Aimed, HasFile, Progress, Reading, Steps
  <2>7. Book(cache') /\ Bulk(DOMAIN cache'.entries) <= MaxBytes /\ Shelf(large')
    BY <1>0, <1>1, <2>3, TouchHitKeeps
  <2> QED BY <2>3, <2>6, <2>7, PlainMove DEF LookAgain, files, pools
<1>3. CASE ~Found(id)
  <2>1. PICK k : k = [req[r] EXCEPT !.pc = "work"]
    OBVIOUS
  <2>2. Go(r, k) /\ cache' = cache /\ large' = large
    BY <1>1, <1>3, <2>1, GoToIs DEF LookAgain
  <2>3. Plain(req[r], k) /\ ReqOk(k)
    BY <1>0, <2>1 DEF At, Plain, IsReq, InFlight, ReqOk, Aimed, HasFile, Progress, Reading, Steps
  <2> QED BY <2>2, <2>3, PlainGo DEF LookAgain, files, pools
<1> QED BY <1>2, <1>3

LEMMA StartReadKeeps ==
  ASSUME RInv, NEW r \in Reqs, StartRead(r)
  PROVE  RInv'
<1>0. IsReq(req[r]) /\ ReqOk(req[r]) /\ At(r, "read")
  BY ReqIs DEF StartRead
<1>1. PICK k : k = [req[r] EXCEPT !.before = Resident(req[r].obj), !.at = req[r].lo,
                      !.pc = IF objs[req[r].obj].whole THEN "copy" ELSE "ensure"]
  OBVIOUS
<1>2. Go(r, k)
  BY <1>1 DEF StartRead
<1>3. /\ IsReq(k) /\ k.pc = (IF objs[req[r].obj].whole THEN "copy" ELSE "ensure")
      /\ k.at = k.lo /\ k.lo = req[r].lo /\ k.hi = req[r].hi /\ k.id = req[r].id /\ k.via = req[r].via
      /\ k.h = req[r].h /\ k.got = req[r].got /\ k.obj = req[r].obj /\ k.permit = req[r].permit
  BY <1>0, <1>1 DEF IsReq
<1>4. k.lo \in Nat /\ k.hi \in Nat /\ k.lo <= k.hi
  BY <1>0, <1>3 DEF IsReq, ReqOk, Aimed, At
<1>5. Ready(k.obj, k.lo, k.at - 1) /\ k.at <= k.hi + 1 /\ k.lo <= k.at
  BY <1>3, <1>4 DEF Ready
<1>6. Plain(req[r], k)
  BY <1>0, <1>3 DEF Plain, At, InFlight
<1>7. ReqOk(k)
  <2>1. Aimed(k) /\ HasFile(req[r]) /\ Points(k.obj, k.id)
    BY <1>0, <1>3 DEF ReqOk, Aimed, HasFile, At, Reading, Steps
  <2>2. Progress(k)
    BY <1>3, <1>5 DEF Progress
  <2> QED BY <1>0, <1>3, <2>1, <2>2 DEF ReqOk, At
<1> QED BY <1>2, <1>6, <1>7, PlainGo DEF StartRead, files, store, pools

LEMMA CopyKeeps ==
  ASSUME RInv, NEW r \in Reqs, Copy(r)
  PROVE  RInv'
<1>0. IsReq(req[r]) /\ ReqOk(req[r]) /\ At(r, "copy")
  BY ReqIs DEF Copy
<1>1. PICK o : o = req[r].obj
  OBVIOUS
<1>2. o \in DOMAIN objs /\ objs[o].of = ContentOf(req[r].id) /\ (objs[o].whole \/ Ready(o, req[r].lo, req[r].hi))
  BY <1>0, <1>1 DEF At, ReqOk, HasFile, Reading, Progress, Points
<1>3. objs[o].whole \/ Chunks(r) \subseteq objs[o].have
  BY <1>2 DEF RInv, Shaped, Ready, Chunks
<1>4. PICK p : p = IF Resident(o) # req[r].before THEN "enforce" ELSE "pin"
  OBVIOUS
<1>5. PICK k : k = [req[r] EXCEPT !.got = objs[o].of, !.pc = p]
  OBVIOUS
<1>6. Go(r, k)
  BY <1>1, <1>3, <1>4, <1>5 DEF Copy
<1>7. Plain(req[r], k) /\ ReqOk(k)
  BY <1>0, <1>1, <1>2, <1>4, <1>5
     DEF At, Plain, IsReq, InFlight, ReqOk, Aimed, HasFile, Progress, Reading, Steps, Points
<1> QED BY <1>6, <1>7, PlainGo DEF Copy, files, store, pools

LEMMA PinKeeps ==
  ASSUME RInv, NEW r \in Reqs, Pin(r)
  PROVE  RInv'
<1>0. IsReq(req[r]) /\ ReqOk(req[r]) /\ At(r, "pin")
  BY ReqIs DEF Pin
<1>1. PICK k : k = [req[r] EXCEPT !.pc = "answer"]
  OBVIOUS
<1>2. Go(r, k)
  BY <1>1, GoToIs DEF Pin, Finish
<1>3. Plain(req[r], k) /\ ReqOk(k)
  BY <1>0, <1>1 DEF At, Plain, IsReq, InFlight, ReqOk, Aimed, HasFile, Progress, Reading, Steps
<1>4. /\ req[r].via = "net" => req[r].h \in Handles
                              /\ ContentOf(handle[req[r].h].id) = ContentOf(req[r].id)
      /\ ~Small(req[r].id) => Points(req[r].obj, req[r].id)
      /\ req[r].obj \in Nat
  BY <1>0 DEF At, ReqOk, Aimed, HasFile, IsReq
<1>5. handle \in [Handles -> OpenFiles] /\ Pinned
  BY DEF RInv, Typed
<1>6. CASE req[r].via = "net"
  <2>1. PICK g : g = [handle[req[r].h] EXCEPT !.pin = IF Small(req[r].id) THEN "mem" ELSE "large",
                                              !.obj = req[r].obj]
    OBVIOUS
  <2>2. handle' = [handle EXCEPT ![req[r].h] = g]
    BY <1>4, <1>5, <1>6, <2>1 DEF Pin
  <2>3. g \in OpenFiles /\ g.id = handle[req[r].h].id /\ g.obj = req[r].obj
        /\ (g.pin = "large" => ~Small(req[r].id))
    BY <1>4, <1>5, <1>6, <2>1 DEF OpenFiles
  <2>4. /\ handle' \in [Handles -> OpenFiles] /\ handle'[req[r].h] = g
        /\ \A h \in Handles : h # req[r].h => handle'[h] = handle[h]
    BY <1>4, <1>5, <1>6, <2>2, <2>3
  <2>5. SameFiles
    BY <2>3, <2>4 DEF SameFiles
  <2>6. \A h \in Handles : handle'[h].pin = "large" => Points(handle'[h].obj, handle'[h].id)
    BY <1>4, <1>5, <1>6, <2>3, <2>4 DEF Pinned, Points
  <2>7. Pinned'
    <3>1. world' = world /\ objs' = objs
      BY DEF Pin, files, store
    <3> QED BY <2>6, <3>1 DEF Pinned, Points, ContentOf
  <2>8. Cachings'
    BY DEF RInv, Cachings, Pin, files, store, Book, Booked, Entries, Keys, Bulk, Ids, ContentOf,
           Shelf, Larges, Points
  <2>9. reads' \in 0 .. MaxReads /\ faults' \in 0 .. MaxFaults
    BY DEF RInv, Typed, Pin
  <2> QED BY <1>2, <1>3, <2>4, <2>5, <2>7, <2>8, <2>9, PlainKeeps DEF Pin, files, store, pools
<1>7. CASE req[r].via # "net"
  <2>1. handle' = handle
    BY <1>7 DEF Pin
  <2> QED BY <1>2, <1>3, <2>1, PlainGo DEF Pin, files, store, pools
<1> QED BY <1>6, <1>7

LEMMA OpenLargeKeeps ==
  ASSUME RInv, NEW r \in Reqs, OpenLarge(r)
  PROVE  RInv'
<1>0. /\ IsReq(req[r]) /\ ReqOk(req[r]) /\ At(r, "work") /\ ~Small(req[r].id)
      /\ req[r].id \in Ids /\ world \in Worlds
  BY ReqIs DEF OpenLarge, At, ReqOk, Aimed, RInv, Typed
<1>1. CASE FailFlight(r) /\ objs' = objs
  BY <1>0, <1>1, FailFlightKeeps DEF OpenLarge, Calm, Fault, files, pools
<1>2. CASE Interrupted(r) /\ ~FailFlight(r) /\ objs' = objs
  <2>1. PICK k : k = [req[r] EXCEPT !.tries = @ + 1]
    OBVIOUS
  <2>2. Go(r, k)
    BY <1>2, <2>1 DEF Interrupted, Go, RInv, Typed
  <2>3. Plain(req[r], k) /\ ReqOk(k)
    BY <1>0, <2>1 DEF At, Plain, IsReq, InFlight, ReqOk, Aimed, HasFile, Progress, Reading, Steps
  <2> QED BY <1>2, <2>2, <2>3, PlainGo DEF OpenLarge, Calm, Fault, files, pools
<1>3. CASE \E whole \in BOOLEAN : NewObj(r, whole)
  <2>1. PICK whole \in BOOLEAN : NewObj(r, whole)
    BY <1>3
  <2>2. PICK n, of : n = world.size[req[r].id] /\ of = ContentOf(req[r].id)
    OBVIOUS
  <2>3. PICK x : x = [of |-> of, whole |-> whole, from |-> req[r].id, chunks |-> n,
                      state |-> [i \in 0 .. n - 1 |-> "missing"], tried |-> {}, have |-> {}]
    OBVIOUS
  <2>4. n \in Nat /\ of \in Ids /\ ~Small(of) /\ world.size[of] = n
    BY <1>0, <2>2, WorldIs
  <2>5. x \in Objects
    <3>1. [i \in 0 .. n - 1 |-> "missing"] \in States
      BY <2>4 DEF States
    <3> QED BY <1>0, <2>3, <2>4, <3>1 DEF Objects
  <2>6. /\ objs \in Seq(Objects) /\ objs' = Append(objs, x)
        /\ Go(r, [req[r] EXCEPT !.pc = "check", !.obj = Len(objs) + 1])
    BY <2>1, <2>2, <2>3 DEF NewObj, RInv, Typed
  <2>7. /\ objs' \in Seq(Objects) /\ DOMAIN objs' = DOMAIN objs \cup {Len(objs) + 1}
        /\ Len(objs) + 1 \notin DOMAIN objs /\ objs'[Len(objs) + 1] = x /\ Len(objs) + 1 \in Nat
        /\ \A o \in DOMAIN objs : objs'[o] = objs[o]
    BY <2>5, <2>6
  <2>8. PICK k, o : o = Len(objs) + 1 /\ k = [req[r] EXCEPT !.pc = "check", !.obj = o]
    OBVIOUS
  <2>9. Grows /\ StillLoading
    <3>1. \A i \in DOMAIN x.state : x.state[i] = "missing"
      BY <2>3
    <3> QED BY <2>7, <3>1 DEF Grows, StillLoading
  <2>10. SameFiles /\ UNCHANGED <<world, index, stored, cache, large, loading, handle, ahead, burst,
                                  ioq, free, mover, reads>>
    BY DEF OpenLarge, SameFiles, files, pools
  <2>11. Plain(req[r], k) /\ Go(r, k)
    BY <1>0, <2>6, <2>7, <2>8 DEF At, Plain, IsReq, InFlight
  <2>12. ReqOk(k)'
    <3>1. k.pc = "check" /\ k.obj = o /\ k.id = req[r].id /\ k.via = req[r].via /\ k.h = req[r].h
          /\ k.lo = req[r].lo /\ k.hi = req[r].hi /\ k.got = req[r].got
      BY <1>0, <2>8 DEF IsReq
    <3>2. Points(k.obj, k.id)'
      BY <2>2, <2>3, <2>7, <2>8, <2>10, <3>1 DEF Points, ContentOf
    <3>3. Aimed(k)
      BY <1>0, <3>1 DEF At, ReqOk, Aimed, Steps, InFlight
    <3>4. Aimed(k)'
      BY <2>10, <3>3 DEF Aimed, Ids, Small, ContentOf
    <3> QED BY <1>0, <2>10, <3>1, <3>2, <3>4 DEF At, ReqOk, Progress, ContentOf
  <2>13. Flights' /\ Loaders' /\ Queues' /\ Counts'
    BY <2>9, <2>10, <2>11, PlainStep
  <2>14. /\ DOMAIN req' = Reqs /\ req'[r] = k /\ \A s \in Reqs : s # r => req'[s] = req[s]
    BY <2>11 DEF RInv, Typed, Go
  <2>15. Requests'
    <3>1. \A s \in Reqs : s # r => ReqOk(req'[s])
      BY <2>14 DEF RInv, Requests
    <3>2. \A s \in Reqs : ReqOk(req'[s]) => ReqOk(req[s])'
      BY <2>9, <2>10, ReqKept
    <3>3. ReqOk(req[r])'
      BY <2>12, <2>14
    <3> QED BY <3>1, <3>2, <3>3 DEF Requests
  <2>16. Cachings'
    BY <2>9, <2>10, BookNext DEF RInv, Cachings
  <2>17. Pinned'
    BY <2>7, <2>10 DEF RInv, Pinned, Points, ContentOf
  <2>18. Shaped'
    BY <2>3, <2>4, <2>7, <2>10 DEF RInv, Shaped, Small
  <2>19. Typed' /\ Renaming'
    <3>1. \A s \in Reqs : IsReq(req'[s])
      BY <2>11, <2>14 DEF RInv, Typed, Plain
    <3>2. faults' \in 0 .. MaxFaults
      <4>1. faults \in 0 .. MaxFaults /\ MaxFaults \in Nat /\ (faults' = faults \/ Fault)
        BY <1>0, WorldIs DEF RInv, Typed, OpenLarge, Calm
      <4> QED BY <4>1 DEF Fault
    <3> QED BY <2>7, <2>10, <2>14, <3>1, <3>2
            DEF RInv, Typed, Renaming, Ids, ContentOf, IsReq, Objects, States, OpenFiles, MaxReads, MaxFaults
  <2> QED BY <2>13, <2>15, <2>16, <2>17, <2>18, <2>19 DEF RInv
<1> QED BY <1>1, <1>2, <1>3 DEF OpenLarge, Interrupted

-----------------------------------------------------------------------------
(* Steps with a claim, a permit, a slot or a place in a queue. *)

LEMMA GoIs ==
  ASSUME RInv, NEW r \in Reqs, NEW k, Go(r, k)
  PROVE  DOMAIN req' = Reqs /\ req'[r] = k /\ \A s \in Reqs : s # r => req'[s] = req[s]
BY DEF RInv, Typed, Go

LEMMA RequestsStep ==
  ASSUME RInv, NEW r \in Reqs, NEW k, Go(r, k), ReqOk(k)', Grows, SameFiles, UNCHANGED world
  PROVE  Requests'
<1>0. req'[r] = k /\ \A s \in Reqs : s # r => req'[s] = req[s]
  BY GoIs
<1>1. \A s \in Reqs : s # r => ReqOk(req'[s])
  BY <1>0 DEF RInv, Requests
<1>2. \A s \in Reqs : ReqOk(req'[s]) => ReqOk(req[s])'
  BY ReqKept
<1>3. ReqOk(req[r])'
  BY <1>0
<1> QED BY <1>1, <1>2, <1>3 DEF Requests

\* What a step leaves alone that changes no file, handle or cache.
LEMMA QuietStep ==
  ASSUME RInv, UNCHANGED <<world, index, stored, objs, handle, cache, large, mover>>
  PROVE  Renaming' /\ Shaped' /\ Cachings' /\ Pinned' /\ Grows /\ SameFiles /\ StillLoading
<1>1. Grows /\ SameFiles /\ StillLoading
  BY DEF Grows, SameFiles, StillLoading
<1>2. Cachings'
  BY <1>1, BookNext DEF RInv, Cachings
<1>3. Renaming' /\ Shaped' /\ Pinned'
  BY DEF RInv, Renaming, Shaped, Pinned, Points, Ids, ContentOf, Small
<1> QED BY <1>1, <1>2, <1>3

LEMMA TypedStep ==
  ASSUME RInv, NEW r \in Reqs, NEW k, Go(r, k), IsReq(k), objs' \in Seq(Objects),
         loading' \subseteq Ids, faults' = faults \/ Fault,
         IsFiniteSet(ahead') /\ (\A x \in ahead' : IsReq(x)),
         burst' \in [running : Int, queue : Seq(Reqs)] /\ ioq' \in Seq(Reqs),
         free' \in [permits : Int, slots : Int], handle' \in [Handles -> OpenFiles],
         reads' \in 0 .. MaxReads, UNCHANGED <<world, index, stored, mover>>
  PROVE  Typed'
<1>0. DOMAIN req' = Reqs /\ req'[r] = k /\ \A s \in Reqs : s # r => req'[s] = req[s]
  BY GoIs
<1>1. \A s \in Reqs : IsReq(req'[s])
  BY <1>0 DEF RInv, Typed
<1>2. faults' \in 0 .. MaxFaults
  <2>1. faults \in 0 .. MaxFaults /\ MaxFaults \in Nat
    BY WorldIs DEF RInv, Typed
  <2> QED BY <2>1 DEF Fault
<1> QED BY <1>0, <1>1, <1>2
        DEF RInv, Typed, Ids, IsReq, Objects, States, OpenFiles, MaxReads, MaxFaults

LEMMA FiniteReqs ==
  ASSUME NEW S, S \subseteq Reqs
  PROVE  /\ IsFiniteSet(S) /\ Cardinality(S) \in Nat
         /\ \A r \in Reqs \ S : Cardinality(S \cup {r}) = Cardinality(S) + 1
         /\ \A r \in S : Cardinality(S \ {r}) = Cardinality(S) - 1
BY ReadsAssumption, FS_Subset, FS_CardinalityType, FS_AddElement, FS_RemoveElement

LEMMA TakePermitKeeps ==
  ASSUME RInv, NEW r \in Reqs, TakePermit(r)
  PROVE  RInv'
<1>0. IsReq(req[r]) /\ ReqOk(req[r]) /\ At(r, "permit")
  BY ReqIs DEF TakePermit
<1>1. PICK k : k = [req[r] EXCEPT !.pc = "info", !.permit = TRUE]
  OBVIOUS
<1>2. Go(r, k) /\ free' = [free EXCEPT !.permits = @ - 1]
  BY <1>1 DEF TakePermit
<1>3. UNCHANGED <<world, index, stored, objs, handle, cache, large, mover, loading, ahead, burst, ioq,
                  reads, faults>>
  BY DEF TakePermit, files, store
<1>4. req'[r] = k /\ \A s \in Reqs : s # r => req'[s] = req[s]
  BY <1>2, GoIs
<1>5. IsReq(k) /\ ReqOk(k) /\ k.pc = "info" /\ k.permit /\ k.via = req[r].via /\ ~req[r].permit
  BY <1>0, <1>1
     DEF At, IsReq, InFlight, ReqOk, Aimed, HasFile, Progress, Reading, Steps
<1>6. Renaming' /\ Shaped' /\ Cachings' /\ Pinned' /\ Grows /\ SameFiles /\ StillLoading
  BY <1>3, QuietStep
<1>7. ReqOk(k)'
  BY <1>3, <1>5, <1>6, ReqKept
<1>8. Requests'
  BY <1>2, <1>3, <1>6, <1>7, RequestsStep
<1>9. free \in [permits : Int, slots : Int] /\ free' \in [permits : Int, slots : Int]
      /\ free'.permits = free.permits - 1 /\ free'.slots = free.slots
  BY <1>2 DEF RInv, Typed
<1>10. Typed'
  <2>1. /\ objs' \in Seq(Objects) /\ loading' \subseteq Ids /\ IsFiniteSet(ahead')
        /\ (\A x \in ahead' : IsReq(x)) /\ handle' \in [Handles -> OpenFiles]
        /\ burst' \in [running : Int, queue : Seq(Reqs)] /\ ioq' \in Seq(Reqs) /\ reads' \in 0 .. MaxReads
    BY <1>3 DEF RInv, Typed
  <2> QED BY <1>2, <1>3, <1>5, <1>9, <2>1, TypedStep
<1>11. Flights'
  BY <1>0, <1>3, <1>4, <1>5, FlightsKept DEF Flying, At
<1>12. Loaders'
  BY <1>0, <1>3, <1>4, <1>5, <1>6, LoadersKept DEF Loads, At
<1>13. Queues'
  BY <1>0, <1>3, <1>4, QueuesKept DEF At
<1>14. Counts'
  <2>1. Permitted' = Permitted \cup {r} /\ r \notin Permitted
    BY <1>4, <1>5 DEF Permitted
  <2>2. Slotted' = Slotted /\ SlotsAhead' = SlotsAhead /\ NetThreads' = NetThreads
    BY <1>0, <1>3, <1>4, <1>5 DEF Slotted, SlotsAhead, NetThreads, HasSlot, At
  <2>3. Cardinality(Permitted') = Cardinality(Permitted) + 1 /\ Cardinality(Permitted) \in Nat
    BY <2>1, FiniteReqs DEF Permitted
  <2>4. free'.permits + Cardinality(Permitted') = Permits'
    BY <1>3, <1>9, <2>3 DEF RInv, Counts, Permits
  <2> QED BY <1>3, <1>9, <2>2, <2>4, Zenon DEF RInv, Counts, NetWorkers
<1> QED BY <1>6, <1>8, <1>10, <1>11, <1>12, <1>13, <1>14 DEF RInv

LEMMA ClaimKeeps ==
  ASSUME RInv, NEW r \in Reqs, Claim(r)
  PROVE  RInv'
<1>0. IsReq(req[r]) /\ ReqOk(req[r]) /\ At(r, "claim") /\ req[r].id \in Ids
  BY ReqIs DEF Claim, At, ReqOk, Aimed
<1>1. CASE req[r].id \in loading
  <2>1. PICK k : k = [req[r] EXCEPT !.pc = "wait"]
    OBVIOUS
  <2>2. Go(r, k) /\ loading' = loading
    BY <1>1, <2>1, GoToIs DEF Claim
  <2>3. Plain(req[r], k) /\ ReqOk(k)
    BY <1>0, <2>1 DEF At, Plain, IsReq, InFlight, ReqOk, Aimed, HasFile, Progress, Reading, Steps
  <2> QED BY <2>2, <2>3, PlainGo DEF Claim, files, store, pools
<1>2. CASE req[r].id \notin loading
  <2>1. PICK k : k = [req[r] EXCEPT !.pc = "again"]
    OBVIOUS
  <2>2. Go(r, k) /\ loading' = loading \cup {req[r].id}
    BY <1>2, <2>1, GoToIs DEF Claim
  <2>3. UNCHANGED <<world, index, stored, objs, handle, cache, large, mover, ahead, burst, ioq, free,
                    reads, faults>>
    BY DEF Claim, files, store, pools
  <2>4. req'[r] = k /\ \A s \in Reqs : s # r => req'[s] = req[s]
    BY <2>2, GoIs
  <2>5. IsReq(k) /\ ReqOk(k) /\ k.pc = "again" /\ k.permit = req[r].permit /\ k.via = req[r].via
        /\ k.id = req[r].id
    BY <1>0, <2>1
       DEF At, IsReq, InFlight, ReqOk, Aimed, HasFile, Progress, Reading, Steps
  <2>6. Renaming' /\ Shaped' /\ Cachings' /\ Pinned' /\ Grows /\ SameFiles /\ StillLoading
    BY <2>3, QuietStep
  <2>7. ReqOk(k)'
    BY <2>3, <2>5, <2>6, ReqKept
  <2>8. Requests'
    BY <2>2, <2>3, <2>6, <2>7, RequestsStep
  <2>9. Typed'
    <3>1. /\ objs' \in Seq(Objects) /\ loading' \subseteq Ids /\ IsFiniteSet(ahead')
          /\ (\A x \in ahead' : IsReq(x)) /\ handle' \in [Handles -> OpenFiles]
          /\ burst' \in [running : Int, queue : Seq(Reqs)] /\ ioq' \in Seq(Reqs) /\ reads' \in 0 .. MaxReads
          /\ free' \in [permits : Int, slots : Int]
      BY <1>0, <2>2, <2>3 DEF RInv, Typed
    <3> QED BY <2>2, <2>3, <2>5, <3>1, TypedStep
  <2>10. Flights'
    <3>1. Flying(r)' /\ \A s \in Reqs : s # r => (Flying(s)' <=> Flying(s))
      BY <2>4, <2>5 DEF Flying
    <3>2. ~Flying(r) /\ Flights /\ req'[r].id = req[r].id
      BY <1>0, <2>4, <2>5 DEF Flying, At, RInv
    <3> QED BY <1>2, <2>2, <2>4, <3>1, <3>2 DEF Flights
  <2>11. Loaders'
    BY <1>0, <2>3, <2>4, <2>5, <2>6, LoadersKept DEF Loads, At
  <2>12. Queues'
    BY <1>0, <2>3, <2>4, QueuesKept DEF At
  <2>13. Counts'
    <3>1. Slotted' = Slotted /\ SlotsAhead' = SlotsAhead /\ NetThreads' = NetThreads /\ Permitted' = Permitted
      BY <1>0, <2>3, <2>4, <2>5 DEF Slotted, SlotsAhead, NetThreads, HasSlot, At, Permitted
    <3> QED BY <2>3, <3>1, Zenon DEF RInv, Counts, NetWorkers, Permits
  <2> QED BY <2>6, <2>8, <2>9, <2>10, <2>11, <2>12, <2>13 DEF RInv
<1> QED BY <1>1, <1>2

LEMMA UnclaimKeeps ==
  ASSUME RInv, NEW r \in Reqs, Unclaim(r)
  PROVE  RInv'
<1>0. IsReq(req[r]) /\ ReqOk(req[r]) /\ At(r, "unclaim") /\ req[r].id \in Ids
  BY ReqIs DEF Unclaim, At, ReqOk, Aimed
<1>1. PICK p : p = IF ~req[r].ok THEN "answer" ELSE IF Small(req[r].id) THEN "pin" ELSE "read"
  OBVIOUS
<1>2. PICK k : k = [req[r] EXCEPT !.pc = p]
  OBVIOUS
<1>3. Go(r, k) /\ loading' = loading \ {req[r].id}
  BY <1>1, <1>2, GoToIs DEF Unclaim
<1>4. UNCHANGED <<world, index, stored, objs, handle, cache, large, mover, ahead, burst, ioq, free,
                  reads, faults>>
  BY DEF Unclaim, files, store, pools
<1>5. req'[r] = k /\ \A s \in Reqs : s # r => req'[s] = req[s]
  BY <1>3, GoIs
<1>6. IsReq(k) /\ ReqOk(k) /\ k.pc = p /\ k.permit = req[r].permit /\ k.via = req[r].via
      /\ k.id = req[r].id /\ p \in {"answer", "pin", "read"}
  BY <1>0, <1>1, <1>2
     DEF At, IsReq, InFlight, ReqOk, Aimed, HasFile, Progress, Reading, Steps
<1>7. Renaming' /\ Shaped' /\ Cachings' /\ Pinned' /\ Grows /\ SameFiles /\ StillLoading
  BY <1>4, QuietStep
<1>8. ReqOk(k)'
  BY <1>4, <1>6, <1>7, ReqKept
<1>9. Requests'
  BY <1>3, <1>4, <1>7, <1>8, RequestsStep
<1>10. Typed'
  <2>1. /\ objs' \in Seq(Objects) /\ loading' \subseteq Ids /\ IsFiniteSet(ahead')
        /\ (\A x \in ahead' : IsReq(x)) /\ handle' \in [Handles -> OpenFiles]
        /\ burst' \in [running : Int, queue : Seq(Reqs)] /\ ioq' \in Seq(Reqs) /\ reads' \in 0 .. MaxReads
        /\ free' \in [permits : Int, slots : Int]
    BY <1>0, <1>3, <1>4 DEF RInv, Typed
  <2> QED BY <1>3, <1>4, <1>6, <2>1, TypedStep
<1>11. Flights'
  <2>1. ~Flying(r)' /\ Flying(r) /\ \A s \in Reqs : s # r => (Flying(s)' <=> Flying(s))
    BY <1>0, <1>5, <1>6 DEF Flying, At
  <2>2. Flights
    BY DEF RInv
  <2> QED BY <1>3, <1>5, <2>1, <2>2 DEF Flights
<1>12. Loaders'
  BY <1>0, <1>4, <1>5, <1>6, <1>7, LoadersKept DEF Loads, At
<1>13. Queues'
  BY <1>0, <1>4, <1>5, QueuesKept DEF At
<1>14. Counts'
  <2>1. Slotted' = Slotted /\ SlotsAhead' = SlotsAhead /\ NetThreads' = NetThreads /\ Permitted' = Permitted
    BY <1>0, <1>4, <1>5, <1>6 DEF Slotted, SlotsAhead, NetThreads, HasSlot, At, Permitted
  <2> QED BY <1>4, <2>1, Zenon DEF RInv, Counts, NetWorkers, Permits
<1> QED BY <1>7, <1>9, <1>10, <1>11, <1>12, <1>13, <1>14 DEF RInv

(* Chunks. *)

LEMMA GrowStep ==
  ASSUME RInv, Grows, UNCHANGED <<world, index, handle, cache, large, mover>>
  PROVE  Renaming' /\ Cachings' /\ Pinned' /\ SameFiles
<1>1. SameFiles
  BY DEF SameFiles
<1>2. Cachings'
  BY BookNext DEF RInv, Cachings
<1>3. \A o, id : Points(o, id) => Points(o, id)'
  BY DEF Points, Grows, ContentOf
<1>4. Renaming' /\ Pinned'
  BY <1>3 DEF RInv, Renaming, Pinned, Ids, ContentOf
<1> QED BY <1>1, <1>2, <1>4

\* Only the states of chunks change, or what is there of them.
SameShape ==
  /\ objs' \in Seq(Objects) /\ DOMAIN objs' = DOMAIN objs
  /\ \A o \in DOMAIN objs :
       /\ objs'[o].of = objs[o].of /\ objs'[o].whole = objs[o].whole /\ objs'[o].chunks = objs[o].chunks
       /\ objs'[o].have \subseteq DOMAIN objs[o].state /\ objs'[o].tried \subseteq DOMAIN objs[o].state
       /\ objs[o].have \subseteq objs'[o].have /\ DOMAIN objs'[o].state = DOMAIN objs[o].state

LEMMA ObjIs ==
  ASSUME RInv, NEW o \in DOMAIN objs
  PROVE  /\ objs[o] \in Objects /\ DOMAIN objs[o].state \subseteq Nat
         /\ objs[o].have \subseteq DOMAIN objs[o].state /\ objs[o].tried \subseteq DOMAIN objs[o].state
         /\ objs[o].state \in [DOMAIN objs[o].state -> {"missing", "loading", "ready"}]
<1>1. objs[o] \in Objects
  BY DEF RInv, Typed
<1>2. PICK n \in Nat : objs[o].state \in [0 .. (n - 1) -> {"missing", "loading", "ready"}]
  BY <1>1 DEF Objects, States
<1> QED BY <1>1, <1>2 DEF RInv, Shaped

LEMMA ObjPut ==
  ASSUME RInv, NEW o \in DOMAIN objs, NEW state, NEW tried, NEW have,
         state \in [DOMAIN objs[o].state -> {"missing", "loading", "ready"}],
         objs[o].have \subseteq have, have \cup tried \subseteq DOMAIN objs[o].state,
         objs' = [objs EXCEPT ![o] = [@ EXCEPT !.state = state, !.tried = tried, !.have = have]]
  PROVE  /\ SameShape /\ objs'[o].state = state /\ objs'[o].have = have /\ objs'[o].tried = tried
         /\ \A p \in DOMAIN objs : p # o => objs'[p] = objs[p]
<1>1. objs \in Seq(Objects)
  BY DEF RInv, Typed
<1>2. PICK y : y = [objs[o] EXCEPT !.state = state, !.tried = tried, !.have = have]
  OBVIOUS
<1>3. state \in States
  <2>1. DOMAIN objs[o].state = 0 .. (objs[o].chunks - 1) /\ objs[o].chunks \in Nat
    <3>1. objs[o] \in Objects
      BY <1>1
    <3> QED BY <3>1 DEF RInv, Shaped, Objects
  <2> QED BY <2>1 DEF States
<1>4. objs[o] \in Objects /\ DOMAIN objs[o].state \subseteq Nat
  BY ObjIs
<1>5. /\ y \in Objects /\ y.state = state /\ y.tried = tried /\ y.have = have
      /\ y.of = objs[o].of /\ y.whole = objs[o].whole /\ y.chunks = objs[o].chunks
  BY <1>2, <1>3, <1>4 DEF Objects
<1>6. objs' = [objs EXCEPT ![o] = y]
  BY <1>2
<1>7. objs' \in Seq(Objects) /\ DOMAIN objs' = DOMAIN objs /\ objs'[o] = y
      /\ \A p \in DOMAIN objs : p # o => objs'[p] = objs[p]
  BY <1>1, <1>5, <1>6
<1>8. ASSUME NEW p \in DOMAIN objs
      PROVE  /\ objs'[p].of = objs[p].of /\ objs'[p].whole = objs[p].whole /\ objs'[p].chunks = objs[p].chunks
             /\ objs'[p].have \subseteq DOMAIN objs[p].state /\ objs'[p].tried \subseteq DOMAIN objs[p].state
             /\ objs[p].have \subseteq objs'[p].have /\ DOMAIN objs'[p].state = DOMAIN objs[p].state
  <2>1. CASE p = o
    BY <1>5, <1>7, <2>1
  <2>2. CASE p # o
    BY <1>7, <2>2, ObjIs
  <2> QED BY <2>1, <2>2
<1> QED BY <1>5, <1>7, <1>8 DEF SameShape

\* A chunk gets another state.
ChunkNow(o, i, s) ==
  \A p \in DOMAIN objs : \A j \in DOMAIN objs[p].state :
    objs'[p].state[j] = IF p = o /\ j = i THEN s ELSE objs[p].state[j]

LEMMA SetChunkIs ==
  ASSUME RInv, NEW o \in DOMAIN objs, NEW i \in DOMAIN objs[o].state, objs[o].state[i] # "ready",
         NEW s \in {"missing", "loading", "ready"}, s = "ready" => i \in objs[o].have,
         SetChunk(o, i, s), UNCHANGED world
  PROVE  SameShape /\ Grows /\ Shaped' /\ ChunkNow(o, i, s)
<1>1. PICK state, tried, have : /\ state = [objs[o].state EXCEPT ![i] = s]
                                /\ tried = objs[o].tried /\ have = objs[o].have
  OBVIOUS
<1>2. objs' = [objs EXCEPT ![o] = [@ EXCEPT !.state = state, !.tried = tried, !.have = have]]
  <2>1. objs[o] \in Objects
    BY ObjIs
  <2>2. [objs[o] EXCEPT !.state = state] = [objs[o] EXCEPT !.state = state, !.tried = tried, !.have = have]
    BY <1>1, <2>1 DEF Objects
  <2>3. objs' = [objs EXCEPT ![o] = [@ EXCEPT !.state = state]]
    BY <1>1 DEF SetChunk
  <2> QED BY <2>2, <2>3
<1>3. state \in [DOMAIN objs[o].state -> {"missing", "loading", "ready"}]
  BY <1>1, ObjIs
<1>4. have \cup tried \subseteq DOMAIN objs[o].state /\ objs[o].have \subseteq have
  BY <1>1, ObjIs
<1>5. /\ SameShape /\ objs'[o].state = state /\ objs'[o].have = have /\ objs'[o].tried = tried
      /\ \A p \in DOMAIN objs : p # o => objs'[p] = objs[p]
  BY <1>2, <1>3, <1>4, ObjPut
<1>6. state[i] = s /\ \A j \in DOMAIN objs[o].state : j # i => state[j] = objs[o].state[j]
  BY <1>1
<1>7. ChunkNow(o, i, s)
  BY <1>5, <1>6 DEF ChunkNow
<1>8. Grows
  BY <1>5, <1>7 DEF Grows, SameShape, ChunkNow
<1>9. \A p \in DOMAIN objs : objs'[p].have = objs[p].have
  BY <1>1, <1>5
<1>10. Shaped'
  BY <1>5, <1>7, <1>9 DEF RInv, Shaped, SameShape, ChunkNow, Small
<1> QED BY <1>5, <1>7, <1>8, <1>10

\* The bytes of a chunk are there now.
LEMMA HaveIs ==
  ASSUME RInv, NEW o \in DOMAIN objs, NEW i \in DOMAIN objs[o].state,
         objs' = [objs EXCEPT ![o].have = @ \cup {i}], UNCHANGED world
  PROVE  SameShape /\ Grows /\ Shaped' /\ StillLoading /\ i \in objs'[o].have
<1>1. PICK state, tried, have : /\ state = objs[o].state
                                /\ tried = objs[o].tried /\ have = objs[o].have \cup {i}
  OBVIOUS
<1>2. objs' = [objs EXCEPT ![o] = [@ EXCEPT !.state = state, !.tried = tried, !.have = have]]
  <2>1. objs[o] \in Objects
    BY ObjIs
  <2>2. [objs[o] EXCEPT !.have = have] = [objs[o] EXCEPT !.state = state, !.tried = tried, !.have = have]
    BY <1>1, <2>1 DEF Objects
  <2>3. objs' = [objs EXCEPT ![o] = [@ EXCEPT !.have = have]]
    BY <1>1
  <2> QED BY <2>2, <2>3
<1>3. /\ state \in [DOMAIN objs[o].state -> {"missing", "loading", "ready"}]
      /\ objs[o].have \subseteq have /\ have \cup tried \subseteq DOMAIN objs[o].state
  BY <1>1, ObjIs
<1>4. /\ SameShape /\ objs'[o].state = state /\ objs'[o].have = have /\ objs'[o].tried = tried
      /\ \A p \in DOMAIN objs : p # o => objs'[p] = objs[p]
  BY <1>2, <1>3, ObjPut
<1>5. \A p \in DOMAIN objs : objs'[p].state = objs[p].state
  BY <1>1, <1>4
<1>6. Grows /\ StillLoading
  BY <1>4, <1>5 DEF Grows, StillLoading, SameShape
<1>7. Shaped'
  BY <1>4, <1>5 DEF RInv, Shaped, SameShape, Small
<1> QED BY <1>1, <1>4, <1>6, <1>7

\* What a request reads is among the chunks of its file.
LEMMA ChunksOf ==
  ASSUME RInv, NEW j, IsReq(j), ReqOk(j), j.pc \in Reading
  PROVE  /\ j.obj \in DOMAIN objs /\ 0 .. j.hi \subseteq DOMAIN objs[j.obj].state /\ ~Small(j.id)
         /\ j.hi \in Nat /\ j.lo \in Nat /\ j.at \in Nat /\ j.id \in Ids
<1>1. j.obj \in DOMAIN objs /\ objs[j.obj].of = ContentOf(j.id) /\ j.id \in Ids
  BY DEF ReqOk, HasFile, Points, Aimed, Reading
<1>2. ~Small(objs[j.obj].of) /\ DOMAIN objs[j.obj].state = 0 .. (world.size[objs[j.obj].of] - 1)
  BY <1>1 DEF RInv, Shaped
<1>3. world.size[ContentOf(j.id)] = world.size[j.id] /\ (Small(ContentOf(j.id)) <=> Small(j.id))
      /\ world.size[j.id] \in Nat
  BY <1>1, WorldIs DEF RInv, Typed
<1>4. j.hi < world.size[j.id] /\ j.hi \in Nat /\ j.lo \in Nat /\ j.at \in Nat
  BY <1>1, <1>2, <1>3 DEF ReqOk, Aimed, Reading, IsReq
<1> QED BY <1>1, <1>2, <1>3, <1>4

LEMMA EnsureKeeps ==
  ASSUME RInv, NEW r \in Reqs, Ensure(r)
  PROVE  RInv'
<1>0. IsReq(req[r]) /\ ReqOk(req[r]) /\ At(r, "ensure")
  BY ReqIs DEF Ensure
<1>1. PICK o, i : o = req[r].obj /\ i = req[r].at
  OBVIOUS
<1>2. /\ o \in DOMAIN objs /\ 0 .. req[r].hi \subseteq DOMAIN objs[o].state
      /\ req[r].hi \in Nat /\ req[r].lo \in Nat /\ i \in Nat /\ ~Small(req[r].id)
  BY <1>0, <1>1, ChunksOf DEF At, Reading
<1>3. req[r].lo <= i /\ i <= req[r].hi + 1 /\ Ready(o, req[r].lo, i - 1) /\ Aimed(req[r])
      /\ Points(o, req[r].id)
  BY <1>0, <1>1 DEF At, ReqOk, Progress, HasFile, Reading
<1>4. CASE i > req[r].hi
  <2>1. PICK k : k = [req[r] EXCEPT !.pc = "ahead"]
    OBVIOUS
  <2>2. Go(r, k) /\ objs' = objs
    BY <1>1, <1>4, <2>1, GoToIs DEF Ensure
  <2>3. Plain(req[r], k)
    BY <1>0, <2>1 DEF At, Plain, IsReq, InFlight
  <2>4. i - 1 = req[r].hi
    BY <1>2, <1>3, <1>4
  <2>5. ReqOk(k)
    BY <1>0, <1>1, <1>3, <1>4, <2>1, <2>4
       DEF At, IsReq, InFlight, ReqOk, Aimed, HasFile, Progress, Reading, Steps
  <2> QED BY <2>2, <2>3, <2>5, PlainGo DEF Ensure, files, pools
<1>5. CASE ~(i > req[r].hi) /\ objs[o].state[i] = "ready" /\ objs' = objs /\ Go(r, [req[r] EXCEPT !.at = i + 1])
  <2>1. PICK k : k = [req[r] EXCEPT !.at = i + 1]
    OBVIOUS
  <2>2. Go(r, k) /\ objs' = objs
    BY <1>5, <2>1
  <2>3. Plain(req[r], k)
    BY <1>0, <1>2, <2>1 DEF At, Plain, IsReq, InFlight
  <2>4. i \in 0 .. req[r].hi
    BY <1>2, <1>5
  <2>5. Ready(o, req[r].lo, i)
    BY <1>2, <1>3, <1>5, <2>4 DEF Ready
  <2>6. k.at = i + 1 /\ k.at - 1 = i /\ k.pc = "ensure" /\ k.obj = o /\ k.lo = req[r].lo
        /\ k.hi = req[r].hi /\ k.id = req[r].id /\ k.got = req[r].got
    BY <1>0, <1>1, <1>2, <2>1 DEF At, IsReq
  <2>7. Progress(k)
    BY <1>2, <1>3, <1>5, <2>5, <2>6 DEF Progress
  <2>8. Aimed(k)
    BY <1>0, <1>3, <2>1 DEF IsReq, Aimed
  <2>9. ReqOk(k)
    BY <1>0, <1>3, <2>6, <2>7, <2>8 DEF ReqOk, At
  <2> QED BY <2>2, <2>3, <2>9, PlainGo DEF Ensure, files, pools
<1>6. CASE /\ ~(i > req[r].hi) /\ objs[o].state[i] = "missing" /\ SetChunk(o, i, "loading")
           /\ Go(r, [req[r] EXCEPT !.pc = "slot", !.tries = 0])
  <2>1. PICK k : k = [req[r] EXCEPT !.pc = "slot", !.tries = 0]
    OBVIOUS
  <2>2. Go(r, k)
    BY <1>6, <2>1
  <2>3. UNCHANGED <<world, index, stored, cache, large, loading, handle, ahead, burst, ioq, free,
                    mover, reads>> /\ faults' = faults
    BY DEF Ensure, files, pools
  <2>4. i \in DOMAIN objs[o].state
    BY <1>2, <1>6
  <2>5. SameShape /\ Grows /\ Shaped' /\ ChunkNow(o, i, "loading")
    BY <1>2, <1>6, <2>3, <2>4, SetChunkIs
  <2>6. Renaming' /\ Cachings' /\ Pinned' /\ SameFiles
    BY <2>3, <2>5, GrowStep
  <2>7. /\ IsReq(k) /\ k.pc = "slot" /\ k.obj = o /\ k.at = i /\ k.id = req[r].id /\ k.via = req[r].via
        /\ k.permit = req[r].permit
    BY <1>0, <1>1, <2>1 DEF IsReq
  <2>8. ReqOk(k)
    BY <1>0, <1>1, <1>2, <1>3, <1>6, <2>1
       DEF At, IsReq, InFlight, ReqOk, Aimed, HasFile, Progress, Reading, Steps
  <2>9. ReqOk(k)'
    BY <2>3, <2>5, <2>6, <2>8, ReqKept
  <2>10. Requests'
    BY <2>2, <2>3, <2>5, <2>6, <2>9, RequestsStep
  <2>11. Typed'
    <3>1. /\ objs' \in Seq(Objects) /\ loading' \subseteq Ids /\ IsFiniteSet(ahead')
          /\ (\A x \in ahead' : IsReq(x)) /\ handle' \in [Handles -> OpenFiles]
          /\ burst' \in [running : Int, queue : Seq(Reqs)] /\ ioq' \in Seq(Reqs) /\ reads' \in 0 .. MaxReads
          /\ free' \in [permits : Int, slots : Int]
      BY <2>3, <2>5 DEF RInv, Typed, SameShape
    <3> QED BY <2>2, <2>3, <2>7, <3>1, TypedStep
  <2>12. req'[r] = k /\ \A s \in Reqs : s # r => req'[s] = req[s]
    BY <2>2, GoIs
  <2>13. Flights'
    BY <1>0, <2>3, <2>7, <2>12, FlightsKept DEF Flying, At
  <2>14. Queues'
    BY <1>0, <2>3, <2>12, QueuesKept DEF At
  <2>15. Counts'
    <3>1. Slotted' = Slotted /\ SlotsAhead' = SlotsAhead /\ NetThreads' = NetThreads /\ Permitted' = Permitted
      BY <1>0, <2>3, <2>7, <2>12 DEF Slotted, SlotsAhead, NetThreads, HasSlot, At, Permitted
    <3> QED BY <2>3, <3>1, Zenon DEF RInv, Counts, NetWorkers, Permits
  <2>16. Loaders'
    <3>1. Loaders
      BY DEF RInv
    <3>2. /\ \A s \in Reqs : ~LoadsAt(req[s], o, i)
          /\ \A x \in ahead : ~LoadsAt(x, o, i)
      BY <1>6, <3>1 DEF Loaders, LoadsAt, Claimed
    <3>3. ~Loads(req[r]) /\ Loads(k)
      BY <1>0, <2>7 DEF Loads, At
    <3>4. \A x : Claimed(x) => Claimed(x)'
      BY <2>4, <2>5 DEF Claimed, SameShape, ChunkNow
    <3>5. Claimed(k)'
      BY <1>2, <2>4, <2>5, <2>7 DEF Claimed, SameShape, ChunkNow
    <3>6. \A s \in Reqs : Loads(req[s])' => Claimed(req[s])'
      <4>1. \A s \in Reqs : s # r /\ Loads(req'[s]) => Claimed(req'[s])
        BY <2>12, <3>1 DEF Loaders
      <4>2. \A s \in Reqs : Claimed(req'[s]) => Claimed(req[s])'
        BY <2>4, <2>5 DEF Claimed, SameShape, ChunkNow
      <4> QED BY <2>12, <3>5, <4>1, <4>2 DEF Loads
    <3>7. \A x \in ahead' : Loads(x) /\ ~x.permit /\ Claimed(x)' /\ Fetched(x)'
      <4>1. \A x \in ahead : Fetched(x) /\ Claimed(x) => Fetched(x)'
        BY <2>5 DEF Fetched, Claimed, SameShape
      <4> QED BY <2>3, <3>1, <3>4, <4>1 DEF Loaders
    <3>8. \A p \in DOMAIN objs' : \A j \in DOMAIN objs'[p].state :
            objs'[p].state[j] = "loading" =>
              \/ \E s \in Reqs : LoadsAt(req'[s], p, j)
              \/ \E x \in ahead' : LoadsAt(x, p, j)
      <4>1. LoadsAt(req'[r], o, i)
        BY <2>7, <2>12, <3>3 DEF LoadsAt
      <4>2. \A s \in Reqs : Loads(req[s]) => req'[s] = req[s]
        BY <2>12, <3>3
      <4> QED BY <2>3, <2>5, <3>1, <4>1, <4>2 DEF Loaders, LoadsAt, SameShape, ChunkNow
    <3>9. /\ \A s, t \in Reqs : Loads(req'[s]) /\ LoadsAt(req'[t], req'[s].obj, req'[s].at) => s = t
          /\ \A s \in Reqs, x \in ahead : Loads(req'[s]) => ~LoadsAt(x, req'[s].obj, req'[s].at)
      BY <2>7, <2>12, <3>1, <3>2 DEF Loaders, LoadsAt
    <3> QED BY <2>3, <3>1, <3>6, <3>7, <3>8, <3>9 DEF Loaders, LoadsAt, Loads
  <2> QED BY <2>5, <2>6, <2>10, <2>11, <2>13, <2>14, <2>15, <2>16 DEF RInv
<1> QED BY <1>1, <1>4, <1>5, <1>6 DEF Ensure

(* Loads of chunks, by requests. *)

LEMMA LoadersSame ==
  ASSUME RInv, \A s \in Reqs : Loads(req'[s]) <=> Loads(req[s]),
         \A s \in Reqs : Loads(req[s]) => req'[s].obj = req[s].obj /\ req'[s].at = req[s].at,
         StillLoading, UNCHANGED ahead
  PROVE  Loaders'
<1>1. Loaders
  BY DEF RInv
<1>2. \A x : Claimed(x) => Claimed(x)'
  BY DEF Claimed, StillLoading
<1>3. \A s \in Reqs : Loads(req[s])' => Claimed(req[s])'
  <2>1. \A s \in Reqs : Loads(req'[s]) => Claimed(req[s])
    BY <1>1 DEF Loaders
  <2> QED BY <2>1 DEF Claimed, StillLoading, Loads
<1>4. \A x \in ahead' : Loads(x) /\ ~x.permit /\ Claimed(x)' /\ Fetched(x)'
  <2>1. \A x \in ahead : Fetched(x) /\ Claimed(x) => Fetched(x)'
    BY DEF Fetched, Claimed, StillLoading
  <2> QED BY <1>1, <1>2, <2>1 DEF Loaders
<1>5. \A p \in DOMAIN objs' : \A j \in DOMAIN objs'[p].state :
        objs'[p].state[j] = "loading" =>
          \/ \E s \in Reqs : LoadsAt(req'[s], p, j)
          \/ \E x \in ahead' : LoadsAt(x, p, j)
  BY <1>1 DEF Loaders, LoadsAt, StillLoading
<1>6. /\ \A s, t \in Reqs : Loads(req'[s]) /\ LoadsAt(req'[t], req'[s].obj, req'[s].at) => s = t
      /\ \A s \in Reqs, x \in ahead : Loads(req'[s]) => ~LoadsAt(x, req'[s].obj, req'[s].at)
  BY <1>1 DEF Loaders, LoadsAt
<1> QED BY <1>1, <1>3, <1>4, <1>5, <1>6 DEF Loaders, LoadsAt, Loads

LEMMA StillIs ==
  ASSUME UNCHANGED objs
  PROVE  StillLoading /\ Grows
BY DEF StillLoading, Grows

\* What a load of a request leaves alone.
LEMMA LoadStep ==
  ASSUME RInv, NEW r \in Reqs, NEW k, Go(r, k), IsReq(k), ReqOk(k)', Grows, objs' \in Seq(Objects),
         k.id = req[r].id, k.via = req[r].via, k.permit = req[r].permit,
         Loads(req[r]), k.pc \notin {"idle", "queued"} \cup InFlight,
         faults' = faults \/ Fault, free' \in [permits : Int, slots : Int], free'.permits = free.permits,
         UNCHANGED <<world, index, stored, cache, large, loading, handle, ahead, burst, ioq, mover, reads>>
  PROVE  /\ Typed' /\ Requests' /\ Renaming' /\ Cachings' /\ Pinned' /\ Flights' /\ Queues'
         /\ SlotsAhead' = SlotsAhead
         /\ free'.permits + Cardinality(Permitted') = Permits'
         /\ burst'.running = Cardinality(NetThreads') /\ burst'.running <= NetWorkers'
<1>1. Renaming' /\ Cachings' /\ Pinned' /\ SameFiles
  BY GrowStep
<1>2. Requests'
  BY <1>1, RequestsStep
<1>3. Typed'
  <2>1. /\ loading' \subseteq Ids /\ IsFiniteSet(ahead')
        /\ (\A x \in ahead' : IsReq(x)) /\ handle' \in [Handles -> OpenFiles]
        /\ burst' \in [running : Int, queue : Seq(Reqs)] /\ ioq' \in Seq(Reqs) /\ reads' \in 0 .. MaxReads
    BY DEF RInv, Typed
  <2> QED BY <2>1, TypedStep
<1>4. req'[r] = k /\ \A s \in Reqs : s # r => req'[s] = req[s]
  BY GoIs
<1>5. Flights'
  BY <1>4, FlightsKept DEF Flying, Loads, InFlight
<1>6. Queues'
  BY <1>4, QueuesKept DEF Loads
<1>7. SlotsAhead' = SlotsAhead /\ NetThreads' = NetThreads /\ Permitted' = Permitted
  BY <1>4 DEF SlotsAhead, NetThreads, Permitted, Loads
<1> QED BY <1>1, <1>2, <1>3, <1>5, <1>6, <1>7, Zenon DEF RInv, Counts, NetWorkers, Permits

LEMMA TakeSlotKeeps ==
  ASSUME RInv, NEW r \in Reqs, req[r].pc = "slot", free.slots > 0, free' = [free EXCEPT !.slots = @ - 1],
         Go(r, [req[r] EXCEPT !.pc = "fetch"]),
         UNCHANGED <<world, index, stored, cache, large, objs, loading, handle, ahead, burst, ioq,
                     mover, reads, faults>>
  PROVE  RInv'
<1>0. IsReq(req[r]) /\ ReqOk(req[r])
  BY ReqIs
<1>1. PICK k : k = [req[r] EXCEPT !.pc = "fetch"]
  OBVIOUS
<1>2. /\ IsReq(k) /\ k.pc = "fetch" /\ k.obj = req[r].obj /\ k.at = req[r].at /\ k.id = req[r].id
      /\ k.via = req[r].via /\ k.permit = req[r].permit
  BY <1>0, <1>1 DEF IsReq
<1>3. ReqOk(k)
  BY <1>0, <1>1 DEF IsReq, InFlight, ReqOk, Aimed, HasFile, Progress, Reading, Steps
<1>4. StillLoading /\ Grows /\ SameFiles
  BY DEF StillLoading, Grows, SameFiles
<1>5. ReqOk(k)'
  BY <1>3, <1>4, ReqKept
<1>6. /\ free \in [permits : Int, slots : Int] /\ free' \in [permits : Int, slots : Int]
      /\ free'.permits = free.permits /\ free'.slots = free.slots - 1 /\ objs' \in Seq(Objects)
  BY DEF RInv, Typed
<1>7. Loads(req[r]) /\ k.pc \notin {"idle", "queued"} \cup InFlight /\ Go(r, k)
  BY <1>1, <1>2 DEF Loads, InFlight
<1>8. /\ Typed' /\ Requests' /\ Renaming' /\ Cachings' /\ Pinned' /\ Flights' /\ Queues'
      /\ SlotsAhead' = SlotsAhead
      /\ free'.permits + Cardinality(Permitted') = Permits'
      /\ burst'.running = Cardinality(NetThreads') /\ burst'.running <= NetWorkers'
  BY <1>2, <1>4, <1>5, <1>6, <1>7, LoadStep
<1>9. req'[r] = k /\ \A s \in Reqs : s # r => req'[s] = req[s]
  BY <1>7, GoIs
<1>10. Loaders'
  BY <1>2, <1>4, <1>9, LoadersSame DEF Loads
<1>11. Shaped'
  BY DEF RInv, Shaped, Small
<1>12. Counts'
  <2>1. Slotted' = Slotted \cup {r} /\ r \notin Slotted
    BY <1>2, <1>9 DEF Slotted, HasSlot
  <2>2. Cardinality(Slotted') = Cardinality(Slotted) + 1 /\ Cardinality(Slotted) \in Nat
    BY <2>1, FiniteReqs DEF Slotted
  <2>3. Cardinality(SlotsAhead) \in Nat
    BY FS_Subset, FS_CardinalityType DEF RInv, Typed, SlotsAhead
  <2>4. free'.slots + Cardinality(Slotted') + Cardinality(SlotsAhead') = ChunkSlots
    BY <1>6, <1>8, <2>2, <2>3 DEF RInv, Counts
  <2> QED BY <1>8, <2>4, Zenon DEF Counts
<1> QED BY <1>8, <1>10, <1>11, <1>12 DEF RInv

LEMMA FetchKeeps ==
  ASSUME RInv, NEW r \in Reqs, req[r].pc = "fetch",
         NEW k, Go(r, k), k = [req[r] EXCEPT !.pc = k.pc, !.ok = k.ok, !.tries = k.tries],
         k.pc \in {"fetch", "loaded"}, k.ok \in BOOLEAN,
         \/ objs' = objs /\ (k.pc = "loaded" => ~k.ok)
         \/ objs' = [objs EXCEPT ![req[r].obj].have = @ \cup {req[r].at}],
         faults' = faults \/ Fault,
         UNCHANGED <<world, index, stored, cache, large, loading, handle, ahead, burst, ioq,
                     mover, reads, free>>
  PROVE  RInv'
<1>0. IsReq(req[r]) /\ ReqOk(req[r]) /\ Loads(req[r]) /\ Claimed(req[r])
  BY ReqIs DEF RInv, Loaders, Loads
<1>1. PICK j : j = req[r]
  OBVIOUS
<1>2. /\ IsReq(k) /\ k.obj = j.obj /\ k.at = j.at /\ k.id = j.id /\ k.h = j.h /\ k.lo = j.lo
      /\ k.hi = j.hi /\ k.got = j.got /\ k.via = j.via /\ k.permit = j.permit
  <2>1. PICK p, ok, t : p = k.pc /\ ok = k.ok /\ t = k.tries
    OBVIOUS
  <2>2. k = [j EXCEPT !.pc = p, !.ok = ok, !.tries = t]
    BY <1>1, <2>1
  <2> QED BY <1>0, <1>1, <2>1, <2>2 DEF IsReq
<1>3. objs' \in Seq(Objects) /\ Grows /\ StillLoading /\ Shaped'
      /\ (k.pc = "loaded" /\ k.ok => j.at \in objs'[j.obj].have)
  <2>1. CASE objs' = objs /\ (k.pc = "loaded" => ~k.ok)
    <3>1. Grows /\ StillLoading
      BY <2>1, StillIs
    <3>2. Shaped'
      BY <2>1 DEF RInv, Shaped, Small
    <3>3. objs' \in Seq(Objects)
      BY <2>1 DEF RInv, Typed
    <3> QED BY <2>1, <3>1, <3>2, <3>3
  <2>2. CASE objs' = [objs EXCEPT ![req[r].obj].have = @ \cup {req[r].at}]
    <3>1. j.obj \in DOMAIN objs /\ j.at \in DOMAIN objs[j.obj].state
      BY <1>0, <1>1 DEF Claimed
    <3>2. SameShape /\ Grows /\ Shaped' /\ StillLoading /\ j.at \in objs'[j.obj].have
      BY <1>1, <2>2, <3>1, HaveIs
    <3> QED BY <3>2 DEF SameShape
  <2> QED BY <2>1, <2>2
<1>4. SameFiles /\ ReqOk(j)
  BY <1>0, <1>1 DEF SameFiles
<1>5. ReqOk(j)'
  BY <1>3, <1>4, ReqKept
<1>6. ReqOk(k)'
  <2>1. Aimed(k)' /\ HasFile(k)' /\ Points(k.obj, k.id)' /\ k.got = j.got
    BY <1>1, <1>2, <1>5 DEF ReqOk, Aimed, HasFile, Steps, Reading
  <2>2. Progress(k)'
    BY <1>1, <1>2, <1>3, <1>5 DEF ReqOk, Progress
  <2> QED BY <1>1, <1>2, <1>5, <2>1, <2>2 DEF ReqOk, ContentOf
<1>7. k.pc \notin {"idle", "queued"} \cup InFlight
  BY DEF InFlight
<1>8. free' \in [permits : Int, slots : Int]
  BY DEF RInv, Typed
<1>9. /\ Typed' /\ Requests' /\ Renaming' /\ Cachings' /\ Pinned' /\ Flights' /\ Queues'
      /\ SlotsAhead' = SlotsAhead
      /\ free'.permits + Cardinality(Permitted') = Permits'
      /\ burst'.running = Cardinality(NetThreads') /\ burst'.running <= NetWorkers'
  BY <1>0, <1>1, <1>2, <1>3, <1>6, <1>7, <1>8, LoadStep
<1>10. req'[r] = k /\ \A s \in Reqs : s # r => req'[s] = req[s]
  BY GoIs
<1>11. Loaders'
  BY <1>1, <1>2, <1>3, <1>10, LoadersSame DEF Loads
<1>12. Counts'
  <2>1. Slotted' = Slotted
    BY <1>10 DEF Slotted, HasSlot
  <2> QED BY <1>9, <2>1, Zenon DEF RInv, Counts
<1> QED BY <1>3, <1>9, <1>11, <1>12 DEF RInv

LEMMA LoadedKeeps ==
  ASSUME RInv, NEW r \in Reqs, req[r].pc = "loaded", free' = [free EXCEPT !.slots = @ + 1],
         SetChunk(req[r].obj, req[r].at, AfterLoad(req[r].ok)),
         Go(r, [req[r] EXCEPT !.pc = IF req[r].ok THEN "ensure" ELSE "answer"]),
         UNCHANGED <<world, index, stored, cache, large, loading, handle, ahead, burst, ioq,
                     mover, reads, faults>>
  PROVE  RInv'
<1>0. IsReq(req[r]) /\ ReqOk(req[r]) /\ Loads(req[r]) /\ Claimed(req[r]) /\ Loaders
  BY ReqIs DEF RInv, Loaders, Loads
<1>1. PICK o, i, s : o = req[r].obj /\ i = req[r].at /\ s = AfterLoad(req[r].ok)
  OBVIOUS
<1>2. /\ o \in DOMAIN objs /\ i \in DOMAIN objs[o].state /\ objs[o].state[i] = "loading"
      /\ s \in {"missing", "ready"} /\ (s = "ready" => i \in objs[o].have)
  BY <1>0, <1>1 DEF Claimed, AfterLoad, ReqOk, Progress
<1>3. SameShape /\ Grows /\ Shaped' /\ ChunkNow(o, i, s)
  BY <1>1, <1>2, SetChunkIs
<1>4. PICK k : k = [req[r] EXCEPT !.pc = IF req[r].ok THEN "ensure" ELSE "answer"]
  OBVIOUS
<1>5. Go(r, k) /\ SameFiles
  BY <1>4 DEF SameFiles
<1>6. /\ IsReq(k) /\ k.pc \in {"ensure", "answer"} /\ k.obj = o /\ k.at = i /\ k.id = req[r].id
      /\ k.via = req[r].via /\ k.permit = req[r].permit
  BY <1>0, <1>1, <1>4 DEF IsReq
<1>7. ReqOk(k)
  <2>1. req[r].hi \in Nat /\ req[r].at \in Nat
    BY <1>0 DEF IsReq
  <2>2. req[r].at <= req[r].hi => req[r].at <= req[r].hi + 1
    BY <2>1
  <2> QED BY <1>0, <1>4, <2>2 DEF IsReq, InFlight, ReqOk, Aimed, HasFile, Progress, Reading, Steps
<1>8. ReqOk(k)'
  BY <1>3, <1>5, <1>7, ReqKept
<1>9. /\ free \in [permits : Int, slots : Int] /\ free' \in [permits : Int, slots : Int]
      /\ free'.permits = free.permits /\ free'.slots = free.slots + 1 /\ objs' \in Seq(Objects)
  BY <1>3 DEF RInv, Typed, SameShape
<1>10. k.pc \notin {"idle", "queued"} \cup InFlight
  BY <1>6 DEF InFlight
<1>11. /\ Typed' /\ Requests' /\ Renaming' /\ Cachings' /\ Pinned' /\ Flights' /\ Queues'
       /\ SlotsAhead' = SlotsAhead
       /\ free'.permits + Cardinality(Permitted') = Permits'
       /\ burst'.running = Cardinality(NetThreads') /\ burst'.running <= NetWorkers'
  BY <1>0, <1>3, <1>5, <1>6, <1>8, <1>9, <1>10, LoadStep
<1>12. req'[r] = k /\ \A t \in Reqs : t # r => req'[t] = req[t]
  BY <1>5, GoIs
<1>13. Loaders'
  <2>1. ~Loads(k) /\ LoadsAt(req[r], o, i)
    BY <1>0, <1>1, <1>6 DEF Loads, LoadsAt
  <2>2. /\ \A t \in Reqs : t # r => ~LoadsAt(req[t], o, i)
        /\ \A x \in ahead : ~LoadsAt(x, o, i)
    BY <1>0, <1>1, <2>1 DEF Loaders
  <2>3. \A x : Claimed(x) /\ Loads(x) /\ ~LoadsAt(x, o, i) => Claimed(x)'
    BY <1>2, <1>3 DEF Claimed, SameShape, ChunkNow, LoadsAt
  <2>4. \A t \in Reqs : Loads(req[t])' => Claimed(req[t])'
    <3>1. \A t \in Reqs : Loads(req'[t]) => t # r /\ Claimed(req'[t]) /\ ~LoadsAt(req'[t], o, i)
      BY <1>0, <1>12, <2>1, <2>2 DEF Loaders
    <3>2. \A t \in Reqs : Claimed(req'[t]) /\ Loads(req'[t]) /\ ~LoadsAt(req'[t], o, i) => Claimed(req[t])'
      BY <1>2, <1>3 DEF Claimed, SameShape, ChunkNow, LoadsAt
    <3> QED BY <3>1, <3>2 DEF Loads
  <2>5. \A x \in ahead' : Loads(x) /\ ~x.permit /\ Claimed(x)' /\ Fetched(x)'
    <3>1. \A x \in ahead : Fetched(x) /\ Claimed(x) => Fetched(x)'
      BY <1>3 DEF Fetched, Claimed, SameShape
    <3> QED BY <1>0, <2>2, <2>3, <3>1 DEF Loaders
  <2>6. \A p \in DOMAIN objs' : \A j \in DOMAIN objs'[p].state :
          objs'[p].state[j] = "loading" =>
            \/ \E t \in Reqs : LoadsAt(req'[t], p, j)
            \/ \E x \in ahead' : LoadsAt(x, p, j)
    <3>1. ASSUME NEW p \in DOMAIN objs', NEW j \in DOMAIN objs'[p].state, objs'[p].state[j] = "loading"
          PROVE  \/ \E t \in Reqs : LoadsAt(req'[t], p, j)
                 \/ \E x \in ahead' : LoadsAt(x, p, j)
      <4>1. p \in DOMAIN objs /\ j \in DOMAIN objs[p].state /\ objs[p].state[j] = "loading"
            /\ ~(p = o /\ j = i)
        BY <1>2, <1>3, <3>1 DEF SameShape, ChunkNow
      <4>2. \/ \E t \in Reqs : LoadsAt(req[t], p, j)
            \/ \E x \in ahead : LoadsAt(x, p, j)
        BY <1>0, <4>1 DEF Loaders
      <4>3. ~LoadsAt(req[r], p, j)
        BY <1>1, <4>1 DEF LoadsAt
      <4> QED BY <1>12, <4>2, <4>3
    <3> QED BY <3>1
  <2>7. /\ \A t, u \in Reqs : Loads(req'[t]) /\ LoadsAt(req'[u], req'[t].obj, req'[t].at) => t = u
        /\ \A t \in Reqs, x \in ahead : Loads(req'[t]) => ~LoadsAt(x, req'[t].obj, req'[t].at)
    BY <1>0, <1>12, <2>1 DEF Loaders, LoadsAt
  <2> QED BY <1>0, <2>4, <2>5, <2>6, <2>7 DEF Loaders, LoadsAt, Loads
<1>14. Counts'
  <2>1. Slotted' = Slotted \ {r} /\ r \in Slotted
    BY <1>6, <1>12 DEF Slotted, HasSlot
  <2>2. Cardinality(Slotted') = Cardinality(Slotted) - 1 /\ Cardinality(Slotted) \in Nat
    BY <2>1, FiniteReqs DEF Slotted
  <2>3. Cardinality(SlotsAhead) \in Nat
    BY FS_Subset, FS_CardinalityType DEF RInv, Typed, SlotsAhead
  <2>4. free'.slots + Cardinality(Slotted') + Cardinality(SlotsAhead') = ChunkSlots
    BY <1>9, <1>11, <2>2, <2>3 DEF RInv, Counts
  <2> QED BY <1>11, <2>4, Zenon DEF Counts
<1> QED BY <1>3, <1>11, <1>13, <1>14 DEF RInv

LEMMA LoadKeeps ==
  ASSUME RInv, NEW r \in Reqs, Load(r)
  PROVE  RInv'
<1>0. UNCHANGED <<world, index, stored, cache, large, loading, handle, ahead, burst, ioq, mover, reads>>
  BY DEF Load, files
<1>1. CASE /\ req[r].pc = "slot" /\ free.slots > 0 /\ free' = [free EXCEPT !.slots = @ - 1]
           /\ Go(r, [req[r] EXCEPT !.pc = "fetch"]) /\ UNCHANGED <<objs, faults>>
  BY <1>0, <1>1, TakeSlotKeeps
<1>2. CASE Fetch(req[r], LAMBDA y : Go(r, y))
  <2>0. IsReq(req[r]) /\ req[r].pc = "fetch" /\ free' = free
    BY <1>2, ReqIs DEF Fetch
  <2>1. \E there \in BOOLEAN : there = (objs[req[r].obj].from \in stored)
    <3>1. CASE objs[req[r].obj].from \in stored
      <4>1. TRUE = (objs[req[r].obj].from \in stored)
        BY <3>1
      <4> QED BY <4>1
    <3>2. CASE objs[req[r].obj].from \notin stored
      <4>1. FALSE = (objs[req[r].obj].from \in stored)
        BY <3>2
      <4> QED BY <4>1
    <3> QED BY <3>1, <3>2
  <2>a. PICK there \in BOOLEAN : there = (objs[req[r].obj].from \in stored)
    BY <2>1
  <2>2. CASE /\ Go(r, [req[r] EXCEPT !.pc = "loaded", !.ok = there]) /\ Calm
             /\ objs' = IF there THEN [objs EXCEPT ![req[r].obj].have = @ \cup {req[r].at}] ELSE objs
    <3>1. PICK k : k = [req[r] EXCEPT !.pc = "loaded", !.ok = there]
      OBVIOUS
    <3>2. k.pc = "loaded" /\ k.ok = there /\ k.tries = req[r].tries
          /\ k = [req[r] EXCEPT !.pc = k.pc, !.ok = k.ok, !.tries = k.tries]
      BY <2>0, <3>1 DEF IsReq
    <3>3. Go(r, k) /\ faults' = faults
      BY <2>2, <3>1 DEF Calm
    <3> QED BY <1>0, <2>0, <2>2, <3>2, <3>3, FetchKeeps
  <2>3. CASE objs' = objs /\ Fault /\ Go(r, [req[r] EXCEPT !.tries = @ + 1])
    <3>1. PICK k : k = [req[r] EXCEPT !.tries = @ + 1]
      OBVIOUS
    <3>2. k.pc = "fetch" /\ k.ok = req[r].ok /\ k.ok \in BOOLEAN
          /\ k = [req[r] EXCEPT !.pc = k.pc, !.ok = k.ok, !.tries = k.tries]
      BY <2>0, <3>1 DEF IsReq
    <3>3. Go(r, k)
      BY <2>3, <3>1
    <3> QED BY <1>0, <2>0, <2>3, <3>2, <3>3, FetchKeeps
  <2>4. CASE objs' = objs /\ Fault /\ Go(r, [req[r] EXCEPT !.pc = "loaded", !.ok = FALSE])
    <3>1. PICK k : k = [req[r] EXCEPT !.pc = "loaded", !.ok = FALSE]
      OBVIOUS
    <3>2. k.pc = "loaded" /\ k.ok = FALSE /\ k.tries = req[r].tries
          /\ k = [req[r] EXCEPT !.pc = k.pc, !.ok = k.ok, !.tries = k.tries]
      BY <2>0, <3>1 DEF IsReq
    <3>3. Go(r, k)
      BY <2>4, <3>1
    <3> QED BY <1>0, <2>0, <2>4, <3>2, <3>3, FetchKeeps
  <2> QED BY <1>2, <2>a, <2>2, <2>3, <2>4 DEF Fetch
<1>3. CASE /\ req[r].pc = "loaded" /\ free' = [free EXCEPT !.slots = @ + 1]
           /\ SetChunk(req[r].obj, req[r].at, AfterLoad(req[r].ok))
           /\ Go(r, [req[r] EXCEPT !.pc = IF req[r].ok THEN "ensure" ELSE "answer"])
           /\ UNCHANGED faults
  BY <1>0, <1>3, LoadedKeeps
<1> QED BY <1>1, <1>2, <1>3 DEF Load, TakeSlot, Loaded

(* Read-ahead. *)

\* A chunk has been tried.
LEMMA TriedIs ==
  ASSUME RInv, NEW o \in DOMAIN objs, NEW i \in DOMAIN objs[o].state,
         objs' = [objs EXCEPT ![o].tried = @ \cup {i}], UNCHANGED world
  PROVE  SameShape /\ Grows /\ Shaped' /\ StillLoading
<1>1. PICK state, tried, have : /\ state = objs[o].state
                                /\ tried = objs[o].tried \cup {i} /\ have = objs[o].have
  OBVIOUS
<1>2. objs' = [objs EXCEPT ![o] = [@ EXCEPT !.state = state, !.tried = tried, !.have = have]]
  <2>1. objs[o] \in Objects
    BY ObjIs
  <2>2. [objs[o] EXCEPT !.tried = tried] = [objs[o] EXCEPT !.state = state, !.tried = tried, !.have = have]
    BY <1>1, <2>1 DEF Objects
  <2>3. objs' = [objs EXCEPT ![o] = [@ EXCEPT !.tried = tried]]
    BY <1>1
  <2> QED BY <2>2, <2>3
<1>3. /\ state \in [DOMAIN objs[o].state -> {"missing", "loading", "ready"}]
      /\ objs[o].have \subseteq have /\ have \cup tried \subseteq DOMAIN objs[o].state
  BY <1>1, ObjIs
<1>4. /\ SameShape /\ objs'[o].state = state /\ objs'[o].have = have /\ objs'[o].tried = tried
      /\ \A p \in DOMAIN objs : p # o => objs'[p] = objs[p]
  BY <1>2, <1>3, ObjPut
<1>5. \A p \in DOMAIN objs : objs'[p].state = objs[p].state /\ objs'[p].have = objs[p].have
  BY <1>1, <1>4
<1>6. Grows /\ StillLoading
  BY <1>4, <1>5 DEF Grows, StillLoading, SameShape
<1>7. Shaped'
  BY <1>4, <1>5 DEF RInv, Shaped, SameShape, Small
<1> QED BY <1>4, <1>6, <1>7

\* A chunk is claimed for a read-ahead thread.
LEMMA AheadIs ==
  ASSUME RInv, NEW o \in DOMAIN objs, NEW i \in DOMAIN objs[o].state, objs[o].state[i] = "missing",
         objs' = [objs EXCEPT ![o] = [objs[o] EXCEPT !.tried = @ \cup {i}, !.state[i] = "loading"]],
         UNCHANGED world
  PROVE  SameShape /\ Grows /\ Shaped' /\ ChunkNow(o, i, "loading")
<1>1. PICK state, tried, have : /\ state = [objs[o].state EXCEPT ![i] = "loading"]
                                /\ tried = objs[o].tried \cup {i} /\ have = objs[o].have
  OBVIOUS
<1>2. objs' = [objs EXCEPT ![o] = [@ EXCEPT !.state = state, !.tried = tried, !.have = have]]
  <2>1. objs[o] \in Objects
    BY ObjIs
  <2>2. [objs[o] EXCEPT !.tried = tried, !.state = state]
          = [objs[o] EXCEPT !.state = state, !.tried = tried, !.have = have]
    BY <1>1, <2>1 DEF Objects
  <2>3. [objs[o] EXCEPT !.tried = @ \cup {i}, !.state[i] = "loading"]
          = [objs[o] EXCEPT !.tried = tried, !.state = state]
    BY <1>1, <2>1 DEF Objects
  <2>4. PICK y : y = [objs[o] EXCEPT !.tried = @ \cup {i}, !.state[i] = "loading"]
    OBVIOUS
  <2>5. objs' = [objs EXCEPT ![o] = y]
    BY <2>4
  <2> QED BY <2>2, <2>3, <2>4, <2>5
<1>3. /\ state \in [DOMAIN objs[o].state -> {"missing", "loading", "ready"}]
      /\ objs[o].have \subseteq have /\ have \cup tried \subseteq DOMAIN objs[o].state
  BY <1>1, ObjIs
<1>4. /\ SameShape /\ objs'[o].state = state /\ objs'[o].have = have /\ objs'[o].tried = tried
      /\ \A p \in DOMAIN objs : p # o => objs'[p] = objs[p]
  BY <1>2, <1>3, ObjPut
<1>5. state[i] = "loading" /\ \A j \in DOMAIN objs[o].state : j # i => state[j] = objs[o].state[j]
  BY <1>1
<1>6. ChunkNow(o, i, "loading")
  BY <1>4, <1>5 DEF ChunkNow
<1>7. \A p \in DOMAIN objs : objs'[p].have = objs[p].have
  BY <1>1, <1>4
<1>b. objs[o].state[i] # "ready" /\ state[i] # "ready"
  BY <1>5
<1>8. Grows
  BY <1>4, <1>6, <1>7, <1>b DEF Grows, SameShape, ChunkNow
<1>9. Shaped'
  BY <1>4, <1>6, <1>7, <1>b DEF RInv, Shaped, SameShape, ChunkNow, Small
<1> QED BY <1>4, <1>6, <1>8, <1>9

LEMMA ReadOnKeeps ==
  ASSUME RInv, NEW r \in Reqs, ReadOn(r)
  PROVE  RInv'
<1>0. IsReq(req[r]) /\ ReqOk(req[r]) /\ At(r, "ahead")
  BY ReqIs DEF ReadOn
<1>a. UNCHANGED <<world, index, stored, cache, large, loading, handle, burst, ioq, free, mover, reads>>
  BY DEF ReadOn, files, pools
<1>1. PICK o, i : o = req[r].obj /\ i = req[r].at
  OBVIOUS
<1>2. /\ o \in DOMAIN objs /\ 0 .. req[r].hi \subseteq DOMAIN objs[o].state
      /\ req[r].hi \in Nat /\ req[r].lo \in Nat /\ i \in Nat /\ ~Small(req[r].id)
  BY <1>0, <1>1, ChunksOf DEF At, Reading
<1>3. Ready(o, req[r].lo, req[r].hi) /\ Aimed(req[r]) /\ Points(o, req[r].id) /\ req[r].hi < i
  BY <1>0, <1>1 DEF At, ReqOk, Progress, HasFile, Reading
<1>b. objs[o].chunks \in Nat /\ DOMAIN objs[o].state = 0 .. (objs[o].chunks - 1)
  <2>1. objs[o] \in Objects
    BY <1>2, ObjIs
  <2> QED BY <1>2, <2>1 DEF RInv, Shaped, Objects
<1>4. CASE GoTo(r, "copy") /\ objs' = objs /\ ahead' = ahead /\ faults' = faults
  <2>1. PICK k : k = [req[r] EXCEPT !.pc = "copy"]
    OBVIOUS
  <2>2. Go(r, k)
    BY <1>4, <2>1, GoToIs
  <2>3. Plain(req[r], k) /\ ReqOk(k)
    BY <1>0, <1>1, <1>3, <2>1
       DEF At, Plain, IsReq, InFlight, ReqOk, Aimed, HasFile, Progress, Reading, Steps
  <2> QED BY <1>a, <1>4, <2>2, <2>3, PlainGo
<1>5. PICK k : k = [req[r] EXCEPT !.at = i + 1]
  OBVIOUS
<1>6. /\ IsReq(k) /\ Plain(req[r], k) /\ ReqOk(k)
      /\ k.pc = "ahead" /\ k.id = req[r].id /\ k.via = req[r].via /\ k.permit = req[r].permit
  <2>1. req[r].hi < i + 1
    BY <1>2, <1>3
  <2> QED BY <1>0, <1>1, <1>2, <1>3, <1>5, <2>1
             DEF At, Plain, IsReq, InFlight, ReqOk, Aimed, HasFile, Progress, Reading, Steps
<1>7. CASE /\ i < objs[o].chunks /\ Go(r, k) /\ objs' = [objs EXCEPT ![o].tried = @ \cup {i}]
           /\ ahead' = ahead /\ (faults' = faults \/ Fault)
  <2>1. i \in DOMAIN objs[o].state
    BY <1>2, <1>7, <1>b
  <2>2. SameShape /\ Grows /\ Shaped' /\ StillLoading
    BY <1>2, <1>7, <1>a, <2>1, TriedIs
  <2>3. Renaming' /\ Cachings' /\ Pinned' /\ SameFiles
    BY <1>a, <2>2, GrowStep
  <2>4. Flights' /\ Loaders' /\ Queues' /\ Counts'
    BY <1>a, <1>6, <1>7, <2>2, PlainStep
  <2>5. ReqOk(k)'
    BY <1>a, <1>6, <2>2, <2>3, ReqKept
  <2>6. Requests'
    BY <1>a, <1>7, <2>2, <2>3, <2>5, RequestsStep
  <2>7. Typed'
    <3>1. /\ objs' \in Seq(Objects) /\ loading' \subseteq Ids /\ IsFiniteSet(ahead')
          /\ (\A x \in ahead' : IsReq(x)) /\ handle' \in [Handles -> OpenFiles]
          /\ burst' \in [running : Int, queue : Seq(Reqs)] /\ ioq' \in Seq(Reqs) /\ reads' \in 0 .. MaxReads
          /\ free' \in [permits : Int, slots : Int]
      BY <1>7, <1>a, <2>2 DEF RInv, Typed, SameShape
    <3> QED BY <1>6, <1>7, <1>a, <3>1, TypedStep
  <2> QED BY <2>2, <2>3, <2>4, <2>6, <2>7 DEF RInv
<1>8. CASE /\ i < objs[o].chunks /\ Go(r, k) /\ objs[o].state[i] = "missing" /\ faults' = faults
           /\ objs' = [objs EXCEPT ![o] = [objs[o] EXCEPT !.tried = @ \cup {i}, !.state[i] = "loading"]]
           /\ ahead' = ahead \cup {[NoReq EXCEPT !.pc = "slot", !.obj = o, !.at = i]}
  <2>0. PICK n : n = [NoReq EXCEPT !.pc = "slot", !.obj = o, !.at = i]
    OBVIOUS
  <2>a. IsReq(n) /\ n.pc = "slot" /\ n.obj = o /\ n.at = i /\ ~n.permit /\ n.ok = TRUE
    <3>1. o \in Nat
      <4>1. objs \in Seq(Objects)
        BY DEF RInv, Typed
      <4> QED BY <1>2, <4>1
    <3> QED BY <1>2, <2>0, <3>1 DEF NoReq, IsReq
  <2>b. ahead' = ahead \cup {n}
    BY <1>8, <2>0
  <2>1. i \in DOMAIN objs[o].state
    BY <1>2, <1>8, <1>b
  <2>2. SameShape /\ Grows /\ Shaped' /\ ChunkNow(o, i, "loading")
    BY <1>2, <1>8, <1>a, <2>1, AheadIs
  <2>3. Renaming' /\ Cachings' /\ Pinned' /\ SameFiles
    BY <1>a, <2>2, GrowStep
  <2>4. req'[r] = k /\ \A s \in Reqs : s # r => req'[s] = req[s]
    BY <1>8, GoIs
  <2>5. ReqOk(k)'
    BY <1>a, <1>6, <2>2, <2>3, ReqKept
  <2>6. Requests'
    BY <1>a, <1>8, <2>2, <2>3, <2>5, RequestsStep
  <2>7. Typed'
    <3>1. IsFiniteSet(ahead)
      BY DEF RInv, Typed
    <3>2. IsFiniteSet(ahead')
      BY <2>b, <3>1, FS_AddElement
    <3>3. /\ objs' \in Seq(Objects) /\ loading' \subseteq Ids
          /\ (\A x \in ahead' : IsReq(x)) /\ handle' \in [Handles -> OpenFiles]
          /\ burst' \in [running : Int, queue : Seq(Reqs)] /\ ioq' \in Seq(Reqs) /\ reads' \in 0 .. MaxReads
          /\ free' \in [permits : Int, slots : Int]
      BY <1>a, <2>2, <2>a, <2>b DEF RInv, Typed, SameShape
    <3> QED BY <1>6, <1>8, <1>a, <3>2, <3>3, TypedStep
  <2>8. Flights'
    BY <1>0, <1>a, <1>6, <2>4, FlightsKept DEF Flying, At
  <2>9. Queues'
    BY <1>0, <1>a, <2>4, QueuesKept DEF At
  <2>10. Counts'
    <3>1. Slotted' = Slotted /\ NetThreads' = NetThreads /\ Permitted' = Permitted
      BY <1>0, <1>a, <1>6, <2>4 DEF Slotted, NetThreads, HasSlot, At, Permitted
    <3>2. SlotsAhead' = SlotsAhead
      BY <2>a, <2>b DEF SlotsAhead, HasSlot
    <3> QED BY <1>a, <3>1, <3>2, Zenon DEF RInv, Counts, NetWorkers, Permits
  <2>11. Loaders'
    <3>1. Loaders
      BY DEF RInv
    <3>2. /\ \A s \in Reqs : ~LoadsAt(req[s], o, i)
          /\ \A x \in ahead : ~LoadsAt(x, o, i)
      BY <1>8, <3>1 DEF Loaders, LoadsAt, Claimed
    <3>3. ~Loads(req[r]) /\ ~Loads(k) /\ LoadsAt(n, o, i) /\ Loads(n)
      BY <1>0, <1>6, <2>a DEF Loads, LoadsAt, At
    <3>4. \A x : Claimed(x) => Claimed(x)'
      BY <2>1, <2>2 DEF Claimed, SameShape, ChunkNow
    <3>5. Claimed(n)' /\ Fetched(n)'
      BY <1>2, <2>1, <2>2, <2>a DEF Claimed, SameShape, ChunkNow, Fetched
    <3>6. \A s \in Reqs : Loads(req'[s]) => req'[s] = req[s]
      BY <2>4, <3>3
    <3>7. \A s \in Reqs : Loads(req[s])' => Claimed(req[s])'
      <4>1. \A s \in Reqs : Loads(req'[s]) => Claimed(req'[s])
        BY <3>1, <3>6 DEF Loaders
      <4>2. \A s \in Reqs : Claimed(req'[s]) => Claimed(req[s])'
        BY <2>1, <2>2 DEF Claimed, SameShape, ChunkNow
      <4> QED BY <4>1, <4>2 DEF Loads
    <3>8. \A x \in ahead' : Loads(x) /\ ~x.permit /\ Claimed(x)' /\ Fetched(x)'
      <4>1. \A x \in ahead : Fetched(x) /\ Claimed(x) => Fetched(x)'
        BY <2>2 DEF Fetched, Claimed, SameShape
      <4> QED BY <2>a, <2>b, <3>1, <3>3, <3>4, <3>5, <4>1 DEF Loaders
    <3>9. \A p \in DOMAIN objs' : \A j \in DOMAIN objs'[p].state :
            objs'[p].state[j] = "loading" =>
              \/ \E s \in Reqs : LoadsAt(req'[s], p, j)
              \/ \E x \in ahead' : LoadsAt(x, p, j)
      <4>1. \A s \in Reqs : Loads(req[s]) => req'[s] = req[s]
        BY <2>4, <3>3
      <4>2. \A s \in Reqs : \A p, j : LoadsAt(req[s], p, j) => LoadsAt(req'[s], p, j)
        BY <4>1 DEF LoadsAt
      <4>3. ASSUME NEW p \in DOMAIN objs', NEW j \in DOMAIN objs'[p].state, objs'[p].state[j] = "loading"
            PROVE  \/ \E s \in Reqs : LoadsAt(req'[s], p, j)
                   \/ \E x \in ahead' : LoadsAt(x, p, j)
        <5>1. CASE p = o /\ j = i
          BY <2>b, <3>3, <5>1
        <5>2. CASE ~(p = o /\ j = i)
          <6>1. p \in DOMAIN objs /\ j \in DOMAIN objs[p].state /\ objs[p].state[j] = "loading"
            BY <2>2, <4>3, <5>2 DEF SameShape, ChunkNow
          <6> QED BY <2>b, <3>1, <4>2, <6>1 DEF Loaders
        <5> QED BY <5>1, <5>2
      <4> QED BY <4>3
    <3>10. /\ \A s, t \in Reqs : Loads(req'[s]) /\ LoadsAt(req'[t], req'[s].obj, req'[s].at) => s = t
           /\ \A s \in Reqs, x \in ahead : Loads(req'[s]) => ~LoadsAt(x, req'[s].obj, req'[s].at)
           /\ \A s \in Reqs : Loads(req'[s]) => ~LoadsAt(n, req'[s].obj, req'[s].at)
      BY <2>a, <3>1, <3>2, <3>6 DEF Loaders, LoadsAt
    <3>11. \A x, y \in ahead' : LoadsAt(y, x.obj, x.at) => x = y
      <4>1. \A x \in ahead : Loads(x)
        BY <3>1 DEF Loaders
      <4>2. \A x \in ahead : ~LoadsAt(n, x.obj, x.at) /\ ~LoadsAt(x, n.obj, n.at)
        BY <2>a, <3>2, <4>1 DEF LoadsAt
      <4> QED BY <2>b, <3>1, <4>2 DEF Loaders
    <3>12. \A s \in Reqs, x \in ahead' : Loads(req'[s]) => ~LoadsAt(x, req'[s].obj, req'[s].at)
      BY <2>b, <3>10
    <3> QED BY <3>7, <3>8, <3>9, <3>10, <3>11, <3>12 DEF Loaders, LoadsAt, Loads
  <2> QED BY <2>2, <2>3, <2>6, <2>7, <2>8, <2>9, <2>10, <2>11 DEF RInv
<1>9. CASE i > req[r].hi + ReadAhead \/ i >= objs[o].chunks
  BY <1>1, <1>4, <1>9 DEF ReadOn, Calm
<1>10. CASE ~(i > req[r].hi + ReadAhead \/ i >= objs[o].chunks)
  <2>1. i < objs[o].chunks
    BY <1>2, <1>b, <1>10
  <2>2. \/ GoTo(r, "copy") /\ objs' = objs /\ ahead' = ahead /\ faults' = faults
        \/ Go(r, k) /\ objs' = [objs EXCEPT ![o].tried = @ \cup {i}]
           /\ ahead' = ahead /\ (faults' = faults \/ Fault)
        \/ /\ Go(r, k) /\ objs[o].state[i] = "missing" /\ faults' = faults
           /\ objs' = [objs EXCEPT ![o] = [objs[o] EXCEPT !.tried = @ \cup {i}, !.state[i] = "loading"]]
           /\ ahead' = ahead \cup {[NoReq EXCEPT !.pc = "slot", !.obj = o, !.at = i]}
    BY <1>1, <1>5, <1>10, Zenon DEF ReadOn, Calm
  <2> QED BY <1>4, <1>7, <1>8, <2>1, <2>2
<1> QED BY <1>9, <1>10

\* What a step of a read-ahead thread leaves alone.
LEMMA AheadRest ==
  ASSUME RInv, Grows, objs' \in Seq(Objects), IsFiniteSet(ahead'), \A x \in ahead' : IsReq(x),
         faults' = faults \/ Fault, free' \in [permits : Int, slots : Int], free'.permits = free.permits,
         UNCHANGED <<world, index, stored, cache, large, loading, handle, req, burst, ioq, mover, reads>>
  PROVE  /\ Typed' /\ Requests' /\ Renaming' /\ Cachings' /\ Pinned' /\ Flights' /\ Queues'
         /\ Slotted' = Slotted
         /\ free'.permits + Cardinality(Permitted') = Permits'
         /\ burst'.running = Cardinality(NetThreads') /\ burst'.running <= NetWorkers'
<1>1. Renaming' /\ Cachings' /\ Pinned' /\ SameFiles
  BY GrowStep
<1>2. Requests'
  <2>1. \A r \in Reqs : ReqOk(req'[r])
    BY DEF RInv, Requests
  <2>2. \A r \in Reqs : ReqOk(req'[r]) => ReqOk(req[r])'
    BY <1>1, ReqKept
  <2> QED BY <2>1, <2>2 DEF Requests
<1>3. Typed'
  <2>1. faults \in 0 .. MaxFaults /\ MaxFaults \in Nat
    BY WorldIs DEF RInv, Typed
  <2>2. faults' \in 0 .. MaxFaults
    BY <2>1 DEF Fault
  <2> QED BY <2>2 DEF RInv, Typed, Ids, IsReq, Objects, States, OpenFiles, MaxReads, MaxFaults
<1>4. Flights'
  BY FlightsKept DEF Flying
<1>5. Queues'
  BY QueuesKept
<1>6. Slotted' = Slotted /\ NetThreads' = NetThreads /\ Permitted' = Permitted
  BY DEF Slotted, NetThreads, Permitted
<1> QED BY <1>1, <1>2, <1>3, <1>4, <1>5, <1>6, Zenon DEF RInv, Counts, NetWorkers, Permits

\* A read-ahead thread goes on with its chunk.
LEMMA AheadMoves ==
  ASSUME RInv, NEW x \in ahead, NEW y, IsReq(y), ahead' = (ahead \ {x}) \cup {y},
         y.obj = x.obj, y.at = x.at, ~y.permit, Loads(y), Fetched(y)', StillLoading, UNCHANGED req
  PROVE  /\ Loaders' /\ IsFiniteSet(ahead') /\ (\A z \in ahead' : IsReq(z))
         /\ \A z \in ahead \ {x} : z # y
<1>1. Loaders
  BY DEF RInv
<1>2. \A z \in ahead : LoadsAt(z, x.obj, x.at) => z = x
  BY <1>1 DEF Loaders
<1>3. \A z \in ahead \ {x} : z # y /\ ~LoadsAt(z, x.obj, x.at)
  BY <1>2 DEF LoadsAt
<1>4. IsFiniteSet(ahead') /\ (\A z \in ahead' : IsReq(z))
  <2>1. IsFiniteSet(ahead)
    BY DEF RInv, Typed
  <2>2. IsFiniteSet(ahead \ {x})
    BY <2>1, FS_RemoveElement
  <2>3. IsFiniteSet(ahead')
    BY <2>2, FS_AddElement
  <2> QED BY <2>3 DEF RInv, Typed
<1>5. \A z : Claimed(z) => Claimed(z)'
  BY DEF Claimed, StillLoading
<1>6. Claimed(y)'
  <2>1. Claimed(x)'
    BY <1>1, <1>5 DEF Loaders
  <2> QED BY <2>1 DEF Claimed
<1>7. \A s \in Reqs : Loads(req[s])' => Claimed(req[s])'
  <2>1. \A s \in Reqs : Loads(req'[s]) => Claimed(req'[s])
    BY <1>1 DEF Loaders
  <2>2. \A s \in Reqs : Claimed(req'[s]) => Claimed(req[s])'
    BY DEF Claimed, StillLoading
  <2> QED BY <2>1, <2>2 DEF Loads
<1>8. \A z \in ahead' : Loads(z) /\ ~z.permit /\ Claimed(z)' /\ Fetched(z)'
  <2>1. \A z \in ahead : Fetched(z) /\ Claimed(z) => Fetched(z)'
    BY DEF Fetched, Claimed, StillLoading
  <2> QED BY <1>1, <1>5, <1>6, <2>1 DEF Loaders
<1>9. \A p \in DOMAIN objs' : \A j \in DOMAIN objs'[p].state :
        objs'[p].state[j] = "loading" =>
          \/ \E s \in Reqs : LoadsAt(req'[s], p, j)
          \/ \E z \in ahead' : LoadsAt(z, p, j)
  <2>1. ASSUME NEW p \in DOMAIN objs', NEW j \in DOMAIN objs'[p].state, objs'[p].state[j] = "loading"
        PROVE  \/ \E s \in Reqs : LoadsAt(req'[s], p, j)
               \/ \E z \in ahead' : LoadsAt(z, p, j)
    <3>1. p \in DOMAIN objs /\ j \in DOMAIN objs[p].state /\ objs[p].state[j] = "loading"
      BY <2>1 DEF StillLoading
    <3>2. \/ \E s \in Reqs : LoadsAt(req[s], p, j)
          \/ \E z \in ahead : LoadsAt(z, p, j)
      BY <1>1, <3>1 DEF Loaders
    <3>3. LoadsAt(x, p, j) => LoadsAt(y, p, j)
      BY DEF LoadsAt
    <3> QED BY <3>2, <3>3
  <2> QED BY <2>1
<1>10. /\ \A s, t \in Reqs : Loads(req'[s]) /\ LoadsAt(req'[t], req'[s].obj, req'[s].at) => s = t
       /\ \A s \in Reqs, z \in ahead' : Loads(req'[s]) => ~LoadsAt(z, req'[s].obj, req'[s].at)
  <2>1. \A s \in Reqs : Loads(req[s]) => ~LoadsAt(x, req[s].obj, req[s].at)
    BY <1>1 DEF Loaders
  <2>2. \A s \in Reqs : Loads(req[s]) => ~LoadsAt(y, req[s].obj, req[s].at)
    BY <1>1, <2>1 DEF Loaders, LoadsAt
  <2> QED BY <1>1, <2>2 DEF Loaders, LoadsAt
<1>11. \A v, z \in ahead' : LoadsAt(z, v.obj, v.at) => v = z
  <2>1. \A v \in ahead \ {x} : ~LoadsAt(y, v.obj, v.at)
    <3>1. ASSUME NEW v \in ahead \ {x} PROVE ~LoadsAt(y, v.obj, v.at)
      <4>1. Loads(v) /\ ~LoadsAt(v, x.obj, x.at)
        BY <1>1, <1>3 DEF Loaders
      <4> QED BY <4>1 DEF LoadsAt
    <3> QED BY <3>1
  <2>2. \A z \in ahead \ {x} : ~LoadsAt(z, y.obj, y.at)
    BY <1>3
  <2> QED BY <1>1, <2>1, <2>2 DEF Loaders
<1> QED BY <1>3, <1>4, <1>7, <1>8, <1>9, <1>10, <1>11 DEF Loaders, LoadsAt, Loads

LEMMA AheadStepKeeps ==
  ASSUME RInv, NEW x \in ahead, AheadStep(x)
  PROVE  RInv'
<1>0. UNCHANGED <<world, index, stored, cache, large, loading, handle, req, burst, ioq, mover, reads>>
  BY DEF AheadStep, files
<1>1. /\ IsReq(x) /\ Loads(x) /\ ~x.permit /\ Claimed(x) /\ Fetched(x)
      /\ \A z \in ahead : LoadsAt(z, x.obj, x.at) => z = x
  BY DEF RInv, Typed, Loaders
<1>2. /\ IsFiniteSet(ahead) /\ free \in [permits : Int, slots : Int] /\ objs \in Seq(Objects)
  BY DEF RInv, Typed
<1>3. IsFiniteSet(SlotsAhead) /\ Cardinality(SlotsAhead) \in Nat
  BY <1>2, FS_Subset, FS_CardinalityType DEF SlotsAhead
<1>4. Cardinality(Slotted) \in Nat /\ free.slots + Cardinality(Slotted) + Cardinality(SlotsAhead) = ChunkSlots
  BY FiniteReqs DEF RInv, Counts, Slotted
<1>5. CASE /\ x.pc = "slot" /\ free.slots > 0 /\ free' = [free EXCEPT !.slots = @ - 1]
           /\ ahead' = (ahead \ {x}) \cup {[x EXCEPT !.pc = "fetch"]} /\ UNCHANGED <<objs, faults>>
  <2>1. PICK y : y = [x EXCEPT !.pc = "fetch"]
    OBVIOUS
  <2>2. /\ IsReq(y) /\ y.obj = x.obj /\ y.at = x.at /\ ~y.permit /\ y.pc = "fetch"
    BY <1>1, <2>1 DEF IsReq
  <2>3. ahead' = (ahead \ {x}) \cup {y}
    BY <1>5, <2>1
  <2>4. Grows /\ StillLoading /\ Loads(y) /\ Fetched(y)'
    BY <1>5, <2>2, StillIs DEF Loads, Fetched
  <2>5. /\ Loaders' /\ IsFiniteSet(ahead') /\ (\A z \in ahead' : IsReq(z))
        /\ \A z \in ahead \ {x} : z # y
    BY <1>0, <2>2, <2>3, <2>4, AheadMoves
  <2>6. /\ free' \in [permits : Int, slots : Int] /\ free'.permits = free.permits
        /\ free'.slots = free.slots - 1
    BY <1>2, <1>5
  <2>7. /\ Typed' /\ Requests' /\ Renaming' /\ Cachings' /\ Pinned' /\ Flights' /\ Queues'
        /\ Slotted' = Slotted
        /\ free'.permits + Cardinality(Permitted') = Permits'
        /\ burst'.running = Cardinality(NetThreads') /\ burst'.running <= NetWorkers'
    BY <1>0, <1>2, <1>5, <2>4, <2>5, <2>6, AheadRest
  <2>8. Shaped'
    BY <1>0, <1>5 DEF RInv, Shaped, Small
  <2>9. SlotsAhead' = SlotsAhead \cup {y} /\ y \notin SlotsAhead
    BY <1>5, <2>2, <2>3, <2>5 DEF SlotsAhead, HasSlot
  <2>10. Cardinality(SlotsAhead') = Cardinality(SlotsAhead) + 1
    BY <1>3, <2>9, FS_AddElement
  <2>11. free'.slots + Cardinality(Slotted') + Cardinality(SlotsAhead') = ChunkSlots
    BY <1>2, <1>3, <1>4, <2>6, <2>7, <2>10
  <2> QED BY <2>5, <2>7, <2>8, <2>11 DEF RInv, Counts
<1>6. ASSUME NEW y, IsReq(y), y.obj = x.obj, y.at = x.at, ~y.permit, x.pc = "fetch",
             y.pc \in {"fetch", "loaded"}, ahead' = (ahead \ {x}) \cup {y}, free' = free,
             \/ objs' = objs /\ (y.pc = "loaded" => ~y.ok)
             \/ objs' = [objs EXCEPT ![x.obj].have = @ \cup {x.at}],
             faults' = faults \/ Fault
      PROVE  RInv'
  <2>1. objs' \in Seq(Objects) /\ Grows /\ StillLoading /\ Shaped' /\ Fetched(y)'
    <3>1. CASE objs' = objs /\ (y.pc = "loaded" => ~y.ok)
      <4>1. Grows /\ StillLoading
        BY <3>1, StillIs
      <4>2. Shaped'
        BY <1>0, <3>1 DEF RInv, Shaped, Small
      <4> QED BY <1>2, <3>1, <4>1, <4>2 DEF Fetched
    <3>2. CASE objs' = [objs EXCEPT ![x.obj].have = @ \cup {x.at}]
      <4>1. x.obj \in DOMAIN objs /\ x.at \in DOMAIN objs[x.obj].state
        BY <1>1 DEF Claimed
      <4>2. SameShape /\ Grows /\ Shaped' /\ StillLoading /\ x.at \in objs'[x.obj].have
        BY <1>0, <3>2, <4>1, HaveIs
      <4> QED BY <1>6, <4>2 DEF SameShape, Fetched
    <3> QED BY <1>6, <3>1, <3>2
  <2>2. Loads(y)
    BY <1>6 DEF Loads
  <2>3. /\ Loaders' /\ IsFiniteSet(ahead') /\ (\A z \in ahead' : IsReq(z))
        /\ \A z \in ahead \ {x} : z # y
    BY <1>0, <1>6, <2>1, <2>2, AheadMoves
  <2>4. /\ free' \in [permits : Int, slots : Int] /\ free'.permits = free.permits
        /\ free'.slots = free.slots
    BY <1>2, <1>6
  <2>5. /\ Typed' /\ Requests' /\ Renaming' /\ Cachings' /\ Pinned' /\ Flights' /\ Queues'
        /\ Slotted' = Slotted
        /\ free'.permits + Cardinality(Permitted') = Permits'
        /\ burst'.running = Cardinality(NetThreads') /\ burst'.running <= NetWorkers'
    BY <1>0, <1>6, <2>1, <2>3, <2>4, AheadRest
  <2>6. PICK T : T = SlotsAhead \ {x}
    OBVIOUS
  <2>7. SlotsAhead' = T \cup {y} /\ y \notin T /\ x \in SlotsAhead
    BY <1>6, <2>3, <2>6 DEF SlotsAhead, HasSlot
  <2>8. IsFiniteSet(T) /\ Cardinality(T) = Cardinality(SlotsAhead) - 1
    BY <1>3, <2>6, <2>7, FS_RemoveElement
  <2>9. Cardinality(SlotsAhead') = Cardinality(T) + 1
    BY <2>7, <2>8, FS_AddElement
  <2>10. free'.slots + Cardinality(Slotted') + Cardinality(SlotsAhead') = ChunkSlots
    BY <1>2, <1>3, <1>4, <2>4, <2>5, <2>8, <2>9
  <2> QED BY <2>1, <2>3, <2>5, <2>10 DEF RInv, Counts

<1>7. CASE /\ x.pc = "loaded" /\ free' = [free EXCEPT !.slots = @ + 1]
           /\ SetChunk(x.obj, x.at, AfterLoad(x.ok)) /\ ahead' = ahead \ {x} /\ UNCHANGED faults
  <2>1. PICK o, i, s : o = x.obj /\ i = x.at /\ s = AfterLoad(x.ok)
    OBVIOUS
  <2>2. /\ o \in DOMAIN objs /\ i \in DOMAIN objs[o].state /\ objs[o].state[i] = "loading"
        /\ s \in {"missing", "ready"} /\ (s = "ready" => i \in objs[o].have)
    BY <1>1, <1>7, <2>1 DEF Claimed, AfterLoad, Fetched
  <2>3. SameShape /\ Grows /\ Shaped' /\ ChunkNow(o, i, s)
    BY <1>0, <1>7, <2>1, <2>2, SetChunkIs
  <2>4. IsFiniteSet(ahead') /\ (\A z \in ahead' : IsReq(z)) /\ objs' \in Seq(Objects)
    <3>1. IsFiniteSet(ahead')
      BY <1>2, <1>7, FS_RemoveElement
    <3> QED BY <1>7, <2>3, <3>1 DEF RInv, Typed, SameShape
  <2>5. /\ free' \in [permits : Int, slots : Int] /\ free'.permits = free.permits
        /\ free'.slots = free.slots + 1
    BY <1>2, <1>7
  <2>6. /\ Typed' /\ Requests' /\ Renaming' /\ Cachings' /\ Pinned' /\ Flights' /\ Queues'
        /\ Slotted' = Slotted
        /\ free'.permits + Cardinality(Permitted') = Permits'
        /\ burst'.running = Cardinality(NetThreads') /\ burst'.running <= NetWorkers'
    BY <1>0, <1>7, <2>3, <2>4, <2>5, AheadRest
  <2>7. SlotsAhead' = SlotsAhead \ {x} /\ x \in SlotsAhead
    BY <1>7 DEF SlotsAhead, HasSlot
  <2>8. Cardinality(SlotsAhead') = Cardinality(SlotsAhead) - 1
    BY <1>3, <2>7, FS_RemoveElement
  <2>9. free'.slots + Cardinality(Slotted') + Cardinality(SlotsAhead') = ChunkSlots
    BY <1>2, <1>3, <1>4, <2>5, <2>6, <2>8
  <2>10. Loaders'
    <3>0. Loaders
      BY DEF RInv
    <3>1. LoadsAt(x, o, i)
      BY <1>1, <2>1 DEF LoadsAt
    <3>2. /\ \A t \in Reqs : ~LoadsAt(req[t], o, i)
          /\ \A z \in ahead' : ~LoadsAt(z, o, i)
      <4>1. \A t \in Reqs : Loads(req[t]) => ~LoadsAt(x, req[t].obj, req[t].at)
        BY <3>0 DEF Loaders
      <4> QED BY <1>1, <1>7, <2>1, <4>1 DEF LoadsAt
    <3>3. \A z : Claimed(z) /\ Loads(z) /\ ~LoadsAt(z, o, i) => Claimed(z)'
      BY <2>2, <2>3 DEF Claimed, SameShape, ChunkNow, LoadsAt
    <3>4. \A t \in Reqs : Loads(req[t])' => Claimed(req[t])'
      <4>1. \A t \in Reqs : Loads(req'[t]) => Claimed(req'[t]) /\ ~LoadsAt(req'[t], o, i)
        BY <1>0, <3>0, <3>2 DEF Loaders
      <4>2. \A t \in Reqs : Claimed(req'[t]) /\ Loads(req'[t]) /\ ~LoadsAt(req'[t], o, i) => Claimed(req[t])'
        BY <2>2, <2>3 DEF Claimed, SameShape, ChunkNow, LoadsAt
      <4> QED BY <4>1, <4>2 DEF Loads
    <3>5. \A z \in ahead' : Loads(z) /\ ~z.permit /\ Claimed(z)' /\ Fetched(z)'
      <4>1. \A z \in ahead : Fetched(z) /\ Claimed(z) => Fetched(z)'
        BY <2>3 DEF Fetched, Claimed, SameShape
      <4> QED BY <1>7, <3>0, <3>2, <3>3, <4>1 DEF Loaders
    <3>6. \A p \in DOMAIN objs' : \A j \in DOMAIN objs'[p].state :
            objs'[p].state[j] = "loading" =>
              \/ \E t \in Reqs : LoadsAt(req'[t], p, j)
              \/ \E z \in ahead' : LoadsAt(z, p, j)
      <4>1. ASSUME NEW p \in DOMAIN objs', NEW j \in DOMAIN objs'[p].state, objs'[p].state[j] = "loading"
            PROVE  \/ \E t \in Reqs : LoadsAt(req'[t], p, j)
                   \/ \E z \in ahead' : LoadsAt(z, p, j)
        <5>1. p \in DOMAIN objs /\ j \in DOMAIN objs[p].state /\ objs[p].state[j] = "loading"
              /\ ~(p = o /\ j = i)
          BY <2>2, <2>3, <4>1 DEF SameShape, ChunkNow
        <5>2. \/ \E t \in Reqs : LoadsAt(req[t], p, j)
              \/ \E z \in ahead : LoadsAt(z, p, j)
          BY <3>0, <5>1 DEF Loaders
        <5>3. ~LoadsAt(x, p, j)
          BY <2>1, <5>1 DEF LoadsAt
        <5> QED BY <1>0, <1>7, <5>2, <5>3
      <4> QED BY <4>1
    <3>7. /\ \A t, u \in Reqs : Loads(req'[t]) /\ LoadsAt(req'[u], req'[t].obj, req'[t].at) => t = u
          /\ \A t \in Reqs, z \in ahead' : Loads(req'[t]) => ~LoadsAt(z, req'[t].obj, req'[t].at)
          /\ \A y, z \in ahead' : LoadsAt(z, y.obj, y.at) => y = z
      BY <1>0, <1>7, <3>0 DEF Loaders
    <3> QED BY <3>4, <3>5, <3>6, <3>7 DEF Loaders, LoadsAt, Loads
  <2> QED BY <2>3, <2>6, <2>9, <2>10 DEF RInv, Counts
<1>8. CASE Fetch(x, LAMBDA y : ahead' = (ahead \ {x}) \cup {y})
  <2>0. x.pc = "fetch" /\ free' = free
    BY <1>8 DEF Fetch
  <2>1. \E there \in BOOLEAN : there = (objs[x.obj].from \in stored)
    <3>1. CASE objs[x.obj].from \in stored
      <4>1. TRUE = (objs[x.obj].from \in stored)
        BY <3>1
      <4> QED BY <4>1
    <3>2. CASE objs[x.obj].from \notin stored
      <4>1. FALSE = (objs[x.obj].from \in stored)
        BY <3>2
      <4> QED BY <4>1
    <3> QED BY <3>1, <3>2
  <2>a. PICK there \in BOOLEAN : there = (objs[x.obj].from \in stored)
    BY <2>1
  <2>2. CASE /\ ahead' = (ahead \ {x}) \cup {[x EXCEPT !.pc = "loaded", !.ok = there]} /\ Calm
             /\ objs' = IF there THEN [objs EXCEPT ![x.obj].have = @ \cup {x.at}] ELSE objs
    <3>1. PICK y : y = [x EXCEPT !.pc = "loaded", !.ok = there]
      OBVIOUS
    <3>2. IsReq(y) /\ y.pc = "loaded" /\ y.ok = there /\ y.obj = x.obj /\ y.at = x.at /\ ~y.permit
      BY <1>1, <3>1 DEF IsReq
    <3>3. ahead' = (ahead \ {x}) \cup {y} /\ faults' = faults
      BY <2>2, <3>1 DEF Calm
    <3> QED BY <1>6, <2>0, <2>2, <3>2, <3>3
  <2>3. CASE objs' = objs /\ Fault /\ ahead' = (ahead \ {x}) \cup {[x EXCEPT !.tries = @ + 1]}
    <3>1. PICK y : y = [x EXCEPT !.tries = @ + 1]
      OBVIOUS
    <3>2. IsReq(y) /\ y.pc = "fetch" /\ y.obj = x.obj /\ y.at = x.at /\ ~y.permit
      BY <1>1, <2>0, <3>1 DEF IsReq
    <3>3. ahead' = (ahead \ {x}) \cup {y}
      BY <2>3, <3>1
    <3> QED BY <1>6, <2>0, <2>3, <3>2, <3>3
  <2>4. CASE /\ objs' = objs /\ Fault
             /\ ahead' = (ahead \ {x}) \cup {[x EXCEPT !.pc = "loaded", !.ok = FALSE]}
    <3>1. PICK y : y = [x EXCEPT !.pc = "loaded", !.ok = FALSE]
      OBVIOUS
    <3>2. IsReq(y) /\ y.pc = "loaded" /\ y.ok = FALSE /\ y.obj = x.obj /\ y.at = x.at /\ ~y.permit
      BY <1>1, <3>1 DEF IsReq
    <3>3. ahead' = (ahead \ {x}) \cup {y}
      BY <2>4, <3>1
    <3> QED BY <1>6, <2>0, <2>4, <3>2, <3>3
  <2> QED BY <1>8, <2>a, <2>2, <2>3, <2>4 DEF Fetch
<1> QED BY <1>5, <1>7, <1>8 DEF AheadStep, TakeSlot, Loaded

-----------------------------------------------------------------------------
(* A request starts, ends, and goes through the queues. *)

\* What is the same when requests that load nothing and have no claim go on.
LEMMA ReqsMove ==
  ASSUME RInv, DOMAIN req' = Reqs, \A s \in Reqs : IsReq(req'[s]) /\ ReqOk(req'[s]),
         \A s \in Reqs : \/ req'[s] = req[s]
                         \/ {req[s].pc, req'[s].pc} \cap ({"slot", "fetch", "loaded"} \cup InFlight) = {},
         Cachings', Pinned', SameFiles, handle' \in [Handles -> OpenFiles],
         burst' \in [running : Int, queue : Seq(Reqs)], ioq' \in Seq(Reqs),
         free' \in [permits : Int, slots : Int], reads' \in 0 .. MaxReads, faults' = faults \/ Fault,
         UNCHANGED <<world, index, stored, objs, mover, loading, ahead>>
  PROVE  /\ Typed' /\ Renaming' /\ Shaped' /\ Requests' /\ Flights' /\ Loaders'
         /\ Slotted' = Slotted /\ SlotsAhead' = SlotsAhead
<1>1. Grows /\ StillLoading
  BY DEF Grows, StillLoading
<1>2. Renaming' /\ Shaped'
  BY DEF RInv, Renaming, Shaped, Ids, ContentOf, Small
<1>3. Requests'
  <2>1. \A s \in Reqs : ReqOk(req'[s]) => ReqOk(req[s])'
    BY <1>1, ReqKept
  <2> QED BY <2>1 DEF Requests
<1>4. Typed'
  <2>1. faults \in 0 .. MaxFaults /\ MaxFaults \in Nat
    BY WorldIs DEF RInv, Typed
  <2>2. faults' \in 0 .. MaxFaults
    BY <2>1 DEF Fault
  <2>3. \A x \in ahead : IsReq(x)
    BY DEF RInv, Typed
  <2> QED BY <2>2, <2>3 DEF RInv, Typed, Ids, IsReq, Objects, States, OpenFiles, MaxReads, MaxFaults
<1>5. \A s \in Reqs : (Flying(s)' <=> Flying(s)) /\ (Flying(s) => req'[s] = req[s])
  BY DEF Flying, InFlight
<1>6. Flights'
  BY <1>5, FlightsKept
<1>7. \A s \in Reqs : Loads(req[s]) \/ Loads(req'[s]) => req'[s] = req[s]
  BY DEF Loads
<1>8. Loaders'
  BY <1>1, <1>7, LoadersKept
<1>9. Slotted' = Slotted /\ SlotsAhead' = SlotsAhead
  BY <1>7 DEF Slotted, SlotsAhead, HasSlot, Loads
<1> QED BY <1>2, <1>3, <1>4, <1>6, <1>8, <1>9

LEMMA QueueJoined ==
  ASSUME NEW q \in Seq(Reqs), NEW via, Queued(q, via), NEW r \in Reqs, req[r].pc # "queued",
         req'[r].pc = "queued", req'[r].via = via, \A s \in Reqs : s # r => req'[s] = req[s],
         NEW w, w = Append(q, r)
  PROVE  /\ w \in Seq(Reqs)
         /\ \A n \in DOMAIN w : req'[w[n]].pc = "queued" /\ req'[w[n]].via = via
         /\ \A m, n \in DOMAIN w : w[m] = w[n] => m = n
<1>0. /\ w \in Seq(Reqs) /\ DOMAIN w = (DOMAIN q) \cup {Len(q) + 1} /\ w[Len(q) + 1] = r
      /\ Len(q) + 1 \notin DOMAIN q /\ \A j \in DOMAIN q : w[j] = q[j]
  OBVIOUS
<1>1. /\ w \in Seq(Reqs) /\ \A y : Has(w, y) <=> (y = r \/ Has(q, y))
      /\ \A y : Once(q, y) /\ (y # r \/ ~Has(q, y)) => Once(w, y)
  BY <1>0 DEF Has, Once
<1>2. \A y : Once(q, y)
  BY DEF Queued, Once
<1>3. \A y : Has(q, y) => y \in Reqs /\ req[y].pc = "queued" /\ req[y].via = via
  BY DEF Queued, Has
<1>4. \A y : Once(w, y)
  BY <1>1, <1>2, <1>3
<1>5. \A y : Has(w, y) => req'[y].pc = "queued" /\ req'[y].via = via
  BY <1>1, <1>3
<1> QED BY <1>1, <1>4, <1>5 DEF Once, Has

LEMMA QueueLeft ==
  ASSUME NEW q \in Seq(Reqs), NEW via, Queued(q, via), q # << >>,
         \A s \in Reqs : s # Head(q) /\ req[s].pc = "queued" => req'[s] = req[s],
         NEW w, w = Tail(q)
  PROVE  /\ w \in Seq(Reqs) /\ Head(q) \in Reqs /\ req[Head(q)].pc = "queued" /\ req[Head(q)].via = via
         /\ \A n \in DOMAIN w : req'[w[n]].pc = "queued" /\ req'[w[n]].via = via
         /\ \A m, n \in DOMAIN w : w[m] = w[n] => m = n
<1>1. /\ w \in Seq(Reqs) /\ Head(q) \in Reqs /\ Has(q, Head(q)) /\ \A y : Has(w, y) => Has(q, y)
      /\ \A y : Once(q, y) => Once(w, y) /\ (y = Head(q) => ~Has(w, y))
  BY TailIs
<1>2. \A y : Once(q, y)
  BY DEF Queued, Once
<1>3. \A y : Has(q, y) => y \in Reqs /\ req[y].pc = "queued" /\ req[y].via = via
  BY DEF Queued, Has
<1>4. \A y : Once(w, y)
  BY <1>1, <1>2
<1>5. \A y : Has(w, y) => req'[y].pc = "queued" /\ req'[y].via = via
  BY <1>1, <1>2, <1>3
<1>6. \A n \in DOMAIN w : Has(w, w[n])
  BY DEF Has
<1>7. \A m, n \in DOMAIN w : w[m] = w[n] => m = n
  BY <1>4, Zenon DEF Once
<1>8. req[Head(q)].pc = "queued" /\ req[Head(q)].via = via
  BY <1>1, <1>3, Zenon
<1>9. \A n \in DOMAIN w : req'[w[n]].pc = "queued" /\ req'[w[n]].via = via
  BY <1>5, <1>6, Zenon
<1> QED BY <1>1, <1>7, <1>8, <1>9, Zenon

\* The counters of a typed state.
LEMMA CountsIs ==
  ASSUME RInv
  PROVE  /\ burst \in [running : Int, queue : Seq(Reqs)] /\ burst.running \in Nat
         /\ ioq \in Seq(Reqs) /\ free \in [permits : Int, slots : Int]
         /\ NetWorkers \in Nat /\ handle \in [Handles -> OpenFiles] /\ reads \in 0 .. MaxReads
         /\ MaxReads \in Nat /\ DOMAIN req = Reqs
         /\ (\A s \in Reqs : IsReq(req[s]) /\ ReqOk(req[s]))
<1>1. Cardinality(NetThreads) \in Nat /\ burst.running = Cardinality(NetThreads)
  BY FiniteReqs DEF RInv, Counts, NetThreads
<1> QED BY <1>1, WorldIs DEF RInv, Typed, Requests

LEMMA IoTakeKeeps ==
  ASSUME RInv, NEW r \in Reqs, IoTake(r)
  PROVE  RInv'
<1>0. UNCHANGED <<world, index, stored, objs, handle, cache, large, mover, loading, ahead, burst, free,
                  reads, faults>>
  BY DEF IoTake, files, store
<1>1. ioq # << >> /\ Head(ioq) = r /\ ioq' = Tail(ioq) /\ Queued(ioq, "io")
  BY DEF IoTake, RInv, Queues
<1>2. PICK k : k = [req[r] EXCEPT !.pc = "read"]
  OBVIOUS
<1>3. Go(r, k)
  BY <1>2, GoToIs DEF IoTake
<1>4. DOMAIN req' = Reqs /\ req'[r] = k /\ \A s \in Reqs : s # r => req'[s] = req[s]
  BY <1>3, GoIs
<1>5. PICK w : w = Tail(ioq)
  OBVIOUS
<1>6. /\ w \in Seq(Reqs) /\ req[r].pc = "queued" /\ req[r].via = "io"
      /\ \A n \in DOMAIN w : req'[w[n]].pc = "queued" /\ req'[w[n]].via = "io"
      /\ \A m, n \in DOMAIN w : w[m] = w[n] => m = n
  <2>1. ioq \in Seq(Reqs) /\ \A s \in Reqs : s # Head(ioq) /\ req[s].pc = "queued" => req'[s] = req[s]
    BY <1>1, <1>4, CountsIs
  <2>2. /\ w \in Seq(Reqs) /\ req[Head(ioq)].pc = "queued" /\ req[Head(ioq)].via = "io"
        /\ \A n \in DOMAIN w : req'[w[n]].pc = "queued" /\ req'[w[n]].via = "io"
        /\ \A m, n \in DOMAIN w : w[m] = w[n] => m = n
    BY SMTT(20), <1>1, <1>5, <2>1, QueueLeft
  <2> QED BY <1>1, <2>2
<1>7. IsReq(k) /\ ReqOk(k) /\ k.pc = "read" /\ k.via = "io" /\ k.permit = req[r].permit
  BY <1>2, <1>6, ReqIs DEF IsReq, InFlight, ReqOk, Aimed, HasFile, Progress, Reading, Steps
<1>8. Cachings' /\ Pinned' /\ SameFiles
  BY <1>0, QuietStep
<1>9. /\ Typed' /\ Renaming' /\ Shaped' /\ Requests' /\ Flights' /\ Loaders'
      /\ Slotted' = Slotted /\ SlotsAhead' = SlotsAhead
  <2>1. \A s \in Reqs : IsReq(req'[s]) /\ ReqOk(req'[s])
    BY <1>4, <1>7, CountsIs
  <2>2. \A s \in Reqs : \/ req'[s] = req[s]
                        \/ {req[s].pc, req'[s].pc} \cap ({"slot", "fetch", "loaded"} \cup InFlight) = {}
    BY <1>4, <1>6, <1>7 DEF InFlight
  <2>3. ioq' \in Seq(Reqs)
    BY <1>1, <1>5, <1>6
  <2> QED BY <1>0, <1>4, <1>8, <2>1, <2>2, <2>3, ReqsMove, CountsIs
<1>10. Queues'
  <2>1. Queued(ioq, "io")'
    BY <1>1, <1>5, <1>6 DEF Queued
  <2>2. Queued(burst.queue, "net") /\ burst.queue \in Seq(Reqs)
    BY CountsIs DEF RInv, Queues
  <2>3. \A n \in DOMAIN burst.queue : req'[burst.queue[n]] = req[burst.queue[n]]
    BY <1>4, <1>6, <2>2 DEF Queued
  <2>4. Queued(burst.queue, "net")'
    BY <1>0, <2>2, <2>3 DEF Queued
  <2> QED BY <1>0, <2>1, <2>4 DEF RInv, Queues, NetWorkers
<1>11. Counts'
  <2>1. Permitted' = Permitted /\ NetThreads' = NetThreads
    BY <1>4, <1>6, <1>7 DEF Permitted, NetThreads
  <2> QED BY <1>0, <1>9, <2>1, Zenon DEF RInv, Counts, NetWorkers, Permits
<1> QED BY <1>8, <1>9, <1>10, <1>11 DEF RInv

LEMMA NoReqIs == IsReq(NoReq) /\ ReqOk(NoReq) /\ NoReq.pc = "idle" /\ ~NoReq.permit
BY DEF NoReq, IsReq, ReqOk, HasFile, Progress, Reading

\* What an answer leaves to be shown.
LEMMA AnswerStep ==
  ASSUME RInv, NEW r \in Reqs, req[r].pc = "answer", DOMAIN req' = Reqs, req'[r] = NoReq,
         \A s \in Reqs : s # r => \/ req'[s] = req[s]
                                  \/ /\ req[s].pc = "queued" /\ IsReq(req'[s]) /\ ReqOk(req'[s])
                                     /\ req'[s].pc = "cached" /\ req'[s].permit = req[s].permit,
         free' = [free EXCEPT !.permits = IF req[r].permit THEN @ + 1 ELSE @],
         burst' \in [running : Int, queue : Seq(Reqs)], burst'.running = Cardinality(NetThreads'),
         burst'.running <= NetWorkers, Queues',
         UNCHANGED <<world, index, stored, cache, large, objs, loading, handle, ahead, ioq, mover, reads,
                     faults>>
  PROVE  RInv'
<1>1. Cachings' /\ Pinned' /\ SameFiles
  BY QuietStep
<1>2. /\ free' \in [permits : Int, slots : Int] /\ free'.slots = free.slots
      /\ free'.permits = IF req[r].permit THEN free.permits + 1 ELSE free.permits
  BY CountsIs
<1>3. /\ Typed' /\ Renaming' /\ Shaped' /\ Requests' /\ Flights' /\ Loaders'
      /\ Slotted' = Slotted /\ SlotsAhead' = SlotsAhead
  <2>1. \A s \in Reqs : IsReq(req'[s]) /\ ReqOk(req'[s])
    BY NoReqIs, CountsIs
  <2>2. \A s \in Reqs : \/ req'[s] = req[s]
                        \/ {req[s].pc, req'[s].pc} \cap ({"slot", "fetch", "loaded"} \cup InFlight) = {}
    BY NoReqIs DEF InFlight
  <2> QED BY <1>1, <1>2, <2>1, <2>2, ReqsMove, CountsIs
<1>4. free'.permits + Cardinality(Permitted') = Permits'
  <2>1. \A s \in Reqs : s # r => req'[s].permit = req[s].permit
    OBVIOUS
  <2>2. Permitted' = Permitted \ {r}
    BY <2>1, NoReqIs DEF Permitted
  <2>3. Cardinality(Permitted) \in Nat /\ free.permits + Cardinality(Permitted) = Permits /\ free.permits \in Int
    BY FiniteReqs, CountsIs DEF RInv, Counts, Permitted
  <2>4. CASE req[r].permit
    <3>1. r \in Permitted
      BY <2>4 DEF Permitted
    <3>2. PICK T : T = Permitted
      OBVIOUS
    <3>3. T \subseteq Reqs /\ r \in T
      BY <3>1, <3>2 DEF Permitted
    <3>4. Cardinality(T \ {r}) = Cardinality(T) - 1
      BY <3>3, FiniteReqs
    <3>5. Cardinality(Permitted') = Cardinality(Permitted) - 1
      BY <2>2, <3>2, <3>4
    <3> QED BY <1>2, <2>3, <2>4, <3>5 DEF Permits
  <2>5. CASE ~req[r].permit
    <3>1. Permitted' = Permitted
      BY <2>2, <2>5 DEF Permitted
    <3> QED BY <1>2, <2>3, <2>5, <3>1 DEF Permits
  <2> QED BY <2>4, <2>5
<1>5. Counts'
  BY <1>2, <1>3, <1>4, Zenon DEF RInv, Counts, NetWorkers
<1> QED BY <1>1, <1>3, <1>5 DEF RInv

LEMMA AnswerKeeps ==
  ASSUME RInv, NEW r \in Reqs, Answer(r)
  PROVE  RInv'
<1>0. UNCHANGED <<world, index, stored, cache, large, objs, loading, handle, ahead, ioq, mover, reads,
                  faults>>
  BY DEF Answer, ReplyAnd, files, store
<1>1. req[r].pc = "answer" /\ free' = [free EXCEPT !.permits = IF req[r].permit THEN @ + 1 ELSE @]
  BY DEF Answer, ReplyAnd, At
<1>2. /\ Queued(burst.queue, "net") /\ Queued(ioq, "io")
      /\ (burst.queue # << >> => burst.running = NetWorkers)
      /\ burst.running = Cardinality(NetThreads) /\ burst.running <= NetWorkers
  BY DEF RInv, Queues, Counts
<1>3. /\ burst \in [running : Int, queue : Seq(Reqs)] /\ burst.running \in Nat /\ ioq \in Seq(Reqs)
      /\ NetWorkers \in Nat /\ NetWorkers' = NetWorkers /\ burst.queue \in Seq(Reqs)
  BY <1>0, CountsIs DEF NetWorkers
<1>4. CASE req[r].via # "net"
  <2>1. Go(r, NoReq) /\ burst' = burst
    BY <1>4 DEF Answer, ReplyAnd
  <2>2. DOMAIN req' = Reqs /\ req'[r] = NoReq /\ \A s \in Reqs : s # r => req'[s] = req[s]
    BY <2>1, GoIs
  <2>3. NetThreads' = NetThreads
    BY <1>4, <2>2, NoReqIs DEF NetThreads
  <2>4. Queues'
    BY <1>0, <1>1, <2>1, <2>2, QueuesKept
  <2> QED BY <1>0, <1>1, <1>2, <1>3, <2>1, <2>2, <2>3, <2>4, AnswerStep
<1>5. CASE req[r].via = "net" /\ burst.queue = << >>
  <2>1. Go(r, NoReq) /\ burst' = [burst EXCEPT !.running = @ - 1]
    BY <1>5 DEF Answer, ReplyAnd
  <2>2. DOMAIN req' = Reqs /\ req'[r] = NoReq /\ \A s \in Reqs : s # r => req'[s] = req[s]
    BY <2>1, GoIs
  <2>3. NetThreads' = NetThreads \ {r} /\ r \in NetThreads
    BY <1>1, <1>5, <2>2, NoReqIs DEF NetThreads
  <2>4. burst' \in [running : Int, queue : Seq(Reqs)] /\ burst'.running = burst.running - 1
        /\ burst'.queue = << >>
    BY <1>3, <1>5, <2>1
  <2>5. burst'.running = Cardinality(NetThreads') /\ burst'.running <= NetWorkers
    <3>1. PICK T : T = NetThreads
      OBVIOUS
    <3>2. T \subseteq Reqs /\ r \in T
      BY <2>3, <3>1 DEF NetThreads
    <3>3. Cardinality(T \ {r}) = Cardinality(T) - 1
      BY <3>2, FiniteReqs
    <3> QED BY <1>2, <1>3, <2>3, <2>4, <3>1, <3>3
  <2>6. Queues'
    <3>1. \A n \in DOMAIN ioq : req'[ioq[n]] = req[ioq[n]]
      BY <1>1, <1>2, <1>3, <2>2 DEF Queued
    <3>2. Queued(ioq, "io")'
      BY <1>0, <1>2, <3>1 DEF Queued
    <3> QED BY <2>4, <3>2 DEF Queues, Queued
  <2> QED BY <1>0, <1>1, <2>2, <2>4, <2>5, <2>6, AnswerStep
<1>6. CASE req[r].via = "net" /\ burst.queue # << >>
  <2>0. PICK x : x = Head(burst.queue)
    OBVIOUS
  <2>1. /\ req' = [req EXCEPT ![r] = NoReq, ![x].pc = "cached"]
        /\ burst' = [burst EXCEPT !.queue = Tail(@)]
    BY <1>6, <2>0 DEF Answer, ReplyAnd
  <2>2. x \in Reqs /\ req[x].pc = "queued" /\ req[x].via = "net" /\ x # r
    BY <1>1, <1>2, <1>3, <1>6, <2>0 DEF Queued
  <2>3. PICK k : k = [req[x] EXCEPT !.pc = "cached"]
    OBVIOUS
  <2>4. DOMAIN req' = Reqs /\ req'[r] = NoReq /\ req'[x] = k
        /\ \A s \in Reqs : s # r /\ s # x => req'[s] = req[s]
    BY <2>1, <2>2, <2>3, CountsIs
  <2>5. IsReq(k) /\ ReqOk(k) /\ k.pc = "cached" /\ k.permit = req[x].permit /\ k.via = "net"
    BY <2>2, <2>3, ReqIs DEF IsReq, InFlight, ReqOk, Aimed, HasFile, Progress, Reading, Steps
  <2>6. PICK w : w = Tail(burst.queue)
    OBVIOUS
  <2>7. /\ w \in Seq(Reqs)
        /\ \A n \in DOMAIN w : req'[w[n]].pc = "queued" /\ req'[w[n]].via = "net"
        /\ \A m, n \in DOMAIN w : w[m] = w[n] => m = n
    <3>1. PICK q : q = burst.queue
      OBVIOUS
    <3>2. q \in Seq(Reqs) /\ Queued(q, "net") /\ q # << >>
          /\ \A s \in Reqs : s # Head(q) /\ req[s].pc = "queued" => req'[s] = req[s]
      BY <1>1, <1>2, <1>3, <1>6, <2>0, <2>4, <3>1
    <3>3. w = Tail(q)
      BY <2>6, <3>1
    <3> QED BY <3>2, <3>3, QueueLeft
  <2>8. burst' \in [running : Int, queue : Seq(Reqs)] /\ burst'.running = burst.running
        /\ burst'.queue = w
    <3>1. burst' = [burst EXCEPT !.queue = w]
      BY <2>1, <2>6
    <3> QED BY <1>3, <2>7, <3>1
  <2>9. burst'.running = Cardinality(NetThreads')
    <3>1. PICK T : T = NetThreads \ {r}
      OBVIOUS
    <3>2. r \in NetThreads /\ x \notin T /\ NetThreads' = T \cup {x} /\ T \subseteq Reqs
      BY <1>1, <1>6, <2>2, <2>4, <2>5, <3>1, NoReqIs DEF NetThreads
    <3>3. Cardinality(T) = Cardinality(NetThreads) - 1
      BY <3>1, <3>2, FiniteReqs DEF NetThreads
    <3>4. Cardinality(NetThreads') = Cardinality(T) + 1
      BY <2>2, <3>2, FiniteReqs
    <3> QED BY <1>2, <1>3, <2>8, <3>3, <3>4
  <2>10. Queues'
    <3>1. \A n \in DOMAIN ioq : req'[ioq[n]] = req[ioq[n]]
      BY <1>1, <1>2, <1>3, <2>2, <2>4 DEF Queued
    <3>2. Queued(ioq, "io")'
      BY <1>0, <1>2, <3>1 DEF Queued
    <3>3. Queued(burst.queue, "net")'
      BY <2>7, <2>8 DEF Queued
    <3> QED BY <1>2, <1>3, <1>6, <2>8, <3>2, <3>3 DEF Queues
  <2>11. \A s \in Reqs : s # r => \/ req'[s] = req[s]
                                  \/ /\ req[s].pc = "queued" /\ IsReq(req'[s]) /\ ReqOk(req'[s])
                                     /\ req'[s].pc = "cached" /\ req'[s].permit = req[s].permit
    BY <2>2, <2>4, <2>5
  <2> QED BY <1>0, <1>1, <1>2, <2>4, <2>8, <2>9, <2>10, <2>11, AnswerStep
<1> QED BY <1>4, <1>5, <1>6

\* A request starts.
LEMMA StartStep ==
  ASSUME RInv, NEW r \in Reqs, req[r].pc = "idle", NEW k, Go(r, k), IsReq(k), ReqOk(k), ~k.permit,
         k.pc \in {"answer", "queued", "cached", "info"},
         Cachings', Pinned', SameFiles, handle' \in [Handles -> OpenFiles],
         reads < MaxReads, reads' = reads + 1, faults' = faults \/ Fault,
         ioq' \in Seq(Reqs), burst' \in [running : Int, queue : Seq(Reqs)],
         burst'.running = Cardinality(NetThreads'), burst'.running <= NetWorkers, Queues',
         UNCHANGED <<world, index, stored, objs, mover, loading, ahead, free>>
  PROVE  RInv'
<1>1. DOMAIN req' = Reqs /\ req'[r] = k /\ \A s \in Reqs : s # r => req'[s] = req[s]
  BY GoIs
<1>2. reads' \in 0 .. MaxReads /\ free' \in [permits : Int, slots : Int]
  BY CountsIs
<1>3. /\ Typed' /\ Renaming' /\ Shaped' /\ Requests' /\ Flights' /\ Loaders'
      /\ Slotted' = Slotted /\ SlotsAhead' = SlotsAhead
  <2>1. \A s \in Reqs : IsReq(req'[s]) /\ ReqOk(req'[s])
    BY <1>1, CountsIs
  <2>2. \A s \in Reqs : \/ req'[s] = req[s]
                        \/ {req[s].pc, req'[s].pc} \cap ({"slot", "fetch", "loaded"} \cup InFlight) = {}
    BY <1>1 DEF InFlight
  <2> QED BY <1>1, <1>2, <2>1, <2>2, ReqsMove
<1>4. Permitted' = Permitted
  <2>1. ~req[r].permit
    BY ReqIs DEF ReqOk
  <2> QED BY <1>1, <2>1 DEF Permitted
<1>5. Counts'
  BY <1>3, <1>4, Zenon DEF RInv, Counts, NetWorkers, Permits
<1> QED BY <1>3, <1>5 DEF RInv

LEMMA PrefetchKeeps ==
  ASSUME RInv, NEW r \in Reqs, NEW id \in Ids, Prefetch(r, id)
  PROVE  RInv'
<1>0. UNCHANGED <<world, index, stored, cache, large, objs, loading, handle, ahead, burst, ioq, free,
                  mover, faults>>
  BY DEF Prefetch, files, store, pools
<1>1. req[r].pc = "idle" /\ reads < MaxReads /\ reads' = reads + 1 /\ Small(id)
  BY DEF Prefetch, At
<1>2. PICK k : k = [NoReq EXCEPT !.pc = "info", !.via = "prefetch", !.id = id]
  OBVIOUS
<1>3. Go(r, k)
  BY <1>2 DEF Prefetch
<1>4. IsReq(k) /\ ReqOk(k) /\ ~k.permit /\ k.pc = "info" /\ k.via = "prefetch"
  BY <1>1, <1>2 DEF NoReq, IsReq, InFlight, ReqOk, Aimed, HasFile, Progress, Reading, Steps
<1>5. Cachings' /\ Pinned' /\ SameFiles
  BY <1>0, QuietStep
<1>6. DOMAIN req' = Reqs /\ req'[r] = k /\ \A s \in Reqs : s # r => req'[s] = req[s]
  BY <1>3, GoIs
<1>7. NetThreads' = NetThreads
  BY <1>1, <1>4, <1>6 DEF NetThreads
<1>8. Queues'
  BY <1>0, <1>1, <1>6, QueuesKept
<1>9. burst'.running = Cardinality(NetThreads') /\ burst'.running <= NetWorkers
  BY <1>0, <1>7 DEF RInv, Counts
<1> QED BY <1>0, <1>1, <1>3, <1>4, <1>5, <1>8, <1>9, StartStep, CountsIs

LEMMA ReadKeeps ==
  ASSUME RInv, NEW r \in Reqs, NEW h \in Handles, NEW lo \in 0 .. 2, NEW hi \in lo .. 2, Read(r, h, lo, hi)
  PROVE  RInv'
<1>0. UNCHANGED <<world, index, stored, large, objs, loading, ahead, free, mover>>
  BY DEF Read, files
<1>1. req[r].pc = "idle" /\ reads < MaxReads /\ reads' = reads + 1 /\ hi < world.size[handle[h].id]
  BY DEF Read, At
<1>2. PICK j : j = Asked(r, h, lo, hi)
  OBVIOUS
<1>3. /\ IsReq(j) /\ j.h = h /\ j.id = handle[h].id /\ j.id \in Ids /\ j.via = "net" /\ j.permit = FALSE
      /\ j.got = None /\ j.obj = handle[h].obj /\ j.lo <= j.hi
      /\ (Small(j.id) \/ j.hi < world.size[j.id])
  <2>1. lo \in Nat /\ hi \in Nat /\ lo <= hi
    OBVIOUS
  <2>2. handle[h] \in OpenFiles
    BY CountsIs
  <2>3. handle[h].id \in Ids /\ handle[h].obj \in Nat
    BY <2>2 DEF OpenFiles
  <2>4. CASE Small(handle[h].id)
    BY <1>2, <2>1, <2>3, <2>4 DEF Asked, NoReq, IsReq
  <2>5. CASE ~Small(handle[h].id)
    BY <1>1, <1>2, <2>1, <2>3, <2>5 DEF Asked, NoReq, IsReq
  <2> QED BY <2>4, <2>5
<1>4. /\ Queued(burst.queue, "net") /\ Queued(ioq, "io")
      /\ (burst.queue # << >> => burst.running = NetWorkers)
      /\ burst.running = Cardinality(NetThreads) /\ burst.running <= NetWorkers
  BY DEF RInv, Queues, Counts
<1>5. /\ burst \in [running : Int, queue : Seq(Reqs)] /\ burst.running \in Nat /\ ioq \in Seq(Reqs)
      /\ NetWorkers \in Nat /\ NetWorkers' = NetWorkers /\ burst.queue \in Seq(Reqs)
      /\ handle \in [Handles -> OpenFiles]
  BY <1>0, CountsIs DEF NetWorkers
<1>6. handle[h].pin \in {None, "mem", "large"} /\ "mem" # None /\ "large" # None
  BY <1>5 DEF OpenFiles, None
<1>7. CASE handle[h].pin = "mem"
  <2>1. PICK k : k = [j EXCEPT !.pc = "answer", !.via = "none", !.got = ContentOf(j.id)]
    OBVIOUS
  <2>2. Go(r, k) /\ UNCHANGED <<cache, handle, burst, ioq, faults>>
    BY <1>2, <1>3, <1>6, <1>7, <2>1 DEF Read
  <2>3. IsReq(k) /\ ReqOk(k) /\ ~k.permit /\ k.pc = "answer" /\ k.via = "none"
    BY <1>3, <2>1 DEF IsReq, InFlight, ReqOk, Aimed, HasFile, Progress, Reading, Steps
  <2>4. Cachings' /\ Pinned' /\ SameFiles
    BY <1>0, <2>2, QuietStep
  <2>5. DOMAIN req' = Reqs /\ req'[r] = k /\ \A s \in Reqs : s # r => req'[s] = req[s]
    BY <2>2, GoIs
  <2>6. NetThreads' = NetThreads
    BY <1>1, <2>3, <2>5 DEF NetThreads
  <2>7. Queues'
    BY <1>0, <1>1, <2>2, <2>5, QueuesKept
  <2> QED BY <1>0, <1>1, <1>4, <1>5, <2>2, <2>3, <2>4, <2>6, <2>7, StartStep
<1>8. CASE handle[h].pin = "large"
  <2>1. PICK k : k = [j EXCEPT !.pc = "queued", !.via = "io"]
    OBVIOUS
  <2>2. Go(r, k) /\ ioq' = Append(ioq, r) /\ UNCHANGED <<cache, handle, burst, faults>>
    BY <1>2, <1>3, <1>6, <1>8, <2>1 DEF Read
  <2>3. Points(handle[h].obj, handle[h].id)
    BY <1>8 DEF RInv, Pinned
  <2>4. IsReq(k) /\ ReqOk(k) /\ ~k.permit /\ k.pc = "queued" /\ k.via = "io"
    BY <1>3, <2>1, <2>3 DEF IsReq, InFlight, ReqOk, Aimed, HasFile, Progress, Reading, Steps
  <2>5. Cachings' /\ Pinned' /\ SameFiles
    BY <1>0, <2>2, QuietStep
  <2>6. DOMAIN req' = Reqs /\ req'[r] = k /\ \A s \in Reqs : s # r => req'[s] = req[s]
    BY <2>2, GoIs
  <2>7. NetThreads' = NetThreads
    BY <1>1, <2>4, <2>6 DEF NetThreads
  <2>a. PICK q : q = ioq
    OBVIOUS
  <2>b. q \in Seq(Reqs) /\ Queued(q, "io")
    BY <1>4, <1>5, <2>a
  <2>8. PICK w : w = Append(q, r)
    OBVIOUS
  <2>9. /\ w \in Seq(Reqs)
        /\ \A n \in DOMAIN w : req'[w[n]].pc = "queued" /\ req'[w[n]].via = "io"
        /\ \A m, n \in DOMAIN w : w[m] = w[n] => m = n
    <3>1. /\ req[r].pc # "queued" /\ req'[r].pc = "queued" /\ req'[r].via = "io"
          /\ \A s \in Reqs : s # r => req'[s] = req[s]
      BY <1>1, <2>4, <2>6
    <3> QED BY <2>b, <2>8, <3>1, QueueJoined
  <2>10. ioq' = w
    BY <2>2, <2>a, <2>8
  <2>11. Queues'
    <3>1. Queued(ioq, "io")'
      BY <2>9, <2>10 DEF Queued
    <3>2. \A n \in DOMAIN burst.queue : req'[burst.queue[n]] = req[burst.queue[n]]
      BY <1>1, <1>4, <1>5, <2>6 DEF Queued
    <3>3. Queued(burst.queue, "net")'
      BY <1>4, <2>2, <3>2 DEF Queued
    <3> QED BY <1>4, <1>5, <2>2, <3>1, <3>3 DEF Queues
  <2>12. ioq' \in Seq(Reqs)
    BY <2>9, <2>10
  <2> QED BY <1>0, <1>1, <1>4, <1>5, <2>2, <2>4, <2>5, <2>7, <2>11, <2>12, StartStep
<1>9. CASE handle[h].pin = None /\ Cached(cache, j.id)
  <2>1. PICK k : k = [j EXCEPT !.pc = "answer", !.via = "none", !.got = cache.entries[j.id].of]
    OBVIOUS
  <2>2. /\ Go(r, k) /\ cache' = Hit(cache, j.id) /\ handle' = [handle EXCEPT ![h].pin = "mem"]
        /\ UNCHANGED <<burst, ioq, faults>>
    BY <1>2, <1>3, <1>6, <1>9, <2>1 DEF Read
  <2>3. Book(cache) /\ Bulk(DOMAIN cache.entries) <= MaxBytes /\ Shelf(large)
    BY DEF RInv, Cachings
  <2>4. cache.entries[j.id].of = ContentOf(j.id)
    BY <1>9, <2>3, CacheIs
  <2>5. IsReq(k) /\ ReqOk(k) /\ ~k.permit /\ k.pc = "answer" /\ k.via = "none"
    BY <1>3, <2>1, <2>4 DEF IsReq, InFlight, ReqOk, Aimed, HasFile, Progress, Reading, Steps
  <2>6. Book(cache') /\ Bulk(DOMAIN cache'.entries) <= MaxBytes
    BY <1>3, <2>2, <2>3, BookHit
  <2>7. Cachings'
    <3>1. Grows
      BY <1>0 DEF Grows
    <3> QED BY <1>0, <2>3, <2>6, <3>1, BookNext
  <2>8. /\ handle' \in [Handles -> OpenFiles] /\ handle'[h].pin = "mem" /\ handle'[h].id = handle[h].id
        /\ \A g \in Handles : g # h => handle'[g] = handle[g]
    <3>1. PICK g : g = [handle[h] EXCEPT !.pin = "mem"]
      OBVIOUS
    <3>2. g \in OpenFiles /\ g.pin = "mem" /\ g.id = handle[h].id
      BY <1>5, <3>1 DEF OpenFiles
    <3>3. handle' = [handle EXCEPT ![h] = g]
      BY <2>2, <3>1
    <3> QED BY <1>5, <3>2, <3>3
  <2>9. SameFiles
    BY <2>8 DEF SameFiles
  <2>10. Pinned'
    <3>1. \A g \in Handles : handle'[g].pin = "large" => Points(handle'[g].obj, handle'[g].id)
      BY <2>8 DEF RInv, Pinned
    <3> QED BY <1>0, <3>1 DEF Pinned, Points, ContentOf
  <2>11. DOMAIN req' = Reqs /\ req'[r] = k /\ \A s \in Reqs : s # r => req'[s] = req[s]
    BY <2>2, GoIs
  <2>12. NetThreads' = NetThreads
    BY <1>1, <2>5, <2>11 DEF NetThreads
  <2>13. Queues'
    BY <1>0, <1>1, <2>2, <2>11, QueuesKept
  <2> QED BY <1>0, <1>1, <1>4, <1>5, <2>2, <2>5, <2>7, <2>8, <2>9, <2>10, <2>12, <2>13, StartStep
<1>10. ASSUME NEW i, i = [j EXCEPT !.pc = "cached"], RunOnBurst(r, i), UNCHANGED <<cache, handle, ioq>>
       PROVE  RInv'
  <2>1. Cachings' /\ Pinned' /\ SameFiles
    BY <1>0, <1>10, QuietStep
  <2>2. /\ IsReq(i) /\ ReqOk(i) /\ ~i.permit /\ i.pc = "cached" /\ i.via = "net" /\ i.h = h
        /\ i.id = j.id /\ i.got = None /\ i.lo <= i.hi /\ (Small(i.id) \/ i.hi < world.size[i.id])
    BY <1>3, <1>10 DEF IsReq, InFlight, ReqOk, Aimed, HasFile, Progress, Reading, Steps
  <2>3. CASE burst.running >= NetWorkers
    <3>1. PICK k : k = [i EXCEPT !.pc = "queued"]
      OBVIOUS
    <3>2. Go(r, k) /\ burst' = [burst EXCEPT !.queue = Append(@, r)] /\ faults' = faults
      BY <1>10, <2>3, <3>1 DEF RunOnBurst, Calm
    <3>3. IsReq(k) /\ ReqOk(k) /\ ~k.permit /\ k.pc = "queued" /\ k.via = "net"
      BY <1>3, <2>2, <3>1 DEF IsReq, InFlight, ReqOk, Aimed, HasFile, Progress, Reading, Steps
    <3>4. DOMAIN req' = Reqs /\ req'[r] = k /\ \A s \in Reqs : s # r => req'[s] = req[s]
      BY <3>2, GoIs
    <3>5. NetThreads' = NetThreads
      BY <1>1, <3>3, <3>4 DEF NetThreads
    <3>6. PICK q : q = burst.queue
      OBVIOUS
    <3>7. PICK w : w = Append(q, r)
      OBVIOUS
    <3>8. q \in Seq(Reqs) /\ Queued(q, "net")
      BY <1>4, <1>5, <3>6
    <3>9. /\ w \in Seq(Reqs)
          /\ \A n \in DOMAIN w : req'[w[n]].pc = "queued" /\ req'[w[n]].via = "net"
          /\ \A m, n \in DOMAIN w : w[m] = w[n] => m = n
      <4>1. /\ req[r].pc # "queued" /\ req'[r].pc = "queued" /\ req'[r].via = "net"
            /\ \A s \in Reqs : s # r => req'[s] = req[s]
        BY <1>1, <3>3, <3>4
      <4> QED BY <3>7, <3>8, <4>1, QueueJoined
    <3>10. /\ burst' \in [running : Int, queue : Seq(Reqs)] /\ burst'.running = burst.running
           /\ burst'.queue = w
      <4>1. burst' = [burst EXCEPT !.queue = w]
        BY <3>2, <3>6, <3>7
      <4> QED BY <1>5, <3>9, <4>1
    <3>11. Queues'
      <4>1. Queued(burst.queue, "net")'
        BY <3>9, <3>10 DEF Queued
      <4>2. \A n \in DOMAIN ioq : req'[ioq[n]] = req[ioq[n]]
        BY <1>1, <1>4, <1>5, <3>4 DEF Queued
      <4>3. Queued(ioq, "io")'
        BY <1>4, <1>10, <4>2 DEF Queued
      <4>4. burst'.running = NetWorkers'
        BY <1>4, <1>5, <2>3, <3>10
      <4> QED BY <4>1, <4>3, <4>4 DEF Queues
    <3> QED BY <1>0, <1>1, <1>4, <1>5, <1>10, <2>1, <3>2, <3>3, <3>5, <3>10, <3>11, StartStep
  <2>4. CASE /\ burst.running < NetWorkers /\ burst' = [burst EXCEPT !.running = @ + 1]
             /\ Go(r, i) /\ faults' = faults
    <3>1. DOMAIN req' = Reqs /\ req'[r] = i /\ \A s \in Reqs : s # r => req'[s] = req[s]
      BY <2>4, GoIs
    <3>2. PICK T : T = NetThreads
      OBVIOUS
    <3>3. T \subseteq Reqs /\ r \notin T /\ NetThreads' = T \cup {r}
      BY <1>1, <2>2, <3>1, <3>2 DEF NetThreads
    <3>4. Cardinality(NetThreads') = Cardinality(T) + 1
      BY <3>3, FiniteReqs
    <3>5. burst' \in [running : Int, queue : Seq(Reqs)] /\ burst'.running = burst.running + 1
          /\ burst'.queue = burst.queue
      BY <1>5, <2>4
    <3>6. burst'.running = Cardinality(NetThreads') /\ burst'.running <= NetWorkers
      BY <1>4, <1>5, <2>4, <3>2, <3>4, <3>5
    <3>7. Queues'
      <4>1. /\ \A n \in DOMAIN burst.queue : req'[burst.queue[n]] = req[burst.queue[n]]
            /\ \A n \in DOMAIN ioq : req'[ioq[n]] = req[ioq[n]]
        BY <1>1, <1>4, <1>5, <3>1 DEF Queued
      <4>2. Queued(burst.queue, "net")' /\ Queued(ioq, "io")'
        BY <1>4, <1>10, <3>5, <4>1 DEF Queued
      <4>3. burst'.queue = << >>
        BY <1>4, <1>5, <2>4, <3>5
      <4> QED BY <4>2, <4>3 DEF Queues
    <3> QED BY <1>0, <1>1, <1>10, <1>5, <2>1, <2>2, <2>4, <3>5, <3>6, <3>7, StartStep
  <2>5. CASE /\ burst' = burst /\ Fault
             /\ Go(r, [i EXCEPT !.pc = "answer", !.via = "none", !.ok = FALSE])
    <3>1. PICK k : k = [i EXCEPT !.pc = "answer", !.via = "none", !.ok = FALSE]
      OBVIOUS
    <3>2. Go(r, k)
      BY <2>5, <3>1
    <3>3. IsReq(k) /\ ReqOk(k) /\ ~k.permit /\ k.pc = "answer" /\ k.via = "none"
      BY <1>3, <2>2, <3>1 DEF IsReq, InFlight, ReqOk, Aimed, HasFile, Progress, Reading, Steps
    <3>4. DOMAIN req' = Reqs /\ req'[r] = k /\ \A s \in Reqs : s # r => req'[s] = req[s]
      BY <3>2, GoIs
    <3>5. NetThreads' = NetThreads
      BY <1>1, <3>3, <3>4 DEF NetThreads
    <3>6. Queues'
      BY <1>0, <1>1, <1>10, <2>5, <3>4, QueuesKept
    <3> QED BY <1>0, <1>1, <1>10, <1>4, <1>5, <2>1, <2>5, <3>2, <3>3, <3>5, <3>6, StartStep
  <2> QED BY <1>5, <1>10, <2>3, <2>4, <2>5 DEF RunOnBurst, Calm
<1>11. CASE handle[h].pin = None /\ ~Cached(cache, j.id)
  <2>1. RunOnBurst(r, [j EXCEPT !.pc = "cached"]) /\ UNCHANGED <<cache, handle, ioq>>
    BY <1>2, <1>3, <1>6, <1>11 DEF Read
  <2>2. PICK i : i = [j EXCEPT !.pc = "cached"]
    OBVIOUS
  <2> QED BY <1>10, <2>1, <2>2
<1> QED BY <1>6, <1>7, <1>8, <1>9, <1>11

-----------------------------------------------------------------------------
(* The rename. *)

\* What a rename leaves alone.
LEMMA MoverIs ==
  ASSUME RInv, SameFiles, UNCHANGED <<world, objs, loading, req, ahead, burst, ioq, free>>
  PROVE  /\ Shaped' /\ Requests' /\ Flights' /\ Loaders' /\ Queues' /\ Counts' /\ Grows
         /\ Ids' = Ids /\ \A id : ContentOf(id)' = ContentOf(id)
<1>1. Grows /\ StillLoading
  BY DEF Grows, StillLoading
<1>2. Shaped' /\ Ids' = Ids /\ \A id : ContentOf(id)' = ContentOf(id)
  BY DEF RInv, Shaped, Small, Ids, ContentOf
<1>3. Requests'
  <2>1. \A s \in Reqs : ReqOk(req'[s]) => ReqOk(req[s])'
    BY <1>1, ReqKept
  <2> QED BY <2>1 DEF RInv, Requests
<1>4. Flights' /\ Loaders' /\ Queues'
  BY <1>1, FlightsKept, LoadersKept, QueuesKept DEF Flying
<1>5. Counts'
  <2>1. Permitted' = Permitted /\ Slotted' = Slotted /\ SlotsAhead' = SlotsAhead /\ NetThreads' = NetThreads
    BY DEF Permitted, Slotted, SlotsAhead, NetThreads
  <2> QED BY <2>1, Zenon DEF RInv, Counts, NetWorkers, Permits
<1> QED BY <1>1, <1>2, <1>3, <1>4, <1>5

LEMMA RenameKeeps ==
  ASSUME RInv, NEW new \in Ids, Rename(new)
  PROVE  RInv'
<1>1. UNCHANGED <<world, objs, loading, req, ahead, burst, ioq, free, handle, cache, large, reads, faults>>
  BY DEF Rename, store, pools
<1>2. SameFiles
  BY <1>1 DEF SameFiles
<1>3. /\ Shaped' /\ Requests' /\ Flights' /\ Loaders' /\ Queues' /\ Counts' /\ Grows
      /\ Ids' = Ids /\ \A id : ContentOf(id)' = ContentOf(id)
  BY <1>1, <1>2, MoverIs
<1>4. Cachings'
  BY <1>1, <1>3, BookNext DEF RInv, Cachings
<1>5. PICK old : old = world.from[new]
  OBVIOUS
<1>6. /\ index' = index \cup {new} /\ stored' = stored \cup {new} /\ old \in index
      /\ mover' = [pc |-> "rekey", old |-> old, new |-> new] /\ new \in Ids \ index /\ mover.pc = "idle"
  BY <1>5 DEF Rename
<1>7. index = {id \in Ids : world.from[id] = None}
  BY <1>6 DEF RInv, Renaming
<1>8. old \in Ids /\ ContentOf(old) = old /\ ContentOf(new) = old
  BY <1>5, <1>6, <1>7 DEF ContentOf
<1>9. Renaming'
  BY <1>3, <1>6, <1>8 DEF Renaming
<1>10. Pinned'
  BY <1>1 DEF RInv, Pinned, Points, ContentOf
<1>11. Typed'
  BY <1>1, <1>3, <1>6, <1>8 DEF RInv, Typed, Objects, States, OpenFiles, MaxReads, MaxFaults, IsReq
<1> QED BY <1>3, <1>4, <1>9, <1>10, <1>11 DEF RInv

LEMMA RekeyKeeps ==
  ASSUME RInv, Rekey
  PROVE  RInv'
<1>1. UNCHANGED <<world, index, stored, objs, loading, req, ahead, burst, ioq, free, handle, reads, faults>>
  BY DEF Rekey, files, pools
<1>2. SameFiles
  BY <1>1 DEF SameFiles
<1>3. /\ Shaped' /\ Requests' /\ Flights' /\ Loaders' /\ Queues' /\ Counts' /\ Grows
      /\ Ids' = Ids /\ \A id : ContentOf(id)' = ContentOf(id)
  BY <1>1, <1>2, MoverIs
<1>4. PICK old, new : old = mover.old /\ new = mover.new
  OBVIOUS
<1>5. /\ cache' = CacheRekey(cache, old, new) /\ large' = LargeRekey(large, old, new)
      /\ mover' = [mover EXCEPT !.pc = "forget"] /\ mover.pc = "rekey"
  BY <1>4 DEF Rekey
<1>6. old \in Ids /\ new \in Ids /\ ContentOf(old) = ContentOf(new)
  BY <1>4, <1>5 DEF RInv, Renaming
<1>7. world \in Worlds /\ Book(cache) /\ Bulk(DOMAIN cache.entries) <= MaxBytes /\ Shelf(large)
  BY DEF RInv, Typed, Cachings
<1>8. Book(cache') /\ Bulk(DOMAIN cache'.entries) <= MaxBytes /\ Shelf(large')
  BY <1>5, <1>6, <1>7, BookRekey, ShelfRekey
<1>9. Cachings'
  BY <1>1, <1>3, <1>8, BookNext
<1>10. mover \in [pc : {"idle", "rekey", "forget", "repoint", "done"}, old : Ids \cup {None}, new : Ids \cup {None}]
  BY DEF RInv, Typed
<1>11. Renaming'
  BY <1>3, <1>4, <1>5, <1>6, <1>10 DEF Renaming
<1>12. Pinned'
  BY <1>1 DEF RInv, Pinned, Points, ContentOf
<1>13. Typed'
  BY <1>1, <1>3, <1>5, <1>10 DEF RInv, Typed, Objects, States, OpenFiles, MaxReads, MaxFaults, IsReq
<1> QED BY <1>3, <1>9, <1>11, <1>12, <1>13 DEF RInv

LEMMA ForgetOldKeeps ==
  ASSUME RInv, ForgetOld
  PROVE  RInv'
<1>1. UNCHANGED <<world, stored, objs, loading, req, ahead, burst, ioq, free, handle, reads, faults>>
  BY DEF ForgetOld, pools
<1>2. SameFiles
  BY <1>1 DEF SameFiles
<1>3. /\ Shaped' /\ Requests' /\ Flights' /\ Loaders' /\ Queues' /\ Counts' /\ Grows
      /\ Ids' = Ids /\ \A id : ContentOf(id)' = ContentOf(id)
  BY <1>1, <1>2, MoverIs
<1>4. PICK old, new : old = mover.old /\ new = mover.new
  OBVIOUS
<1>5. /\ cache' = Uncache(cache, old) /\ large' = LargeRemove(large, old) /\ index' = index \ {old}
      /\ mover' = [mover EXCEPT !.pc = "repoint"] /\ mover.pc = "forget"
  BY <1>4 DEF ForgetOld, Forget
<1>6. old \in Ids /\ new \in Ids /\ ContentOf(old) = ContentOf(new)
  BY <1>4, <1>5 DEF RInv, Renaming
<1>7. world \in Worlds /\ Book(cache) /\ Bulk(DOMAIN cache.entries) <= MaxBytes /\ Shelf(large)
  BY DEF RInv, Typed, Cachings
<1>8. Book(cache') /\ Bulk(DOMAIN cache'.entries) <= MaxBytes /\ Shelf(large')
  <2>1. Book(cache') /\ DOMAIN cache'.entries = DOMAIN cache.entries \ {old} /\ Shelf(large')
    BY <1>5, <1>6, <1>7, BookUncache, ShelfRemove
  <2>2. PICK D : D = DOMAIN cache.entries
    OBVIOUS
  <2>3. D \subseteq Ids /\ IsFiniteSet(D)
    BY <1>7, <2>2 DEF Book, Booked
  <2>4. Bulk(D \ {old}) <= Bulk(D) /\ Bulk(D \ {old}) \in Nat /\ Bulk(D) \in Nat
    BY <1>6, <1>7, <2>3, BookLess, BulkIs
  <2>5. MaxBytes \in Nat
    BY ReadsAssumption
  <2> QED BY <1>7, <2>1, <2>2, <2>4, <2>5
<1>9. Cachings'
  BY <1>1, <1>3, <1>8, BookNext
<1>10. mover \in [pc : {"idle", "rekey", "forget", "repoint", "done"}, old : Ids \cup {None}, new : Ids \cup {None}]
  BY DEF RInv, Typed
<1>11. Renaming'
  BY <1>3, <1>4, <1>5, <1>6, <1>10 DEF Renaming
<1>12. Pinned'
  BY <1>1 DEF RInv, Pinned, Points, ContentOf
<1>13. Typed'
  BY <1>1, <1>3, <1>5, <1>10 DEF RInv, Typed, Objects, States, OpenFiles, MaxReads, MaxFaults, IsReq
<1> QED BY <1>3, <1>9, <1>11, <1>12, <1>13 DEF RInv

LEMMA RepointKeeps ==
  ASSUME RInv, Repoint
  PROVE  RInv'
<1>1. UNCHANGED <<world, index, stored, objs, loading, req, ahead, burst, ioq, free, cache, large, reads,
                  faults>>
  BY DEF Repoint, files, store, pools
<1>2. PICK old, new : old = mover.old /\ new = mover.new
  OBVIOUS
<1>3. /\ handle' = [h \in Handles |-> IF handle[h].id = old THEN [handle[h] EXCEPT !.id = new] ELSE handle[h]]
      /\ mover' = [mover EXCEPT !.pc = "done"] /\ mover.pc = "repoint"
  BY <1>2 DEF Repoint
<1>4. old \in Ids /\ new \in Ids /\ ContentOf(old) = ContentOf(new)
  BY <1>2, <1>3 DEF RInv, Renaming
<1>5. \A h \in Handles : /\ handle[h] \in OpenFiles /\ handle'[h] \in OpenFiles
                         /\ handle'[h].pin = handle[h].pin /\ handle'[h].obj = handle[h].obj
                         /\ ContentOf(handle'[h].id) = ContentOf(handle[h].id)
  <2>1. ASSUME NEW h \in Handles
        PROVE  /\ handle[h] \in OpenFiles /\ handle'[h] \in OpenFiles
               /\ handle'[h].pin = handle[h].pin /\ handle'[h].obj = handle[h].obj
               /\ ContentOf(handle'[h].id) = ContentOf(handle[h].id)
    <3>1. handle[h] \in OpenFiles
      BY CountsIs
    <3>2. PICK g : g = [handle[h] EXCEPT !.id = new]
      OBVIOUS
    <3>3. g \in OpenFiles /\ g.pin = handle[h].pin /\ g.obj = handle[h].obj /\ g.id = new
      BY <1>4, <3>1, <3>2 DEF OpenFiles
    <3>4. handle'[h] = IF handle[h].id = old THEN g ELSE handle[h]
      BY <1>3, <3>2
    <3> QED BY <1>4, <3>1, <3>3, <3>4
  <2> QED BY <2>1
<1>6. SameFiles
  BY <1>5 DEF SameFiles
<1>7. /\ Shaped' /\ Requests' /\ Flights' /\ Loaders' /\ Queues' /\ Counts' /\ Grows
      /\ Ids' = Ids /\ \A id : ContentOf(id)' = ContentOf(id)
  BY <1>1, <1>6, MoverIs
<1>8. Cachings'
  BY <1>1, <1>7, BookNext DEF RInv, Cachings
<1>9. mover \in [pc : {"idle", "rekey", "forget", "repoint", "done"}, old : Ids \cup {None}, new : Ids \cup {None}]
  BY DEF RInv, Typed
<1>10. Renaming'
  BY <1>2, <1>3, <1>4, <1>7, <1>9 DEF Renaming
<1>11. Pinned'
  <2>1. \A h \in Handles : handle'[h].pin = "large" => Points(handle'[h].obj, handle'[h].id)
    BY <1>5 DEF RInv, Pinned, Points
  <2> QED BY <1>1, <2>1 DEF Pinned, Points, ContentOf
<1>12. Typed'
  <2>1. handle' \in [Handles -> OpenFiles]
    <3>1. handle' = [h \in Handles |-> handle'[h]]
      BY <1>3
    <3> QED BY <1>5, <3>1
  <2>2. OpenFiles' = OpenFiles
    BY <1>7 DEF OpenFiles
  <2> QED BY <1>1, <1>3, <1>7, <1>9, <2>1, <2>2
          DEF RInv, Typed, Objects, States, MaxReads, MaxFaults, IsReq
<1> QED BY <1>7, <1>8, <1>10, <1>11, <1>12 DEF RInv

LEMMA DeleteOldKeeps ==
  ASSUME RInv, DeleteOld
  PROVE  RInv'
<1>1. UNCHANGED <<world, index, mover, objs, loading, req, ahead, burst, ioq, free, handle, cache, large, reads,
                  faults>>
  BY DEF DeleteOld, store, pools
<1>2. SameFiles
  BY <1>1 DEF SameFiles
<1>3. /\ Shaped' /\ Requests' /\ Flights' /\ Loaders' /\ Queues' /\ Counts' /\ Grows
      /\ Ids' = Ids /\ \A id : ContentOf(id)' = ContentOf(id)
  BY <1>1, <1>2, MoverIs
<1>4. Cachings'
  BY <1>1, <1>3, BookNext DEF RInv, Cachings
<1>5. Renaming' /\ Pinned'
  BY <1>1 DEF RInv, Renaming, Pinned, Points, ContentOf, Ids
<1>6. stored' \subseteq stored
  BY DEF DeleteOld
<1>7. Typed'
  BY <1>1, <1>3, <1>6 DEF RInv, Typed, Objects, States, OpenFiles, MaxReads, MaxFaults, IsReq
<1> QED BY <1>3, <1>4, <1>5, <1>7 DEF RInv

-----------------------------------------------------------------------------
(* The invariant. *)

LEMMA InitInv ==
  ASSUME Init
  PROVE  RInv
<1>1. world \in Worlds
  BY DEF Init
<1>2. cache = [entries |-> << >>, order |-> << >>, total |-> 0] /\ large = [map |-> << >>, order |-> << >>]
  BY DEF Init
<1>3. Book(cache) /\ Bulk(DOMAIN cache.entries) <= MaxBytes
  <2>1. Bulk({}) = 0 /\ MaxBytes \in Nat
    BY SumEmpty, ReadsAssumption DEF Bulk
  <2>2. Booked({}, << >>, 0)
    BY <2>1, FS_EmptySet DEF Booked, Once, Has
  <2>3. Entries({}) = << >>
    BY DEF Entries
  <2>4. cache = [entries |-> Entries({}), order |-> << >>, total |-> 0]
    BY <1>2, <2>3
  <2>5. Book(cache) /\ DOMAIN cache.entries = {}
    BY <2>2, <2>4, BookOf
  <2> QED BY <2>1, <2>5
<1>4. Shelf(large)
  <2>1. << >> \in [{} -> Nat] /\ << >> \in Seq(Ids) /\ {} \in SUBSET Ids /\ DOMAIN << >> = {}
    OBVIOUS
  <2>2. large \in Larges
    BY <1>2, <2>1 DEF Larges
  <2> QED BY <1>2, <2>1, <2>2 DEF Shelf
<1>5. objs = << >> /\ DOMAIN objs = {} /\ loading = {} /\ ahead = {}
  BY DEF Init
<1>6. \A r \in Reqs : req[r] = NoReq
  BY DEF Init
<1>7. /\ \A id \in Ids : /\ world.size[id] \in Nat /\ ContentOf(id) \in Ids
      /\ \A h \in Handles : world.open[h] \in Ids
      /\ {NetWorkers, Permits} \subseteq Nat \ {0} /\ {MaxReads, MaxFaults} \subseteq Nat
  BY <1>1, WorldIs
<1>8. handle \in [Handles -> OpenFiles] /\ \A h \in Handles : handle[h].pin = None
  BY <1>7 DEF Init, OpenFiles
<1>9. Typed
  <2>1. ChunkSlots \in Nat /\ IsFiniteSet({})
    BY ReadsAssumption, FS_EmptySet
  <2> QED BY <1>1, <1>5, <1>6, <1>7, <1>8, <2>1, NoReqIs DEF Init, Typed, Permits
<1>10. Renaming /\ Shaped /\ Pinned
  BY <1>5, <1>8 DEF Init, Renaming, Shaped, Pinned, None
<1>11. Requests /\ Flights /\ Loaders
  BY <1>5, <1>6, NoReqIs DEF Requests, Flights, Loaders, Flying, Loads, LoadsAt
<1>12. Queues
  BY DEF Init, Queues, Queued
<1>13. Counts
  <2>1. Permitted = {} /\ Slotted = {} /\ SlotsAhead = {} /\ NetThreads = {}
    BY <1>5, <1>6, NoReqIs DEF Permitted, Slotted, SlotsAhead, NetThreads, HasSlot
  <2>2. Cardinality({}) = 0
    BY FS_EmptySet
  <2>3. free = [permits |-> world.permits, slots |-> ChunkSlots] /\ burst.running = 0
        /\ ChunkSlots \in Nat /\ Permits \in Nat /\ NetWorkers \in Nat /\ Permits = world.permits
    BY <1>7, ReadsAssumption DEF Init, Permits
  <2> QED BY <2>1, <2>2, <2>3 DEF Counts
<1> QED BY <1>3, <1>4, <1>9, <1>10, <1>11, <1>12, <1>13 DEF RInv, Cachings

LEMMA StepKeeps ==
  ASSUME RInv, NEW r \in Reqs, Step(r)
  PROVE  RInv'
BY AnswerKeeps, IoTakeKeeps, TryCachedKeeps, TakePermitKeeps, InfoKeeps, LookKeeps, ClaimKeeps, WaitKeeps,
   LookAgainKeeps, DownloadSmallKeeps, OpenLargeKeeps, CheckStillKeeps, PutKeeps, UnclaimKeeps,
   StartReadKeeps, EnsureKeeps, LoadKeeps, ReadOnKeeps, CopyKeeps, EnforceLimitKeeps, PinKeeps, Zenon
   DEF Step

LEMMA StutterKeeps ==
  ASSUME RInv, UNCHANGED vars
  PROVE  RInv'
<1>1. UNCHANGED <<world, index, stored, cache, large, objs, loading, handle, req, ahead, burst, ioq, free,
                  mover, reads, faults>>
  BY DEF vars
<1>2. SameFiles
  BY <1>1 DEF SameFiles
<1>3. /\ Shaped' /\ Requests' /\ Flights' /\ Loaders' /\ Queues' /\ Counts' /\ Grows
      /\ Ids' = Ids /\ \A id : ContentOf(id)' = ContentOf(id)
  BY <1>1, <1>2, MoverIs
<1>4. Cachings'
  BY <1>1, <1>3, BookNext DEF RInv, Cachings
<1>5. Renaming' /\ Pinned'
  BY <1>1 DEF RInv, Renaming, Pinned, Points, ContentOf, Ids
<1>6. Typed'
  BY <1>1, <1>3 DEF RInv, Typed, Objects, States, OpenFiles, MaxReads, MaxFaults, IsReq
<1> QED BY <1>3, <1>4, <1>5, <1>6 DEF RInv

LEMMA NextInv ==
  ASSUME RInv, [Next]_vars
  PROVE  RInv'
<1>1. ASSUME NEW r \in Reqs, NEW h \in Handles, NEW lo \in 0 .. 2, NEW hi \in lo .. 2, Read(r, h, lo, hi)
      PROVE  RInv'
  BY <1>1, ReadKeeps
<1>2. ASSUME NEW r \in Reqs, NEW id \in Ids, Prefetch(r, id) PROVE RInv'
  BY <1>2, PrefetchKeeps
<1>3. ASSUME NEW r \in Reqs, Step(r) PROVE RInv'
  BY <1>3, StepKeeps
<1>4. ASSUME NEW x \in ahead, AheadStep(x) PROVE RInv'
  BY <1>4, AheadStepKeeps
<1>5. ASSUME NEW new \in Ids, Rename(new) PROVE RInv'
  BY <1>5, RenameKeeps
<1>6. ASSUME MoverStep PROVE RInv'
  BY <1>6, RekeyKeeps, ForgetOldKeeps, RepointKeeps DEF MoverStep
<1>7. ASSUME DeleteOld PROVE RInv'
  BY <1>7, DeleteOldKeeps
<1>8. ASSUME UNCHANGED vars PROVE RInv'
  BY <1>8, StutterKeeps
<1> QED BY <1>1, <1>2, <1>3, <1>4, <1>5, <1>6, <1>7, <1>8, Zenon DEF Next

\* Permits and slots are taken only when there are some.
Spare == free.permits >= 0 /\ free.slots >= 0

LEMMA SpareNext ==
  ASSUME RInv, Spare, [Next]_vars
  PROVE  Spare'
<1>0. free \in [permits : Int, slots : Int]
  BY CountsIs
<1>1. ASSUME NEW r \in Reqs, Answer(r) PROVE Spare'
  BY <1>0, <1>1 DEF Answer, ReplyAnd, Spare
<1>2. ASSUME NEW r \in Reqs, TakePermit(r) PROVE Spare'
  BY <1>0, <1>2 DEF TakePermit, Spare
<1>3. CASE free' = free
  BY <1>3 DEF Spare
<1>4. CASE free.slots > 0 /\ free' = [free EXCEPT !.slots = @ - 1]
  BY <1>0, <1>4 DEF Spare
<1>5. CASE free' = [free EXCEPT !.slots = @ + 1]
  BY <1>0, <1>5 DEF Spare
<1>6. ASSUME NEW r \in Reqs, Load(r) PROVE Spare'
  BY <1>3, <1>4, <1>5, <1>6 DEF Load, TakeSlot, Fetch, Loaded
<1>7. ASSUME NEW x \in ahead, AheadStep(x) PROVE Spare'
  BY <1>3, <1>4, <1>5, <1>7 DEF AheadStep, TakeSlot, Fetch, Loaded
<1>8. ASSUME NEW r \in Reqs, Step(r) PROVE Spare'
  <2>1. CASE Answer(r) \/ TakePermit(r) \/ Load(r)
    BY <1>1, <1>2, <1>6, <2>1
  <2>2. CASE IoTake(r) \/ TryCached(r) \/ Info(r) \/ Look(r) \/ Claim(r) \/ Wait(r) \/ LookAgain(r)
    BY <1>3, <2>2 DEF IoTake, TryCached, Info, Look, Claim, Wait, LookAgain, pools
  <2>3. CASE DownloadSmall(r) \/ OpenLarge(r) \/ CheckStill(r) \/ Put(r) \/ Unclaim(r) \/ StartRead(r)
    BY <1>3, <2>3 DEF DownloadSmall, OpenLarge, CheckStill, Put, Unclaim, StartRead, pools
  <2>4. CASE Ensure(r) \/ ReadOn(r) \/ Copy(r) \/ EnforceLimit(r) \/ Pin(r)
    BY <1>3, <2>4 DEF Ensure, ReadOn, Copy, EnforceLimit, Pin, pools
  <2> QED BY <1>8, <2>1, <2>2, <2>3, <2>4 DEF Step
<1>9. ASSUME NEW r \in Reqs, NEW h \in Handles, NEW lo \in 0 .. 2, NEW hi \in lo .. 2, Read(r, h, lo, hi)
      PROVE  Spare'
  BY <1>3, <1>9 DEF Read
<1>10. ASSUME NEW r \in Reqs, NEW id \in Ids, Prefetch(r, id) PROVE Spare'
  BY <1>3, <1>10 DEF Prefetch, pools
<1>11. ASSUME NEW new \in Ids, Rename(new) PROVE Spare'
  BY <1>3, <1>11 DEF Rename, pools
<1>12. ASSUME MoverStep \/ DeleteOld \/ UNCHANGED vars PROVE Spare'
  BY <1>3, <1>12 DEF MoverStep, Rekey, ForgetOld, Repoint, DeleteOld, pools, vars
<1> QED BY <1>7, <1>8, <1>9, <1>10, <1>11, <1>12 DEF Next

\* The invariant is one of the specification.
LEMMA Invariant == Spec => [](RInv /\ Spare)
<1>1. Init => RInv /\ Spare
  <2>1. Init => Spare
    <3>1. ASSUME Init PROVE Spare
      <4>1. Permits \in Nat /\ ChunkSlots \in Nat /\ Permits = world.permits
        BY <3>1, WorldIs, ReadsAssumption DEF Init, Permits
      <4> QED BY <3>1, <4>1 DEF Init, Spare
    <3> QED BY <3>1
  <2> QED BY <2>1, InitInv
<1>2. RInv /\ Spare /\ [Next]_vars => (RInv /\ Spare)'
  BY NextInv, SpareNext
<1> QED BY <1>1, <1>2, PTL DEF Spec

-----------------------------------------------------------------------------
(* What follows from it. *)

LEMMA OneIs ==
  ASSUME NEW S, NEW x \in S, \A y \in S : y = x
  PROVE  Cardinality(S) = 1
<1>1. S = {x}
  OBVIOUS
<1> QED BY <1>1, FS_Singleton

LEMMA NoneIs ==
  ASSUME NEW S, \A y \in S : FALSE
  PROVE  Cardinality(S) = 0
<1>1. S = {}
  OBVIOUS
<1> QED BY <1>1, FS_EmptySet

LEMMA OneFlight ==
  ASSUME RInv, NEW id \in Ids
  PROVE  Cardinality({r \in Reqs : Flying(r) /\ req[r].id = id}) = IF id \in loading THEN 1 ELSE 0
<1>0. Flights
  BY DEF RInv
<1>1. PICK S : S = {r \in Reqs : Flying(r) /\ req[r].id = id}
  OBVIOUS
<1>2. CASE id \in loading
  <2>1. PICK r \in Reqs : Flying(r) /\ req[r].id = id
    BY <1>0, <1>2 DEF Flights
  <2>2. r \in S /\ \A s \in S : s = r
    BY <1>0, <1>1, <2>1 DEF Flights
  <2>3. Cardinality(S) = 1
    BY <2>2, OneIs
  <2> QED BY <1>1, <1>2, <2>3
<1>3. CASE id \notin loading
  <2>1. \A s \in S : FALSE
    BY <1>0, <1>1, <1>3 DEF Flights
  <2>2. Cardinality(S) = 0
    BY <2>1, NoneIs
  <2> QED BY <1>1, <1>3, <2>2
<1> QED BY <1>2, <1>3

LEMMA OneLoad ==
  ASSUME RInv, NEW o \in DOMAIN objs, NEW i \in DOMAIN objs[o].state
  PROVE  Cardinality({r \in Reqs : Loads(req[r]) /\ req[r].obj = o /\ req[r].at = i})
           + Cardinality({x \in ahead : Loads(x) /\ x.obj = o /\ x.at = i})
         = IF objs[o].state[i] = "loading" THEN 1 ELSE 0
<1>0. Loaders
  BY DEF RInv
<1>1. PICK S : S = {r \in Reqs : Loads(req[r]) /\ req[r].obj = o /\ req[r].at = i}
  OBVIOUS
<1>2. PICK A : A = {x \in ahead : Loads(x) /\ x.obj = o /\ x.at = i}
  OBVIOUS
<1>3. /\ \A r : r \in S <=> r \in Reqs /\ LoadsAt(req[r], o, i)
      /\ \A x : x \in A <=> x \in ahead /\ LoadsAt(x, o, i)
  BY <1>1, <1>2 DEF LoadsAt
<1>4. /\ \A r, s \in S : r = s
      /\ \A x, y \in A : x = y
      /\ \A r \in S, x \in A : FALSE
  BY <1>0, <1>3 DEF Loaders, LoadsAt
<1>5. CASE objs[o].state[i] # "loading"
  <2>1. (\A r \in S : FALSE) /\ (\A x \in A : FALSE)
    BY <1>0, <1>3, <1>5 DEF Loaders, LoadsAt, Claimed
  <2>2. Cardinality(S) = 0 /\ Cardinality(A) = 0
    BY <2>1, NoneIs
  <2> QED BY <1>1, <1>2, <1>5, <2>2
<1>6. CASE objs[o].state[i] = "loading"
  <2>1. CASE \E r \in S : TRUE
    <3>1. PICK r \in S : TRUE
      BY <2>1
    <3>2. Cardinality(S) = 1
      BY <1>4, <3>1, OneIs
    <3>3. Cardinality(A) = 0
      BY <1>4, <3>1, NoneIs
    <3> QED BY <1>1, <1>2, <1>6, <3>2, <3>3
  <2>2. CASE \E x \in A : TRUE
    <3>1. PICK x \in A : TRUE
      BY <2>2
    <3>2. Cardinality(A) = 1
      BY <1>4, <3>1, OneIs
    <3>3. Cardinality(S) = 0
      BY <1>4, <3>1, NoneIs
    <3> QED BY <1>1, <1>2, <1>6, <3>2, <3>3
  <2>3. (\E r \in S : TRUE) \/ (\E x \in A : TRUE)
    <3>1. \/ \E r \in Reqs : LoadsAt(req[r], o, i)
          \/ \E x \in ahead : LoadsAt(x, o, i)
      BY <1>0, <1>6 DEF Loaders
    <3> QED BY <1>3, <3>1
  <2> QED BY <2>1, <2>2, <2>3
<1> QED BY <1>5, <1>6

\* single_flight and try_claim let one thread at a time load a file and a chunk, and
\* a claim has its thread, for any numbers of threads, handles, files and failures.
THEOREM ClaimsHaveOneLoader == Spec => []OneLoader
<1>1. ASSUME RInv PROVE OneLoader
  BY <1>1, OneFlight, OneLoad DEF OneLoader, Count
<1> QED BY <1>1, Invariant, PTL

\* Permits, chunk slots and threads of the burst pool are given back however a read
\* ends, and no job waits in its queue while a thread is free to run it.
THEOREM PoolsAreGivenBack == Spec => []NothingLeaks
<1>1. ASSUME RInv PROVE NothingLeaks
  <2>1. Counts /\ Queues /\ \A x \in ahead : ~x.permit
    BY <1>1 DEF RInv, Loaders
  <2>2. Cardinality({x \in ahead : x.permit}) = 0
    <3>1. {x \in ahead : x.permit} = {}
      BY <2>1
    <3> QED BY <3>1, FS_EmptySet
  <2>3. free.permits + Count(LAMBDA x : x.permit) = Permits
    <3>1. Cardinality(Permitted) \in Nat
      BY FiniteReqs DEF Permitted
    <3> QED BY <2>1, <2>2, <3>1 DEF Counts, Count, Permitted
  <2>4. free.slots + Count(HasSlot) = ChunkSlots
    <3>1. /\ Cardinality(Slotted) \in Nat /\ Cardinality(SlotsAhead) \in Nat /\ free.slots \in Int
      BY <1>1, FiniteReqs, CountsIs, FS_Subset, FS_CardinalityType DEF Slotted, SlotsAhead, RInv, Typed
    <3> QED BY <2>1, <3>1 DEF Counts, Count, Slotted, SlotsAhead
  <2> QED BY <2>1, <2>3, <2>4 DEF NothingLeaks, Counts, Queues, NetThreads
<1> QED BY <1>1, Invariant, PTL

\* A chunk that counts as ready is in memory, whichever loads of it failed and were
\* thrown away; and what a read gives are the bytes of its own file, through renames,
\* evictions and files that are opened twice.
THEOREM ReadsGiveTheirFile == Spec => []ReadyIsThere
<1>1. ASSUME RInv PROVE ReadyIsThere
  BY <1>1 DEF RInv, Shaped, Requests, ReqOk, ReadyIsThere
<1> QED BY <1>1, Invariant, PTL

\* The variables keep their types, and the pools and counters their bounds.
THEOREM ReadsAreTyped == Spec => []TypeOK
<1>1. ASSUME RInv, Spare PROVE TypeOK
  <2>1. index \cup stored \cup loading \cup DOMAIN cache.entries \cup DOMAIN large.map \subseteq Ids
    BY <1>1 DEF RInv, Typed, Cachings, Book, Booked, Shelf, Larges
  <2>2. Range(large.map) \subseteq DOMAIN objs /\ Range(large.order) \subseteq Ids
    <3>1. Shelf(large)
      BY <1>1 DEF RInv, Cachings
    <3>2. large.order \in Seq(Ids)
      BY <3>1 DEF Shelf, Larges
    <3> QED BY <3>1, <3>2 DEF Range, Shelf, Points
  <2>3. \A o \in DOMAIN objs : /\ objs[o].have \cup objs[o].tried \subseteq DOMAIN objs[o].state
                               /\ Range(objs[o].state) \subseteq {"missing", "loading", "ready"}
    BY <1>1, ObjIs DEF Range
  <2>4. \A h \in Handles : handle[h].pin \in {None, "mem", "large"}
    BY <1>1, CountsIs DEF OpenFiles
  <2>5. \A x \in ahead : x.obj \in DOMAIN objs /\ Loads(x)
    BY <1>1 DEF RInv, Loaders, Claimed
  <2>6. burst.running \in 0 .. NetWorkers /\ Range(burst.queue) \cup Range(ioq) \subseteq Reqs
    <3>1. /\ burst.queue \in Seq(Reqs) /\ ioq \in Seq(Reqs)
          /\ burst.running \in Nat /\ burst.running <= NetWorkers /\ NetWorkers \in Nat
      BY <1>1, CountsIs DEF RInv, Counts
    <3> QED BY <3>1 DEF Range
  <2>7. free.permits \in 0 .. Permits /\ free.slots \in 0 .. ChunkSlots
    <3>1. /\ Cardinality(Slotted) \in Nat /\ Cardinality(SlotsAhead) \in Nat /\ Cardinality(Permitted) \in Nat
          /\ free.slots \in Int /\ free.permits \in Int /\ Permits \in Nat /\ ChunkSlots \in Nat
      BY <1>1, FiniteReqs, CountsIs, FS_Subset, FS_CardinalityType, WorldIs, ReadsAssumption
         DEF Slotted, SlotsAhead, Permitted, RInv, Typed
    <3> QED BY <1>1, <3>1 DEF Spare, RInv, Counts
  <2>8. reads \in 0 .. MaxReads /\ faults \in 0 .. MaxFaults
    BY <1>1 DEF RInv, Typed
  <2> QED BY <2>1, <2>2, <2>3, <2>4, <2>5, <2>6, <2>7, <2>8 DEF TypeOK
<1> QED BY <1>1, Invariant, PTL

\* Under every id is cached the file of that id, every entry has the one key in the
\* order that evicts it, and the total that the limit is kept by is never less than
\* what the entries take: no rename, insert or eviction makes it wrap around.
THEOREM CachesStayRight == Spec => []CachesAreRight
<1>1. ASSUME RInv PROVE CachesAreRight
  <2>0. PICK D, o, t : D = DOMAIN cache.entries /\ o = cache.order /\ t = cache.total
    OBVIOUS
  <2>1. Book(cache) /\ Bulk(D) <= MaxBytes /\ Shelf(large) /\ world \in Worlds
    BY <1>1, <2>0 DEF RInv, Cachings, Typed
  <2>2. Booked(D, o, t) /\ cache.entries = Entries(D)
    <3>1. Booked(D, o, t) /\ cache = [entries |-> Entries(D), order |-> o, total |-> t]
      BY <2>0, <2>1, Zenon DEF Book
    <3>2. PICK E : E = Entries(D)
      OBVIOUS
    <3> QED BY <3>1, <3>2
  <2>3. \A id \in D : cache.entries[id].of = ContentOf(id) /\ cache.entries[id].size = world.size[id]
    BY <2>2 DEF Entries
  <2>4. \A id \in D : Cardinality({k \in DOMAIN o : o[k] = Live(id)}) = 1
    <3>1. ASSUME NEW id \in D PROVE Cardinality({k \in DOMAIN o : o[k] = Live(id)}) = 1
      <4>1. Has(o, Live(id)) /\ Once(o, Live(id))
        BY <2>2 DEF Booked
      <4>2. PICK k \in DOMAIN o : o[k] = Live(id)
        BY <4>1 DEF Has
      <4>3. PICK S : S = {n \in DOMAIN o : o[n] = Live(id)}
        OBVIOUS
      <4>4. k \in S /\ \A n \in S : n = k
        BY <4>1, <4>2, <4>3 DEF Once
      <4>5. Cardinality(S) = 1
        BY <4>4, OneIs
      <4> QED BY <4>3, <4>5
    <3> QED BY <3>1
  <2>5. SumFunction([id \in DOMAIN cache.entries |-> cache.entries[id].size]) = Bulk(D)
    <3>1. PICK F : F = [id \in D |-> cache.entries[id].size]
      OBVIOUS
    <3>2. PICK G : G = world.size
      OBVIOUS
    <3>3. D \subseteq Ids /\ IsFiniteSet(D)
      BY <2>2 DEF Booked
    <3>4. DOMAIN F = D /\ \A id \in D : F[id] \in Int /\ F[id] = G[id]
      BY <2>1, <2>3, <3>1, <3>2, <3>3, WorldIs
    <3>5. SumFunctionOnSet(F, D) = SumFunctionOnSet(G, D)
      BY <3>3, <3>4, SumSame
    <3>6. SumFunction(F) = SumFunctionOnSet(F, D)
      BY <3>4 DEF SumFunction
    <3> QED BY <2>0, <3>1, <3>2, <3>5, <3>6 DEF Bulk
  <2>6. Bulk(D) <= t
    BY <2>2 DEF Booked
  <2>7. \A id \in DOMAIN large.map : /\ objs[large.map[id]].of = ContentOf(id)
                                     /\ id \in Range(large.order)
    BY <2>1 DEF Shelf, Points, Has, Range
  <2> QED BY <2>0, <2>1, <2>3, <2>4, <2>5, <2>6, <2>7 DEF CachesAreRight
<1> QED BY <1>1, Invariant, PTL
=============================================================================
