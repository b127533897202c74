-------------------------------- MODULE Reads --------------------------------
(***************************************************************************)
(* Reads of the FUSE client: how a read of a file that is not being        *)
(* written gets its bytes (lethean_fuse/src/fuse_fs.rs: read, the pools of *)
(* threads, the permits; vault.rs: the cache of small files, the cache of  *)
(* large ones, the chunks of a large file that are loaded as they are      *)
(* read, one download per file and one load per chunk at a time).          *)
(*                                                                         *)
(* A read runs on a thread of the burst pool, or, when its handle has the  *)
(* file pinned already, on one of the few I/O threads.  Small files come   *)
(* whole into ContentCache; a large one becomes a LargeFile, an object     *)
(* that the cache, handles and running reads share, and that lives on when *)
(* the cache drops it.  Meanwhile a rename of the file moves what is       *)
(* cached to its new id.                                                   *)
(*                                                                         *)
(* Bytes are abstracted to the file that they are of: files are made of    *)
(* chunks, a small file counts its size in the cache.                      *)
(***************************************************************************)
EXTENDS Integers, Sequences, FiniteSets, FiniteSetsExt, SequencesExt, Functions

CONSTANTS
  Reqs,           \* slots for requests that are under way
  Handles,        \* handles opened for reading
  IoWorkers,      \* IO_WORKERS
  ChunkSlots,     \* MAX_CONCURRENT_CHUNK_FETCHES
  Attempts,       \* LARGE_LOAD_ATTEMPTS
  ReadAhead,      \* CHUNK_READAHEAD
  MaxBytes,       \* CONTENT_CACHE_MAX_BYTES
  MaxEntryBytes,  \* CONTENT_CACHE_MAX_ENTRY_BYTES
  MaxLarge,       \* LARGE_CACHE_MAX_BYTES, in chunks
  Worlds          \* the mounts, see world

None == "none"

ASSUME ReadsAssumption ==
  /\ {IoWorkers, ChunkSlots, Attempts} \subseteq Nat \ {0}
  /\ {ReadAhead, MaxBytes, MaxEntryBytes, MaxLarge} \subseteq Nat
  /\ IsFiniteSet(Reqs)
  /\ \A w \in Worlds :
       /\ {w.workers, w.permits} \subseteq Nat \ {0} /\ {w.reads, w.faults} \subseteq Nat
       /\ w.size \in [DOMAIN w.kind -> Nat] /\ w.open \in [Handles -> DOMAIN w.kind]
       \* A renamed file has the bytes of the old one.
       /\ \A id \in DOMAIN w.kind : w.from[id] # None =>
            /\ w.from[id] \in DOMAIN w.kind
            /\ w.size[id] = w.size[w.from[id]] /\ w.kind[id] = w.kind[w.from[id]]

VARIABLES
  world,    \* the files: kind "small", "whole" or "chunked", size, and what each is
            \* renamed from; what is open; NET_WORKERS, MAX_CONCURRENT_NETWORK_OPS;
            \* and bounds on the reads and on the failures of the server, the network
            \* and thread starts
  index,    \* the ids that the vault shows
  stored,   \* the records that the server has
  cache,    \* ContentCache
  large,    \* LargeCache
  objs,     \* the LargeFiles made so far
  loading,  \* ids whose download is under way (Vault.loading)
  handle,   \* handle[h]: its id and what is pinned
  req,      \* what each request does
  ahead,    \* the read-ahead threads
  burst,    \* BurstPool: threads running, queue
  ioq,      \* WorkerPool: queue
  free,     \* permits and chunk slots that are free
  mover,    \* the rename that is under way
  reads, faults \* counters for the bounds

vars == <<world, index, stored, cache, large, objs, loading, handle, req, ahead, burst, ioq, free,
          mover, reads, faults>>
pools == <<burst, ioq, free>>
store == <<cache, large, objs>>
files == <<world, index, stored>>

Ids        == DOMAIN world.kind
NetWorkers == world.workers
Permits    == world.permits
MaxReads   == world.reads
MaxFaults  == world.faults
Small(id)  == world.kind[id] = "small"
\* What a file's bytes are: a renamed file has the bytes of the old one.
ContentOf(id) == IF world.from[id] = None THEN id ELSE world.from[id]

NoReq == [pc |-> "idle", h |-> None, id |-> None, lo |-> 0, hi |-> 0, at |-> 0, via |-> "net",
          obj |-> 0, tries |-> 0, before |-> 0, got |-> None, ok |-> TRUE, permit |-> FALSE]

Init ==
  /\ world \in Worlds
  /\ index   = {id \in Ids : world.from[id] = None}
  /\ stored  = index
  /\ cache   = [entries |-> << >>, order |-> << >>, total |-> 0]
  /\ large   = [map |-> << >>, order |-> << >>]
  /\ objs    = << >>
  /\ loading = {}
  /\ handle  = [h \in Handles |-> [id |-> world.open[h], pin |-> None, obj |-> 0]]
  /\ req     = [r \in Reqs |-> NoReq]
  /\ ahead   = {}
  /\ burst   = [running |-> 0, queue |-> << >>]
  /\ ioq     = << >>
  /\ free    = [permits |-> world.permits, slots |-> ChunkSlots]
  /\ mover   = [pc |-> "idle", old |-> None, new |-> None]
  /\ reads   = 0
  /\ faults  = 0

Fault == faults < MaxFaults /\ faults' = faults + 1
Calm  == UNCHANGED faults
-----------------------------------------------------------------------------
(* ContentCache.  entries[id] is what is cached of whom and how big it is; *)
(* order has the keys by stamp, oldest first, and live says that the       *)
(* entry still has that stamp.                                             *)

Cached(c, id)  == id \in DOMAIN c.entries
Live(id)       == [id |-> id, live |-> TRUE]
\* Every x goes from the sequence.
Dropped(o, x)   == FoldLeft(LAMBDA acc, y : IF y = x THEN acc ELSE Append(acc, y), << >>, o)
Unlinked(o, id) == Dropped(o, Live(id))
\* The live key of id, if it has one, is one of an entry that is not there any more.
Dangling(o, id) == [k \in DOMAIN o |-> IF o[k] = Live(id) THEN [o[k] EXCEPT !.live = FALSE] ELSE o[k]]
Without(f, id)  == Restrict(f, DOMAIN f \ {id})
With(f, id, v)  == [x \in DOMAIN f \cup {id} |-> IF x = id THEN v ELSE f[x]]

\* get: a hit is the newest now.
Hit(c, id) == [c EXCEPT !.order = IF Live(id) \in Range(@) THEN Append(Unlinked(@, id), Live(id)) ELSE @]

Uncache(c, id) ==
  IF ~Cached(c, id) THEN c
  ELSE [entries |-> Without(c.entries, id), order |-> Unlinked(c.order, id),
        total   |-> c.total - c.entries[id].size]

EvictOldest(c) ==
  LET id == Head(c.order).id  rest == Tail(c.order) IN
  IF ~Cached(c, id) THEN [c EXCEPT !.order = rest]
  ELSE [entries |-> Without(c.entries, id), order |-> Dangling(rest, id),
        total   |-> c.total - c.entries[id].size]

\* Until the total fits, or there is no key any more.
EvictAll(c) ==
  FoldLeft(LAMBDA acc, x : IF acc.total > MaxBytes /\ acc.order # << >> THEN EvictOldest(acc) ELSE acc,
           c, c.order)

\* Mutant: the entry that had the id goes uncounted.
InsertOver(c, id) ==
  LET size  == world.size[id]
      added == [entries |-> With(c.entries, id, [of |-> ContentOf(id), size |-> size]),
                order |-> Append(Unlinked(c.order, id), Live(id)), total |-> c.total]
  IN  IF size > MaxEntryBytes THEN c ELSE EvictAll(added)

CacheInsert(c, id) ==
  LET size  == world.size[id]
      bare  == Uncache(c, id)
      added == [entries |-> With(bare.entries, id, [of |-> ContentOf(id), size |-> size]),
                order |-> Append(bare.order, Live(id)), total |-> bare.total + size]
  IN  IF size > MaxEntryBytes THEN c ELSE EvictAll(added)

\* rekey: an entry that new has already is replaced without its bytes being taken
\* from the total, and leaves its key in the order.
CacheRekey(c, old, new) ==
  IF ~Cached(c, old) THEN c
  ELSE [c EXCEPT !.entries = With(Without(@, old), new, @[old]),
                 !.order   = Append(Dangling(Unlinked(@, old), new), Live(new))]
-----------------------------------------------------------------------------
(* LargeCache.  Its total is computed when it is needed (enforce).         *)

Resident(o) == IF objs[o].whole THEN objs[o].chunks ELSE Cardinality(objs[o].have)

Touch(l, id) ==
  LET at == SelectInSeq(l.order, LAMBDA x : x = id) IN
  IF at = 0 \/ Last(l.order) = id THEN l
  ELSE [l EXCEPT !.order = Append(RemoveAt(@, at), id)]

LargeTotal(l) == MapThenSumSet(LAMBDA id : Resident(l.map[id]), DOMAIN l.map)
DropOldest(l) ==
  IF LargeTotal(l) > MaxLarge /\ Len(l.order) > 1
  THEN [map |-> Without(l.map, Head(l.order)), order |-> Tail(l.order)] ELSE l
Enforce(l) == FoldLeft(LAMBDA acc, x : DropOldest(acc), l, l.order)

LargeRemove(l, id) ==
  IF id \notin DOMAIN l.map THEN l
  ELSE [map |-> Without(l.map, id), order |-> Dropped(l.order, id)]

LargeInsert(l, id, o) ==
  LET bare == LargeRemove(l, id)
  IN  Enforce([map |-> With(bare.map, id, o), order |-> Append(bare.order, id)])

LargeRekey(l, old, new) ==
  IF old \notin DOMAIN l.map THEN l
  ELSE [map   |-> With(Without(l.map, old), new, l.map[old]),
        order |-> [k \in DOMAIN l.order |-> IF l.order[k] = old THEN new ELSE l.order[k]]]
-----------------------------------------------------------------------------
(* Threads, and the start of a read.                                       *)

At(r, p)      == req[r].pc = p
Go(r, j)      == req' = [req EXCEPT ![r] = j]
GoTo(r, p)    == req' = [req EXCEPT ![r].pc = p]
Finish(r)     == GoTo(r, "answer")
Fail(r)       == req' = [req EXCEPT ![r].pc = "answer", ![r].ok = FALSE]
FailFlight(r) == req' = [req EXCEPT ![r].pc = "unclaim", ![r].ok = FALSE]

Asked(r, h, lo, hi) ==
  LET id == handle[h].id IN
  [NoReq EXCEPT !.h = h, !.id = id, !.obj = handle[h].obj,
     !.lo = IF Small(id) THEN 0 ELSE lo, !.hi = IF Small(id) THEN 0 ELSE hi]

\* BurstPool::run: at its cap the job waits for a thread that is done; otherwise a
\* thread is started, and the job is lost (and its reply with it, which answers
\* with an error) if it cannot be.
RunAlways(r, j) ==                                                      \* mutant: no cap
  burst' = [burst EXCEPT !.running = @ + 1] /\ Go(r, j) /\ Calm

RunOnBurst(r, j) ==
  IF burst.running >= NetWorkers
  THEN /\ burst' = [burst EXCEPT !.queue = Append(@, r)]
       /\ Go(r, [j EXCEPT !.pc = "queued"]) /\ Calm
  ELSE \/ burst' = [burst EXCEPT !.running = @ + 1] /\ Go(r, j) /\ Calm
       \/ UNCHANGED burst /\ Go(r, [j EXCEPT !.pc = "answer", !.via = "none", !.ok = FALSE]) /\ Fault

\* read, on the session thread.  (A file that is being written is read from the
\* write buffer: WriteSession.tla.)
Read(r, h, lo, hi) ==
  LET j == Asked(r, h, lo, hi)  id == handle[h].id IN
  /\ At(r, "idle") /\ reads < MaxReads
  /\ reads' = reads + 1
  /\ hi < world.size[id]
  /\ CASE handle[h].pin = "mem" -> Go(r, [j EXCEPT !.pc = "answer", !.via = "none", !.got = ContentOf(id)])
                                   /\ UNCHANGED <<cache, handle, burst, ioq, faults>>
       [] handle[h].pin = "large" -> /\ Go(r, [j EXCEPT !.pc = "queued", !.via = "io"])
                                     /\ ioq' = Append(ioq, r)
                                     /\ UNCHANGED <<cache, handle, burst, faults>>
       [] handle[h].pin = None /\ Cached(cache, id) ->
            /\ Go(r, [j EXCEPT !.pc = "answer", !.via = "none", !.got = cache.entries[id].of])
            /\ cache' = Hit(cache, id)
            /\ handle' = [handle EXCEPT ![h].pin = "mem"]
            /\ UNCHANGED <<burst, ioq, faults>>
       [] OTHER -> RunOnBurst(r, [j EXCEPT !.pc = "cached"]) /\ UNCHANGED <<cache, handle, ioq>>
  /\ UNCHANGED <<files, large, objs, loading, ahead, free, mover>>

\* note_read_open and prefetch_dir: small files that a program is likely to read
\* next are downloaded, with no permit and no handle.
Prefetch(r, id) ==
  /\ At(r, "idle") /\ reads < MaxReads /\ reads' = reads + 1
  /\ id \in index /\ Small(id) /\ ~Cached(cache, id)
  /\ Go(r, [NoReq EXCEPT !.pc = "info", !.via = "prefetch", !.id = id])
  /\ UNCHANGED <<files, store, loading, handle, ahead, pools, mover, faults>>

\* The answer, the permit and the thread: the next job in the queue gets it.
ReplyAnd(r, given) ==
  LET next == Head(burst.queue) IN
  /\ At(r, "answer")
  /\ free' = [free EXCEPT !.permits = IF given THEN @ + 1 ELSE @]
  /\ CASE req[r].via # "net" -> Go(r, NoReq) /\ UNCHANGED burst
       [] req[r].via = "net" /\ burst.queue # << >> ->
            /\ req' = [req EXCEPT ![r] = NoReq, ![next].pc = "cached"]
            /\ burst' = [burst EXCEPT !.queue = Tail(@)]
       [] OTHER -> Go(r, NoReq) /\ burst' = [burst EXCEPT !.running = @ - 1]
  /\ UNCHANGED <<files, store, loading, handle, ahead, ioq, mover, reads, faults>>

\* Mutant: a read that failed keeps its permit.
AnswerGood(r) == ReplyAnd(r, req[r].permit /\ req[r].ok)
Answer(r)     == ReplyAnd(r, req[r].permit)

IoTake(r) ==
  /\ ioq # << >> /\ Head(ioq) = r
  /\ Cardinality({x \in Reqs : req[x].via = "io" /\ req[x].pc # "queued"}) < IoWorkers
  /\ ioq' = Tail(ioq)
  /\ GoTo(r, "read")
  /\ UNCHANGED <<files, store, loading, handle, ahead, burst, free, mover, reads, faults>>
-----------------------------------------------------------------------------
(* A read on the burst pool: caches, permit, single flight.                *)

Chunks(r)      == req[r].lo .. req[r].hi
AllReady(o, r) == objs[o].whole \/ \A i \in Chunks(r) : objs[o].state[i] = "ready"

\* try_read_cached
TryCached(r) ==
  LET id == req[r].id IN
  /\ At(r, "cached")
  /\ IF Cached(cache, id)
     THEN /\ Go(r, [req[r] EXCEPT !.pc = "answer", !.got = cache.entries[id].of])
          /\ cache' = Hit(cache, id) /\ UNCHANGED large
     ELSE IF id \in DOMAIN large.map
     THEN /\ large' = Touch(large, id) /\ UNCHANGED cache
          /\ IF AllReady(large.map[id], r)
             THEN Go(r, [req[r] EXCEPT !.pc = "answer", !.got = objs[large.map[id]].of])
             ELSE GoTo(r, "permit")
     ELSE GoTo(r, "permit") /\ UNCHANGED <<cache, large>>
  /\ UNCHANGED <<files, objs, loading, handle, ahead, pools, mover, reads, faults>>

TakePermit(r) ==
  /\ At(r, "permit") /\ free.permits > 0
  /\ free' = [free EXCEPT !.permits = @ - 1]
  /\ Go(r, [req[r] EXCEPT !.pc = "info", !.permit = TRUE])
  /\ UNCHANGED <<files, store, loading, handle, ahead, burst, ioq, mover, reads, faults>>

\* read_info, and for a small file the entry that download_arc takes.
Info(r) ==
  /\ At(r, "info")
  /\ IF req[r].id \in index THEN GoTo(r, "look") ELSE Fail(r)
  /\ UNCHANGED <<files, store, loading, handle, ahead, pools, mover, reads, faults>>

Found(id)    == IF Small(id) THEN Cached(cache, id) ELSE id \in DOMAIN large.map
\* What a cached file gives a request.
Take(j, id)  == IF Small(id) THEN [j EXCEPT !.got = cache.entries[id].of]
                ELSE [j EXCEPT !.obj = large.map[id]]
TouchHit(id) == IF Small(id) THEN cache' = Hit(cache, id) /\ UNCHANGED large
                ELSE large' = Touch(large, id) /\ UNCHANGED cache

\* single_flight: look, and join the flight or claim it.
Look(r) ==
  LET id == req[r].id IN
  /\ At(r, "look")
  /\ IF Found(id)
     THEN /\ Go(r, Take([req[r] EXCEPT !.pc = IF Small(id) THEN "pin" ELSE "read"], id))
          /\ TouchHit(id)
     ELSE GoTo(r, "claim") /\ UNCHANGED <<cache, large>>
  /\ UNCHANGED <<files, objs, loading, handle, ahead, pools, mover, reads, faults>>

\* Mutant: a flight that is under way is not waited for.
ClaimAnyway(r) ==
  /\ At(r, "claim")
  /\ loading' = loading \cup {req[r].id} /\ GoTo(r, "again")
  /\ UNCHANGED <<files, store, handle, ahead, pools, mover, reads, faults>>

Claim(r) ==
  LET id == req[r].id IN
  /\ At(r, "claim")
  /\ IF id \in loading THEN GoTo(r, "wait") /\ UNCHANGED loading
     ELSE loading' = loading \cup {id} /\ GoTo(r, "again")
  /\ UNCHANGED <<files, store, handle, ahead, pools, mover, reads, faults>>

Wait(r) ==
  /\ At(r, "wait") /\ req[r].id \notin loading
  /\ GoTo(r, "look")
  /\ UNCHANGED <<files, store, loading, handle, ahead, pools, mover, reads, faults>>

LookAgain(r) ==
  LET id == req[r].id IN
  /\ At(r, "again")
  /\ IF Found(id) THEN Go(r, Take([req[r] EXCEPT !.pc = "unclaim"], id)) /\ TouchHit(id)
     ELSE GoTo(r, "work") /\ UNCHANGED <<cache, large>>
  /\ UNCHANGED <<files, objs, loading, handle, ahead, pools, mover, reads, faults>>
-----------------------------------------------------------------------------
(* The work of a flight.                                                   *)

\* A download that the network interrupts is tried again.
Interrupted(r) ==
  IF req[r].tries + 1 < Attempts THEN req' = [req EXCEPT ![r].tries = @ + 1] ELSE FailFlight(r)

\* download_content and the decryption of a small file.
DownloadSmall(r) ==
  /\ At(r, "work") /\ Small(req[r].id)
  /\ IF req[r].id \notin stored THEN FailFlight(r) /\ Calm
     ELSE \/ Go(r, [req[r] EXCEPT !.pc = "put", !.got = ContentOf(req[r].id)]) /\ Calm
          \/ FailFlight(r) /\ Fault
  /\ UNCHANGED <<files, store, loading, handle, ahead, pools, mover, reads>>

NewObj(r, whole) ==
  LET n == world.size[req[r].id] IN
  /\ objs' = Append(objs, [of |-> ContentOf(req[r].id), whole |-> whole, from |-> req[r].id,
                           chunks |-> n,
                           state |-> [i \in 0 .. n - 1 |-> "missing"], tried |-> {}, have |-> {}])
  /\ Go(r, [req[r] EXCEPT !.pc = "check", !.obj = Len(objs) + 1])

\* open_chunked, of a server that can send a part; download_large otherwise, and when
\* that could not be asked (supports_ranges).
OpenLarge(r) ==
  LET id == req[r].id IN
  /\ At(r, "work") /\ ~Small(id)
  /\ \/ id \notin index \cap stored /\ FailFlight(r) /\ Calm /\ UNCHANGED objs
     \/ id \in index \cap stored /\ NewObj(r, world.kind[id] = "whole") /\ Calm
     \/ id \in index \cap stored /\ NewObj(r, TRUE) /\ Fault
     \/ world.kind[id] = "whole" /\ Interrupted(r) /\ Fault /\ UNCHANGED objs
     \/ FailFlight(r) /\ Fault /\ UNCHANGED objs
  /\ UNCHANGED <<files, cache, large, loading, handle, ahead, pools, mover, reads>>

\* A large file that was removed meanwhile is not cached.
CheckStill(r) ==
  /\ At(r, "check")
  /\ GoTo(r, IF req[r].id \in index THEN "put" ELSE "unclaim")
  /\ UNCHANGED <<files, store, loading, handle, ahead, pools, mover, reads, faults>>

Put(r) ==
  LET id == req[r].id IN
  /\ At(r, "put")
  /\ IF Small(id) THEN cache' = CacheInsert(cache, id) /\ UNCHANGED large
     ELSE large' = LargeInsert(large, id, req[r].obj) /\ UNCHANGED cache
  /\ GoTo(r, "unclaim")
  /\ UNCHANGED <<files, objs, loading, handle, ahead, pools, mover, reads, faults>>

\* Mutant: a flight that failed keeps its claim.
UnclaimGood(r) ==
  /\ At(r, "unclaim")
  /\ loading' = IF req[r].ok THEN loading \ {req[r].id} ELSE loading
  /\ GoTo(r, IF ~req[r].ok THEN "answer" ELSE IF Small(req[r].id) THEN "pin" ELSE "read")
  /\ UNCHANGED <<files, store, handle, ahead, pools, mover, reads, faults>>

\* ClaimGuard: the claim goes, whatever became of the flight.
Unclaim(r) ==
  /\ At(r, "unclaim")
  /\ loading' = loading \ {req[r].id}
  /\ GoTo(r, IF ~req[r].ok THEN "answer" ELSE IF Small(req[r].id) THEN "pin" ELSE "read")
  /\ UNCHANGED <<files, store, handle, ahead, pools, mover, reads, faults>>
-----------------------------------------------------------------------------
(* LargeFile::read_at: every chunk is made ready, some are read ahead.     *)

StartRead(r) ==
  /\ At(r, "read")
  /\ Go(r, [req[r] EXCEPT !.before = Resident(req[r].obj), !.at = req[r].lo,
              !.pc = IF objs[req[r].obj].whole THEN "copy" ELSE "ensure"])
  /\ UNCHANGED <<files, store, loading, handle, ahead, pools, mover, reads, faults>>

SetChunk(o, i, s) == objs' = [objs EXCEPT ![o].state[i] = s]

\* ensure: a chunk that another thread loads is waited for.
Ensure(r) ==
  LET o == req[r].obj  i == req[r].at IN
  /\ At(r, "ensure")
  /\ IF i > req[r].hi THEN GoTo(r, "ahead") /\ UNCHANGED objs
     ELSE \/ objs[o].state[i] = "ready" /\ Go(r, [req[r] EXCEPT !.at = i + 1]) /\ UNCHANGED objs
          \/ objs[o].state[i] = "missing" /\ SetChunk(o, i, "loading")
             /\ Go(r, [req[r] EXCEPT !.pc = "slot", !.tries = 0])
  /\ UNCHANGED <<files, cache, large, loading, handle, ahead, pools, mover, reads, faults>>

\* load_claimed, by a request or by a read-ahead thread.  x has obj, at, tries, pc;
\* Be(y) makes y its next state.
TakeSlot(x, Be(_)) ==
  /\ x.pc = "slot" /\ free.slots > 0
  /\ free' = [free EXCEPT !.slots = @ - 1]
  /\ Be([x EXCEPT !.pc = "fetch"])
  /\ UNCHANGED <<objs, faults>>

\* fetch: the chunk's buffer is filled, or thrown away again.  It asks for the record
\* that the file was opened from; a record that is gone is not asked for again.
Fetch(x, Be(_)) ==
  LET there == objs[x.obj].from \in stored IN
  /\ x.pc = "fetch"
  /\ \/ /\ Be([x EXCEPT !.pc = "loaded", !.ok = there]) /\ Calm
        /\ objs' = IF there THEN [objs EXCEPT ![x.obj].have = @ \cup {x.at}] ELSE objs
     \/ /\ there /\ Fault /\ UNCHANGED objs
        /\ \/ x.tries + 1 < Attempts /\ Be([x EXCEPT !.tries = @ + 1])
           \/ Be([x EXCEPT !.pc = "loaded", !.ok = FALSE])
  /\ UNCHANGED free

\* LoadingReset; mutant: a chunk whose load failed counts as loaded.
AfterAnyLoad(ok) == "ready"
AfterLoad(ok)    == IF ok THEN "ready" ELSE "missing"

\* The slot is given back, and the chunk is let go of.
Loaded(x, Be(_)) ==
  /\ x.pc = "loaded"
  /\ free' = [free EXCEPT !.slots = @ + 1]
  /\ SetChunk(x.obj, x.at, AfterLoad(x.ok))
  /\ Be(x)
  /\ UNCHANGED faults

Load(r) ==
  LET Be(y)  == Go(r, y)
      End(y) == Go(r, [y EXCEPT !.pc = IF y.ok THEN "ensure" ELSE "answer"])
  IN
  /\ TakeSlot(req[r], Be) \/ Fetch(req[r], Be) \/ Loaded(req[r], End)
  /\ UNCHANGED <<files, cache, large, loading, handle, ahead, burst, ioq, mover, reads>>

\* A thread of its own for each of the next chunks that was never tried, when the
\* reads are in sequence (which is left open here).
ReadOn(r) ==
  LET o == req[r].obj  i == req[r].at IN
  /\ At(r, "ahead")
  /\ IF i > req[r].hi + ReadAhead \/ i >= objs[o].chunks
     THEN GoTo(r, "copy") /\ UNCHANGED <<objs, ahead>> /\ Calm
     ELSE \/ i = req[r].hi + 1 /\ GoTo(r, "copy") /\ UNCHANGED <<objs, ahead>> /\ Calm
          \/ /\ Go(r, [req[r] EXCEPT !.at = i + 1])
             /\ IF i \in objs[o].tried \/ objs[o].state[i] # "missing"
                THEN objs' = [objs EXCEPT ![o].tried = @ \cup {i}] /\ UNCHANGED ahead /\ Calm
                ELSE \/ /\ objs' = [objs EXCEPT ![o] = [objs[o] EXCEPT !.tried = @ \cup {i}, !.state[i] = "loading"]]
                        /\ ahead' = ahead \cup {[NoReq EXCEPT !.pc = "slot", !.obj = o, !.at = i]}
                        /\ Calm
                     \/ objs' = [objs EXCEPT ![o].tried = @ \cup {i}] /\ UNCHANGED ahead /\ Fault
  /\ UNCHANGED <<files, cache, large, loading, handle, pools, mover, reads>>

AheadStep(x) ==
  LET Be(y)  == ahead' = (ahead \ {x}) \cup {y}
      End(y) == ahead' = ahead \ {x}
  IN
  /\ TakeSlot(x, Be) \/ Fetch(x, Be) \/ Loaded(x, End)
  /\ UNCHANGED <<files, cache, large, loading, handle, req, burst, ioq, mover, reads>>

\* read_resident: fails if a chunk is not there.
Copy(r) ==
  LET o == req[r].obj IN
  /\ At(r, "copy")
  /\ IF objs[o].whole \/ Chunks(r) \subseteq objs[o].have
     THEN Go(r, [req[r] EXCEPT !.got = objs[o].of,
                   !.pc = IF Resident(o) # req[r].before THEN "enforce" ELSE "pin"])
     ELSE Go(r, [req[r] EXCEPT !.pc = "answer", !.ok = FALSE, !.got = "not loaded"])
  /\ UNCHANGED <<files, store, loading, handle, ahead, pools, mover, reads, faults>>

EnforceLimit(r) ==
  /\ At(r, "enforce")
  /\ large' = Enforce(large)
  /\ GoTo(r, "pin")
  /\ UNCHANGED <<files, cache, objs, loading, handle, ahead, pools, mover, reads, faults>>

\* The handle keeps what was read.
Pin(r) ==
  /\ At(r, "pin")
  /\ handle' = IF req[r].via # "net" THEN handle
               ELSE [handle EXCEPT ![req[r].h].pin = IF Small(req[r].id) THEN "mem" ELSE "large",
                                   ![req[r].h].obj = req[r].obj]
  /\ Finish(r)
  /\ UNCHANGED <<files, store, loading, ahead, pools, mover, reads, faults>>
-----------------------------------------------------------------------------
(* The file is renamed.                                                    *)

\* rename_or_move: the copy shows in the index, what is cached is moved to it, the
\* old entry is forgotten, and the handles follow.
Rename(new) ==
  /\ mover.pc = "idle" /\ new \in Ids \ index /\ world.from[new] \in index
  /\ index' = index \cup {new}
  /\ stored' = stored \cup {new}
  /\ mover' = [pc |-> "rekey", old |-> world.from[new], new |-> new]
  /\ UNCHANGED <<world, store, loading, handle, req, ahead, pools, reads, faults>>

Rekey ==
  /\ mover.pc = "rekey"
  /\ cache' = CacheRekey(cache, mover.old, mover.new)
  /\ large' = LargeRekey(large, mover.old, mover.new)
  /\ mover' = [mover EXCEPT !.pc = "forget"]
  /\ UNCHANGED <<files, objs, loading, handle, req, ahead, pools, reads, faults>>

\* forget_local
Forget(id) ==
  /\ index' = index \ {id}
  /\ cache' = Uncache(cache, id)
  /\ large' = LargeRemove(large, id)

ForgetOld ==
  /\ mover.pc = "forget"
  /\ Forget(mover.old)
  /\ mover' = [mover EXCEPT !.pc = "repoint"]
  /\ UNCHANGED <<world, stored, objs, loading, handle, req, ahead, pools, reads, faults>>

Repoint ==
  /\ mover.pc = "repoint"
  /\ handle' = [h \in Handles |-> IF handle[h].id = mover.old
                                  THEN [handle[h] EXCEPT !.id = mover.new] ELSE handle[h]]
  /\ mover' = [mover EXCEPT !.pc = "done"]
  /\ UNCHANGED <<files, store, loading, req, ahead, pools, reads, faults>>

\* The thread that deletes what was replaced, as long as that takes it.
DeleteOld ==
  /\ mover.pc \in {"repoint", "done"} /\ mover.old \in stored
  /\ stored' = stored \ {mover.old}
  /\ UNCHANGED <<world, index, store, loading, handle, req, ahead, pools, mover, reads, faults>>
-----------------------------------------------------------------------------
Step(r) ==
  \/ Answer(r) \/ IoTake(r) \/ TryCached(r) \/ TakePermit(r) \/ Info(r)
  \/ Look(r) \/ Claim(r) \/ Wait(r) \/ LookAgain(r) \/ DownloadSmall(r) \/ OpenLarge(r)
  \/ CheckStill(r) \/ Put(r) \/ Unclaim(r) \/ StartRead(r) \/ Ensure(r) \/ Load(r)
  \/ ReadOn(r) \/ Copy(r) \/ EnforceLimit(r) \/ Pin(r)

MoverStep == Rekey \/ ForgetOld \/ Repoint

Next ==
  \/ \E r \in Reqs, h \in Handles : \E lo \in 0 .. 2 : \E hi \in lo .. 2 : Read(r, h, lo, hi)
  \/ \E r \in Reqs, id \in Ids : Prefetch(r, id)
  \/ \E r \in Reqs : Step(r)
  \/ \E x \in ahead : AheadStep(x)
  \/ \E new \in Ids : Rename(new)
  \/ MoverStep \/ DeleteOld

\* Threads run until they are done; calls to the server end.
Fairness ==
  /\ \A r \in Reqs : WF_vars(Step(r))
  /\ WF_vars(\E x \in ahead : AheadStep(x))
  /\ WF_vars(MoverStep)

Spec == Init /\ [][Next]_vars /\ Fairness
-----------------------------------------------------------------------------
(* Properties.                                                             *)

Flying(r)   == req[r].pc \in {"again", "work", "check", "put", "unclaim"}
Loads(x)    == x.pc \in {"slot", "fetch", "loaded"}
HasSlot(x)  == x.pc \in {"fetch", "loaded"}
\* Requests and read-ahead threads that f holds of.
Count(f(_)) == Cardinality({r \in Reqs : f(req[r])}) + Cardinality({x \in ahead : f(x)})

\* The variables have their types; pools keep to their sizes.
TypeOK ==
  /\ index \cup stored \cup loading \cup DOMAIN cache.entries \cup DOMAIN large.map \subseteq Ids
  /\ Range(large.map) \subseteq DOMAIN objs /\ Range(large.order) \subseteq Ids
  /\ \A o \in DOMAIN objs : /\ objs[o].have \cup objs[o].tried \subseteq DOMAIN objs[o].state
                             /\ Range(objs[o].state) \subseteq {"missing", "loading", "ready"}
  /\ \A h \in Handles : handle[h].pin \in {None, "mem", "large"}
  /\ \A x \in ahead : x.obj \in DOMAIN objs /\ Loads(x)
  /\ burst.running \in 0 .. NetWorkers /\ Range(burst.queue) \cup Range(ioq) \subseteq Reqs
  /\ free.permits \in 0 .. Permits /\ free.slots \in 0 .. ChunkSlots
  /\ reads \in 0 .. MaxReads /\ faults \in 0 .. MaxFaults

\* No file is downloaded twice at a time and no chunk is loaded twice at a time; and
\* a claim, on a file or on a chunk, has a thread that will let go of it, however
\* downloads, starts of threads and loads fail (single_flight, ensure, try_claim,
\* ClaimGuard, LoadingReset).
OneLoader ==
  /\ \A id \in Ids : Cardinality({r \in Reqs : Flying(r) /\ req[r].id = id})
                    = IF id \in loading THEN 1 ELSE 0
  /\ \A o \in DOMAIN objs : \A i \in DOMAIN objs[o].state :
       Count(LAMBDA x : Loads(x) /\ x.obj = o /\ x.at = i)
         = IF objs[o].state[i] = "loading" THEN 1 ELSE 0

\* Permits, chunk slots and threads are all given back, and no job waits in a queue
\* while a thread could run it.
NothingLeaks ==
  /\ free.permits + Count(LAMBDA x : x.permit) = Permits
  /\ free.slots + Count(HasSlot) = ChunkSlots
  /\ burst.running = Cardinality({r \in Reqs : req[r].via = "net" /\
                                          req[r].pc \notin {"idle", "queued"}})
  /\ burst.queue # << >> => burst.running = NetWorkers

\* A chunk that counts as ready is there, so no read finds a chunk missing that it
\* has made sure of, whoever loads it, fails to and throws it away; and a read that
\* succeeds gives the bytes of its own file (read_resident, fetch, rekey).
ReadyIsThere ==
  /\ \A o \in DOMAIN objs : \A i \in DOMAIN objs[o].state :
       objs[o].state[i] = "ready" => i \in objs[o].have
  /\ \A r \in Reqs : req[r].got # None => req[r].got = ContentOf(req[r].id)

\* The caches' books: what is cached under an id is that file; every entry can be
\* found by eviction; the small files cached fit the limit, and the total never
\* falls below what they take, so that no subtraction from it can wrap around.  (It
\* may be more: a rename onto an id that has been read already counts it twice.)
CachesAreRight ==
  LET Sum == SumFunction([id \in DOMAIN cache.entries |-> cache.entries[id].size]) IN
  /\ \A id \in DOMAIN cache.entries :
       /\ cache.entries[id].of = ContentOf(id)
       /\ Cardinality({k \in DOMAIN cache.order : cache.order[k] = Live(id)}) = 1
  /\ Sum <= cache.total /\ Sum <= MaxBytes
  /\ \A id \in DOMAIN large.map : /\ objs[large.map[id]].of = ContentOf(id)
                                 /\ id \in Range(large.order)

\* A read that nothing went wrong for fails only when its file is no longer in the
\* vault: a rename pipes the ciphertext without changing it, and what was opened
\* before can be read after (fetch, rekey, delete_replaced).
FailsForAReason ==
  faults = 0 => \A r \in Reqs : At(r, "answer") /\ ~req[r].ok => req[r].id \notin index

\* Every read is answered: no read waits for a permit, a slot, a thread or another
\* read's download in a circle, and none for a claim whose owner has failed.
EveryReadEnds == \A r \in Reqs : req[r].pc # "idle" ~> req[r].pc = "idle"
=============================================================================
