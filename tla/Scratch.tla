------------------------------ MODULE Scratch -------------------------------
(***************************************************************************)
(* The write buffer of the FUSE client (lethean_fuse/src/scratch.rs): a    *)
(* file under edit, kept in RAM a block at a time within a budget that all *)
(* buffers of a mount share, the rest spilled to an encrypted file.        *)
(*                                                                         *)
(* An operation holds the buffer's mutex, but the budget (ScratchPool.used)*)
(* is an atomic that other buffers change between any two steps of it, so  *)
(* an operation is a sequence of steps here.  An upload reads the buffer   *)
(* through ScratchReader, which takes the mutex anew for every read.       *)
(***************************************************************************)
EXTENDS FileOps, FiniteSets, SequencesExt

CONSTANTS
  MaxCached,    \* MAX_CACHED_BLOCKS, per buffer
  PoolBlocks,   \* the budget of the pool, in blocks
  MaxFails      \* bound: how often the spill file fails one buffer

ASSUME PoolAssumption ==
  /\ IsFiniteSet(Scratches)
  /\ MaxCached \in Nat \ {0}
  /\ PoolBlocks \in Nat
  /\ MaxFails \in Nat

VARIABLES
  used,       \* ScratchPool.used, in blocks
  reserved,   \* reserved[s]: blocks of the pool this buffer holds
  cache,      \* cache[s]: the blocks in RAM
  mem,        \* mem[s][b]: their bytes (Blank for a block not in RAM)
  dirty,      \* dirty[s]: those that differ from the spill file
  order,      \* order[s]: the blocks in RAM, least recently used first
  onDisk,     \* onDisk[s]: the blocks with a slot in the spill file
  disk,       \* disk[s][b]: what the slot holds (Blank without one)
  failed,     \* how often the spill file has failed the buffer (a history variable)
  len, gen, op,
  committed,  \* committed_generation
  upload,     \* the upload that reads the buffer, or NoUpload
  remote      \* the bytes and the length of the last finished upload

spill == <<onDisk, disk, failed>>
ram   == <<cache, mem, dirty, order>>
pool  == <<used, reserved>>
sync  == <<committed, upload, remote>>
vars  == <<pool, ram, spill, len, gen, op, sync>>

NoUpload == [on |-> FALSE, gen |-> 0, pos |-> 0, end |-> 0,
             data |-> [b \in Blocks |-> Blank]]

\* Scratch::new
Init ==
  /\ used      = 0
  /\ reserved  = [s \in Scratches |-> 0]
  /\ cache     = [s \in Scratches |-> {}]
  /\ mem       = [s \in Scratches |-> [b \in Blocks |-> Blank]]
  /\ dirty     = [s \in Scratches |-> {}]
  /\ order     = [s \in Scratches |-> <<>>]
  /\ onDisk    = [s \in Scratches |-> {}]
  /\ disk      = [s \in Scratches |-> [b \in Blocks |-> Blank]]
  /\ failed    = [s \in Scratches |-> 0]
  /\ len       = [s \in Scratches |-> 0]
  /\ gen       = [s \in Scratches |-> 0]
  /\ op        = [s \in Scratches |-> Idle]
  /\ committed = [s \in Scratches |-> 0]
  /\ upload    = [s \in Scratches |-> NoUpload]
  /\ remote    = [s \in Scratches |-> [len |-> 0, data |-> [b \in Blocks |-> Blank]]]
-----------------------------------------------------------------------------
LoadBlank(s, b) == Blank                                                \* mutant
\* load_block: what is behind a block that is not in RAM.
Backing(s, b) == IF b \in onDisk[s] THEN disk[s][b] ELSE Blank

\* What read_at finds in a block.
Held(s, b) == IF b \in cache[s] THEN mem[s][b] ELSE Backing(s, b)

CacheLen(s) == Cardinality(cache[s])

PositionOf(q, b) == CHOOSE i \in DOMAIN q : q[i] = b
ForgetNothing(q, b) == q                                                \* mutant
Forget(q, b)        == RemoveAt(q, PositionOf(q, b))

\* touch: the block becomes the most recently used.
Touch(q, b) == Append(Forget(q, b), b)

\* write_at: a full block that is not in RAM bypasses a cache that is full.
WritesThrough(s) ==
  /\ Full(op[s]) /\ Target(op[s]) \notin cache[s] /\ CacheLen(s) >= MaxCached

\* cached_block_mut has to bring the operation's block into RAM.
NeedsBlock(s) ==
  /\ Touching(op[s]) /\ Target(op[s]) \notin cache[s] /\ ~WritesThrough(s)

\* make_room: the budget and the block limit allow one more block.
CanReserveOneMore(s) == CacheLen(s) < MaxCached /\ used <= PoolBlocks   \* mutant
CanReserve(s) == CacheLen(s) < MaxCached /\ used < PoolBlocks

\* make_room goes on without a reservation when there is nothing to evict.
HasRoomReserved(s) == CanReserve(s)                                     \* mutant
HasRoom(s)   == CanReserve(s) \/ cache[s] = {}
MustEvict(s) == ~CanReserve(s) /\ cache[s] # {}

\* mutant: the buffer does not count the block it reserved.
ReserveUncounted(s) ==
  IF CanReserve(s) THEN used' = used + 1 /\ UNCHANGED reserved ELSE UNCHANGED pool

Reserve(s) ==
  IF CanReserve(s) THEN /\ used' = used + 1
                        /\ reserved' = [reserved EXCEPT ![s] = @ + 1]
                   ELSE UNCHANGED pool
-----------------------------------------------------------------------------
BeginWrite(s, off, end, v) ==
  /\ op[s] = Idle /\ off < end /\ gen[s] < MaxGen
  /\ op' = [op EXCEPT ![s] = WriteOp(off, end, v)]
  /\ UNCHANGED <<pool, ram, spill, len, gen, sync>>

\* write_at, direct path: the block goes to its slot of the spill file.
WriteThrough(s) ==
  LET b == Target(op[s]) IN
  /\ Touching(op[s]) /\ WritesThrough(s)
  /\ onDisk' = [onDisk EXCEPT ![s] = @ \cup {b}]
  /\ disk' = [disk EXCEPT ![s][b] = Overwrite(@, op[s])]
  /\ op' = [op EXCEPT ![s] = Advance(op[s])]
  /\ UNCHANGED <<pool, ram, failed, len, gen, sync>>

\* cached_block_mut of a block in RAM, and the change to it.
ChangeCached(s) ==
  LET b == Target(op[s]) IN
  /\ Touching(op[s]) /\ b \in cache[s]
  /\ order' = [order EXCEPT ![s] = Touch(@, b)]
  /\ mem' = [mem EXCEPT ![s][b] = Overwrite(@, op[s])]
  /\ dirty' = [dirty EXCEPT ![s] = @ \cup {b}]
  /\ op' = [op EXCEPT ![s] = Advance(op[s])]
  /\ UNCHANGED <<pool, cache, spill, len, gen, sync>>

\* cached_block_mut of another block: make_room succeeds, the block is loaded
\* (a full write starts from a blank one), inserted and changed.
ChangeLoaded(s) ==
  LET b    == Target(op[s])
      data == IF Full(op[s]) THEN Blank ELSE Backing(s, b)
  IN
  /\ NeedsBlock(s) /\ HasRoom(s) /\ Reserve(s)
  /\ cache' = [cache EXCEPT ![s] = @ \cup {b}]
  /\ order' = [order EXCEPT ![s] = Append(@, b)]
  /\ mem' = [mem EXCEPT ![s][b] = Overwrite(data, op[s])]
  /\ dirty' = [dirty EXCEPT ![s] = @ \cup {b}]
  /\ op' = [op EXCEPT ![s] = Advance(op[s])]
  /\ UNCHANGED <<spill, len, gen, sync>>

\* The spill file fails: the operation ends, and neither the length nor the change
\* counter moves.
Fails(s) ==
  /\ Faults /\ failed[s] < MaxFails
  /\ failed' = [failed EXCEPT ![s] = @ + 1]
  /\ op' = [op EXCEPT ![s] = Idle]
  /\ UNCHANGED <<onDisk, disk, len, gen, sync>>

\* The slot cannot be read: the reservation made for the block stays.
LoadFails(s) ==
  /\ Fails(s) /\ NeedsBlock(s) /\ HasRoom(s) /\ Reserve(s)
  /\ ~Full(op[s]) /\ Target(op[s]) \in onDisk[s]
  /\ UNCHANGED ram

\* make_room, one turn of its loop: evict_lru spills the least recently used
\* block and gives its reservation back, if the buffer holds one for it.
EvictLru(s) ==
  LET b == Head(order[s]) IN
  /\ NeedsBlock(s) /\ MustEvict(s)
  /\ order' = [order EXCEPT ![s] = Tail(@)]
  /\ cache' = [cache EXCEPT ![s] = @ \ {b}]
  /\ mem' = [mem EXCEPT ![s][b] = Blank]
  /\ dirty' = [dirty EXCEPT ![s] = @ \ {b}]
  /\ IF b \in dirty[s]
     THEN /\ onDisk' = [onDisk EXCEPT ![s] = @ \cup {b}]
          /\ disk' = [disk EXCEPT ![s][b] = mem[s][b]]
     ELSE UNCHANGED <<onDisk, disk>>
  /\ IF reserved[s] > CacheLen(s) - 1
     THEN /\ used' = used - 1
          /\ reserved' = [reserved EXCEPT ![s] = @ - 1]
     ELSE UNCHANGED pool
  /\ UNCHANGED <<failed, len, gen, op, sync>>

\* mutant: the block that was taken out of the cache is not put back.
BlockLost(s) ==
  LET b == Head(order[s]) IN
  /\ Fails(s) /\ NeedsBlock(s) /\ MustEvict(s)
  /\ order' = [order EXCEPT ![s] = Tail(@)]
  /\ cache' = [cache EXCEPT ![s] = @ \ {b}]
  /\ mem' = [mem EXCEPT ![s][b] = Blank]
  /\ dirty' = [dirty EXCEPT ![s] = @ \ {b}]
  /\ UNCHANGED pool

\* write_slot fails, on the direct path or under evict_lru (which puts the
\* block back where it was): the operation returns the error.
SpillFails(s) ==
  /\ Fails(s) /\ Touching(op[s])
  /\ \/ WritesThrough(s)
     \/ NeedsBlock(s) /\ MustEvict(s) /\ Head(order[s]) \in dirty[s]
  /\ UNCHANGED <<pool, ram>>

\* The last step of write_at and of a set_len that shrinks: set_len_internal.
Finish(s) ==
  /\ \/ /\ op[s].kind = "write" /\ op[s].at = op[s].end
        /\ len' = [len EXCEPT ![s] = Max2(@, op[s].end)]
     \/ /\ op[s].kind = "cut"
        /\ len' = [len EXCEPT ![s] = op[s].end]
  /\ gen' = [gen EXCEPT ![s] = @ + 1]
  /\ op' = [op EXCEPT ![s] = Idle]
  /\ UNCHANGED <<pool, ram, spill, sync>>
-----------------------------------------------------------------------------
\* set_len to the same length or a longer one; mark_dirty is the former.
Extend(s, n) ==
  /\ op[s] = Idle /\ n >= len[s] /\ gen[s] < MaxGen
  /\ len' = [len EXCEPT ![s] = n]
  /\ gen' = [gen EXCEPT ![s] = @ + 1]
  /\ UNCHANGED <<pool, ram, spill, op, sync>>

BeginShrink(s, n) ==
  /\ op[s] = Idle /\ n < len[s] /\ gen[s] < MaxGen
  /\ op' = [op EXCEPT ![s] = CutOp("drop", n)]
  /\ UNCHANGED <<pool, ram, spill, len, gen, sync>>

\* The reservations for which no block is in RAM any more.
SurplusKept(s) == 0                                                     \* mutant
Surplus(s)     == Max2(0, reserved[s] - CacheLen(s))

\* The new end lies inside a block that has been written.
HasNoTail(s, n) == FALSE                                                \* mutant
HasTail(s, n)   == ~AtBlock(n) /\ BlockOf(n) \in cache[s] \cup onDisk[s]

Doomed(s) == {b \in cache[s] : b >= Keep(op[s].end)}

DropBlock(s, b) ==
  /\ op[s].kind = "drop" /\ b \in Doomed(s)
  /\ cache' = [cache EXCEPT ![s] = @ \ {b}]
  /\ mem' = [mem EXCEPT ![s][b] = Blank]
  /\ dirty' = [dirty EXCEPT ![s] = @ \ {b}]
  /\ order' = [order EXCEPT ![s] = Forget(@, b)]
  /\ UNCHANGED <<pool, spill, len, gen, op, sync>>

\* The surplus reservations go back to the pool, the slots past the new end
\* are forgotten, and the rest of the last block is left to clear, if any.
Truncate(s) ==
  LET n    == op[s].end
      gone == {b \in onDisk[s] : b >= Keep(n)}
  IN
  /\ op[s].kind = "drop" /\ Doomed(s) = {}
  /\ used' = used - Surplus(s)
  /\ reserved' = [reserved EXCEPT ![s] = @ - Surplus(s)]
  /\ onDisk' = [onDisk EXCEPT ![s] = @ \ gone]
  /\ disk' = [disk EXCEPT ![s] = [b \in Blocks |-> IF b \in gone THEN Blank ELSE @[b]]]
  /\ op' = [op EXCEPT ![s].kind = IF HasTail(s, n) THEN "tail" ELSE "cut"]
  /\ UNCHANGED <<ram, failed, len, gen, sync>>
-----------------------------------------------------------------------------
\* commit_write_file: an upload of a dirty buffer starts from the generation and
\* the length it has now, and reads it with a ScratchReader from then on.
BeginUpload(s) ==
  /\ op[s] = Idle /\ ~upload[s].on /\ gen[s] # committed[s]
  /\ upload' = [upload EXCEPT ![s] =
                  [NoUpload EXCEPT !.on = TRUE, !.gen = gen[s], !.end = len[s]]]
  /\ UNCHANGED <<pool, ram, spill, len, gen, op, committed, remote>>

\* ScratchReader::read: at most up to the end of a block, of the upload and of
\* the file as it is now.
ReadOneMore(s) == (BlockOf(upload[s].pos) + 1) * BlockSize + 1          \* mutant
ReadEnd(s) ==
  Min2(Min2((BlockOf(upload[s].pos) + 1) * BlockSize, upload[s].end), len[s])

ReadChunk(s) ==
  LET u == upload[s]
      b == BlockOf(u.pos)
  IN
  /\ op[s] = Idle /\ u.on /\ u.pos < u.end /\ u.pos < len[s]
  /\ upload' = [upload EXCEPT ![s].pos = ReadEnd(s),
                  ![s].data[b] = [c \in Cells |->
                     IF u.pos <= b * BlockSize + c /\ b * BlockSize + c < ReadEnd(s)
                     THEN Held(s, b)[c] ELSE @[c]]]
  /\ UNCHANGED <<pool, ram, spill, len, gen, op, committed, remote>>

\* The network or the server fails, or the file shrank under the reader.
UploadFails(s) ==
  /\ upload[s].on
  /\ upload' = [upload EXCEPT ![s] = NoUpload]
  /\ UNCHANGED <<pool, ram, spill, len, gen, op, committed, remote>>

\* mutant: the generation at the end of the upload, not at its start.
MarkAllCommitted(s) ==
  LET u == upload[s] IN
  /\ op[s] = Idle /\ u.on /\ u.pos = u.end
  /\ remote' = [remote EXCEPT ![s] = [len |-> u.end, data |-> u.data]]
  /\ committed' = [committed EXCEPT ![s] = gen[s]]
  /\ upload' = [upload EXCEPT ![s] = NoUpload]
  /\ UNCHANGED <<pool, ram, spill, len, gen, op>>

\* mark_committed(generation), under the mutex again.
MarkCommitted(s) ==
  LET u == upload[s] IN
  /\ op[s] = Idle /\ u.on /\ u.pos = u.end
  /\ remote' = [remote EXCEPT ![s] = [len |-> u.end, data |-> u.data]]
  /\ committed' = [committed EXCEPT ![s] = u.gen]
  /\ upload' = [upload EXCEPT ![s] = NoUpload]
  /\ UNCHANGED <<pool, ram, spill, len, gen, op>>

\* Drop for Scratch, and the new buffer of the next file that is opened.
Discard(s) ==
  /\ op[s] = Idle /\ ~upload[s].on
  /\ used' = used - reserved[s]
  /\ reserved' = [reserved EXCEPT ![s] = 0]
  /\ cache' = [cache EXCEPT ![s] = {}]
  /\ mem' = [mem EXCEPT ![s] = [b \in Blocks |-> Blank]]
  /\ dirty' = [dirty EXCEPT ![s] = {}]
  /\ order' = [order EXCEPT ![s] = <<>>]
  /\ onDisk' = [onDisk EXCEPT ![s] = {}]
  /\ disk' = [disk EXCEPT ![s] = [b \in Blocks |-> Blank]]
  /\ failed' = [failed EXCEPT ![s] = 0]
  /\ len' = [len EXCEPT ![s] = 0]
  /\ gen' = [gen EXCEPT ![s] = 0]
  /\ committed' = [committed EXCEPT ![s] = 0]
  /\ remote' = [remote EXCEPT ![s] = [len |-> 0, data |-> [b \in Blocks |-> Blank]]]
  /\ UNCHANGED <<op, upload>>
-----------------------------------------------------------------------------
\* A step of the operation that holds the mutex of s.
OpStep(s) ==
  \/ WriteThrough(s) \/ ChangeCached(s) \/ ChangeLoaded(s) \/ LoadFails(s)
  \/ EvictLru(s) \/ SpillFails(s) \/ Finish(s) \/ Truncate(s)
  \/ \E b \in Blocks : DropBlock(s, b)

UploadStep(s) ==
  BeginUpload(s) \/ ReadChunk(s) \/ UploadFails(s) \/ MarkCommitted(s)

Next == \E s \in Scratches :
  \/ \E off, end \in Pos, v \in Values : BeginWrite(s, off, end, v)
  \/ \E n \in Pos : Extend(s, n) \/ BeginShrink(s, n)
  \/ OpStep(s) \/ UploadStep(s) \/ Discard(s)

\* A thread in a scratch operation runs on; nothing else is promised.
Spec     == Init /\ [][Next]_vars
FairSpec == Spec /\ \A s \in Scratches : WF_vars(OpStep(s))
-----------------------------------------------------------------------------
Matrix == [Blocks -> Block]

TypeOK ==
  /\ used \in Int
  /\ reserved \in [Scratches -> Int]
  /\ cache \in [Scratches -> SUBSET Blocks]
  /\ mem \in [Scratches -> Matrix]
  /\ dirty \in [Scratches -> SUBSET Blocks]
  /\ order \in [Scratches -> Seq(Blocks)]
  /\ onDisk \in [Scratches -> SUBSET Blocks]
  /\ disk \in [Scratches -> Matrix]
  /\ failed \in [Scratches -> Nat]
  /\ len \in [Scratches -> Pos]
  /\ gen \in [Scratches -> Nat]
  /\ op \in [Scratches -> Op]
  /\ committed \in [Scratches -> Nat]
  /\ upload \in [Scratches -> [on : BOOLEAN, gen : Nat, pos : Pos, end : Pos,
                               data : Matrix]]
  /\ remote \in [Scratches -> [len : Pos, data : Matrix]]

\* The LRU list names exactly the blocks in RAM, each once: evict_lru pops from
\* it and would spin for ever, in make_room, on a list that has lost a block
\* (scratch.rs evict_lru, touch, set_len).
OrderIsCache ==
  \A s \in Scratches :
    /\ cache[s] = ToSet(order[s])
    /\ \A i, j \in DOMAIN order[s] : order[s][i] = order[s][j] => i = j

\* The pool's counter is exactly what the live buffers hold: it cannot wrap below
\* zero, and is back to zero when they are gone (ScratchPool::release, Drop).
PoolAccounting == used = FoldFunction(+, 0, reserved)

\* The budget holds for the pool, and a buffer has at most one block in RAM beyond
\* its reservation (make_room lets a buffer with an empty cache go on without one).
PoolBounds ==
  /\ used <= PoolBlocks
  /\ \A s \in Scratches : 0 <= reserved[s] /\ CacheLen(s) <= reserved[s] + 1
                          /\ CacheLen(s) <= MaxCached

\* What a failed write or truncation leaves behind is weaker than what the next
\* three properties say, so they speak of the other buffers.
Sound == {s \in Scratches : failed[s] = 0}

\* Between operations a buffer keeps no reservation without a block in RAM, so a
\* buffer that shrank cannot starve the others (set_len).
NoIdleReservation ==
  \A s \in Sound : op[s].kind # "drop" => reserved[s] <= CacheLen(s)

\* Bytes past the end are zero, so a file that grows again shows a hole (set_len,
\* which clears the rest of the last block).
ZeroPastEnd ==
  \A s \in Sound : op[s] = Idle =>
    \A b \in Blocks, c \in Cells :
      b * BlockSize + c >= len[s] => Held(s, b)[c] = Zero

\* A buffer that says it is clean holds, byte for byte, what the last finished
\* upload sent, although writes and truncations went on under the reader: this
\* is what lets release drop the buffer (Scratch::is_dirty, mark_committed).
CleanIsUploaded ==
  \A s \in Sound : op[s] = Idle /\ gen[s] = committed[s] =>
    /\ remote[s].len = len[s]
    /\ \A b \in Blocks, c \in Cells :
         b * BlockSize + c < len[s] => remote[s].data[b][c] = Held(s, b)[c]

\* The buffer behaves as the plain array of ByteFile.tla.  While set_len drops
\* blocks, those past the new end already count as blank.
Bytes == [s \in Scratches |-> [b \in Blocks |->
            IF op[s].kind = "drop" /\ b >= Keep(op[s].end) THEN Blank ELSE Held(s, b)]]

File     == INSTANCE ByteFile WITH bytes <- Bytes
FileSpec == File!Spec

\* An operation that entered the buffer leaves it, however the other buffers
\* compete for the budget.
OperationsEnd == \A s \in Scratches : (op[s] # Idle) ~> (op[s] = Idle)
=============================================================================
