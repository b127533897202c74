# Lethean in TLA+

Lethean is an encrypted file vault. A server keeps ciphertext; clients (a web
client, and `lethean_fuse`, which mounts the vault as a file system) hold the
keys. A record on the server is never changed: saving, renaming and truncating a
file upload a new record and delete the old one. That one decision, and the
programs that write to the mount without knowing it, make most of what is hard
here: a save is a long upload with many steps around it, and everything else the
kernel asks for goes on meanwhile.

This directory holds the specification of the parts modelled so far, the TLC
instances that check them and the proofs. `PROJECT.json` relates every definition
to the lines it stands for (`map`), lists the runs, and the places in the code
where something can go wrong that a test would hardly reach (`hazards`).

## The system

| Component | State | Operations | What is hard |
|---|---|---|---|
| Open files and saves, `fuse_fs.rs` | inodes and ids (`node_of_ino`, `ino_of_id`), `pending_by_key`, `writers`, `handles`, the target of each buffer | the kernel's requests, answered on one session thread; jobs on 64 workers for what needs the network | a save reads its target, uploads, and applies the result to state that renames, unlinks, truncates, opens and other saves changed meanwhile |
| Write buffer, `scratch.rs` | block cache, LRU list, dirty bits, spill file, length, generation; a byte budget all buffers share | `write_at`, `set_len`, `read_at`, eviction, the reader of an upload | books kept in five places; the budget is contended; slots of the spill file may fail; the upload reads a moving file |
| Background work, `fuse_fs.rs` | `Syncer`, `NotifyHub`, `BurstPool`, `NetSemaphore` | periodic sync, renumbering of inodes, kernel invalidation, prefetch | generations of syncs, waiting with deadlines, jobs that are dropped |
| Vault, `vault.rs` | index (records, names, folders), journal, hidden records, delete queue, quarantine, content caches | `sync`, create, replace, rename, delete, `heal_pending`, `rotate_password` | a sync lists the server for seconds and applies the result to an index that local saves changed meanwhile |
| Heal, `heal.rs` | none (a plan over the records) | three rules: identical, superseded, successor chains | two clients with different views must not delete each other's choice |
| Server client, `api.rs` | none kept | retries, multipart uploads, the search for an upload that landed | an answer that is lost after the server acted |
| Formats, `crypto/` | none | encryption, padding, key derivation | not concurrent; interoperability tests cover it |
| Commands, `main.rs`, `upgrade.rs`, `dedupe.rs`, `duress.rs`, `config.rs` | configuration file | mount, upgrade of old records, clean-up | sequential |
| Server, `server/` | records, upload sessions, blobs, access tokens, share links, duress slots | upload in one piece or in parts, list, delete, share, wipe, rotate | requests of one vault interleave; some take the vault's lock and some do not; database row and blob are two things |
| Web client, `client/src` | its own caches | the same server API | acts here as "another client" |

Calls go one way: the file system calls the vault and its buffers, the vault calls
the server client. State is shared between the session thread and the workers
through `FsState` (one mutex), each buffer's `WriteFile` (three mutexes) and the
vault's index (a read-write lock). What makes a component correct:

- *buffers*: what was written is read back, whatever was evicted, and a buffer
  that calls itself clean holds what was uploaded;
- *open files*: a buffer lives as long as its handles, nothing acknowledged is
  dropped, a save replaces only the version it was made from, a removed file
  stays removed, every request is answered;
- *vault*: a local save is never undone by a sync, an old copy never reappears,
  deferred deletes happen or stay hidden;
- *heal*: one copy of every file survives;
- *server*: the quota holds, every record has its blob and every blob a record,
  a rotation moves everything or nothing.

## The modules

### Write buffers

| Module | What it is |
|---|---|
| `FileOps` | operations on a file of blocks: which bytes of which block a write or a truncation changes |
| `ByteFile` | the abstract specification: each buffer is an array of bytes, operations are applied a block at a time |
| `Scratch` | `scratch.rs`: cache, LRU list, dirty bits, spill file, shared budget, upload reader |
| `MCScratch` | its instances |
| `FoldLemmas` | sums, folds, loops and walks over finite sets, for the proofs |
| `ScratchProofs` | types, LRU list, dirty blocks, the budget and its accounting, idle reservations; `Scratch` implements `ByteFile`; what a buffer holds past its end, and when it is clean |

An operation holds the buffer's mutex, so it runs alone on its buffer; but the
budget (`ScratchPool.used`) is an atomic that the other buffers change, so an
operation is a sequence of steps: one turn of the loop of `make_room` is
`EvictLru`, its success is part of `ChangeLoaded`, a full block that bypasses
the cache is `WriteThrough`, and `set_len` is `BeginShrink`, `DropBlock`,
`Truncate`, perhaps a change of the last block, and `Finish`. `ReadChunk` is one
`ScratchReader::read`. `Faults` lets the spill file fail, at reads and writes.
A slot write that is torn is taken as no write; encryption is left out.
`used` counts blocks, not bytes.

When the file has failed a buffer, a reservation made for a block that could not be loaded stays
until the next eviction or truncation, bytes past the end may stay after a failed
write, and a failed `set_len` has dropped blocks without a new generation. So
`NoIdleReservation`, `ZeroPastEnd` and `CleanIsUploaded` are stated of the buffers
that no failure has met since they were made (`Sound`, from the history variable
`failed`); the accounting, the bounds and
`FileSpec` are checked of all. In `scratch_pool` a block is one byte, so that every
write is of a full block and only evictions meet the faults; `scratch_data` has
partial writes.

### Open files and saves

| Module | What it is |
|---|---|
| `WriteSession` | `fuse_fs.rs`: inodes, names, handles, shared buffers, and the jobs of flush, release, open, truncate, unlink, rename |
| `MCWriteSession` | its instances |
| `WriteSessionProofs` | the inductive invariant; types and bounds, handle counts, the record that a save replaces, that no change is dropped with its buffer, that an unsaved file has one |

The session thread takes one request at a time; each such request is one action,
except that `setattr` takes the buffer under the state mutex and cuts it later
(`Truncate`, `SetLen`). A job is a record in `job[w]` with a program counter; its
steps are divided where the code lets go of a lock:

    flush, release   lock -> upload | create -> drop -> settle -> repoint (-> close)
    open             attach
    truncate         upload -> drop -> repoint
    unlink           delete -> discard
    rename           upload -> drop (-> delete -> discard) -> repoint

`settle` joins `mark_committed` and the new target (two mutexes taken one after
the other: nothing reads the one and the other in between but the holder of
`commit_lock` and a rename, which writes the same value); the dirty check, the
generation and the target of `lock` are joined in the same way.

Content is a version number, so that properties can say *which* content a record
or a buffer has; what the bytes do is the business of `Scratch`. Records are
numbered as they are made; the copies that `free_name` makes of a name are
further numbers of the same series, and of records with one name the oldest is
found under it (`place_name`). `Elsewhere` lets another client add and remove
records (what `Vault::sync` brings), `UploadFaults` lets requests fail for good,
`PathTruncate` allows truncate(2) without a handle.

What the kernel promises is external: it holds the directory's lock over create,
unlink and rename, a file's lock over write, truncate and unlink, and flushes a
descriptor before it releases the handle. `init` (fuse_fs.rs:1100) asks for
FUSE_DO_READDIRPLUS only, so O_TRUNC never reaches `open`, and its branches
there are left out. Left out here: folders, moves between them and
the names of records that share one (`Folders`), `read` (`Reads`); and everywhere:
`forget` and lookup counts, `readdir`, hash collisions of inodes, and `Syncer::apply`.

### Folders and names

| Module | What it is |
|---|---|
| `VaultIndex` | the index of `vault.rs` as a value, with the operators that change it |
| `Folders` | the tree of folders: requests, the workers' steps behind them, saves of new files, syncs |
| `MCFolders` | the vaults that a mount finds |
| `FoldersProofs` | types, names, places, what a sync reports, the folders of unsaved files |

`VaultIndex` is the index, one operator for one method: `PlaceName` gives an entry its
name or, where a sibling has it, a numbered alias; `Compact` hands a name that became
free to a sibling; `Resolve`, `Attach` and `Detach` find the folder of an entry, by the
folder's node reference, by what it was made from, or by its id; `Reattach` does so
again for the entries whose folder came or went; `TouchedBetween` compares two
snapshots for the names that a sync reports, for the kernel to forget. `place_name` calls itself for the
alias that it puts out of the way; here these calls are turns (`PlaceTurn`), at most one
more than there are aliases. Loops over entries are folds (`InOrder`), in the code's order.

`Folders` runs them. A request is checked by the session thread (`Create`, `Mkdir`,
`Unlink`, `UnlinkPending`, `Rmdir`, `Rename`) and done by a worker, a step for each time
the index is locked or the server called:

    mkdir            upload -> ingest
    save of a file   upload -> ingest -> repoint
    unlink, rmdir    delete
    rename           upload -> ingest -> list -> kids (each moved in the same way) -> replace

A moved folder is a new record with the same node reference, so entries of the new
format follow it; those of the old format name the folder by its id and are moved one
by one (`ListKids`, `MoveKid`; `stack` holds the moves that are under way). Uploads may
fail, and deletes that are waited for; a delete and what it does to the index are one
step (`VaultSync` has them apart). A sync takes all of what the server has, or a part of it, in one step (`Sync`,
`SyncSome`; its steps are in `VaultSync`); `Elsewhere` is another client that creates,
renames and upgrades. A name is a sequence of numbers that an alias or a conflicted
copy makes longer, and `LongNames` are those that are cut when a number is added.
External: the kernel's locks of folders, which hold off other requests and no save or
sync. Left out: writes to open files (`WriteSession`), the texts of names
(characters that are not allowed, lengths in bytes), and the kernel's cache of names. A
sync reports what changed (`SyncReportsChanges`); an unlink, rmdir or rename reports nothing, and a
save at most two names (fuse_fs.rs:909), so a sibling whose alias such a job changes stays
in the kernel under its old name until the entry times out (`TTL`, 5 s). No property speaks of that.

### Reads

| Module | What it is |
|---|---|
| `Reads` | from the kernel's `read` to the caches, downloads and chunks, on limited threads and permits |
| `MCReads` | what is open in the mount, and the limits |
| `ReadsProofs` | types, one loader for each claim, permits and slots, ready chunks, the caches |

A read is answered from what the handle has pinned, from a cache, on the pool for
loaded data (`ioq`), or on a burst thread with a permit for the network. `req[r].pc`
follows `read_large`, `cached_small`, `single_flight` (`look`, `claim`, `again`, `work`,
`unclaim`), `load_large` and `download_arc`, then the chunks of a `LargeFile`: `ensure`,
a slot, `fetch`, `loaded`; `ahead` are the threads that read on. The caches
are modelled with their order, stamps and totals (`ContentCache`, `LargeCache`), so
that eviction can meet every step. A rename takes them over (`Rekey`, `Repoint`) and
removes the old record (`ForgetOld`, `DeleteOld`). Bytes are represented by the file
they come from. `Worlds` holds the vault and the limits: threads, permits, reads and faults (a download or the
start of a thread that fails). Left out: the reads of a file that is being written
(`WriteSession` and `Scratch`), the decryption of a chunk (its failure is a failed
download), waiting times.

### Uploads

| Module | What it is |
|---|---|
| `Uploads` | `api.rs`: uploads that are tried again, against `main.py`: quota, blobs, sessions |
| `MCUploads` | two uploads and one other request |
| `UploadsProofs` | the disk matches the tables; the quota is kept; an upload lands once |

Each upload has a client (`client`), which sends, waits, and sends again; and requests
under way on the server (`reqs`), which go on when the client has given them up. `Look` is
`find_landed_upload`. On the server the rows, the blobs on disk, the upload sessions with
their directories and the reservations in memory are variables of their own, and a
request is divided where it awaits, or where its thread works on another of them without the
vault's lock: reserve, write, commit, read back (`Refresh`), release; begin and end of a part; check, assemble and
commit and reading back of a completion; row and blob of a delete; the four parts of a wipe; check and move of a rotation.
`LoseAnswer` and `LosePart` lose an answer after or before the server acted. `Expire` is the end
of a session's time, and counts as a fault. Left out: the fallback to one request where
the server has no uploads in parts, a blob that is half written, listings of several
pages, wipe and rotation in one world. The two listings of a wipe are joined, and a
rotation takes one lock where the code takes two in order.

### Vault sync and heal

| Module | What it is |
|---|---|
| `Heal` | the rules of `heal.rs` as operators: copies, older renames, saves over a version, chains of saves; `Plan` is `plan()` |
| `HealPasses` | several clients that clean one vault, each with a plan made from what it happened to see; reading a successor back (`ReadBack`) and deleting a leftover (`CleanOne`) are two calls, with others' between them |
| `MCHealPasses` | the vaults: all histories of 4 records, and odd sets of 3 items |
| `HealProofs` | heirs stay, successors lead out of a plan, one pass is enough |
| `VaultSync` | `vault.rs`: index, journal, hidden records, delete queue, leftovers, against a server that others change |
| `MCVaultSync` | the vaults that a mount finds |
| `VaultSyncProofs` | types; what is replaced is deleted |

The threads of a mount, as `fuse_fs.rs` starts them:

- the sync thread: `run_once` lists the server page by page (`StartSync`,
  `AnswerPage`, `ReadPage`, `MorePages`, `FailPage`), lists it again where the index has
  records that the first listing has not (`CompareIndex`, `ConfirmGone`), changes
  the index (`Classify`, `WriteIndex`) and then cleans (healer `"round"`);
- the thread of `background`, which cleans once when the vault is mounted (healer
  `"mount"`), while syncs that a lookup asks for may already run;
- the delete thread (`NextDelete`, `CallDelete`, `TouchDeleted`, `Unhide`);
- jobs that save, rename, create and delete:

      upload -> touch -> insert -> get -> hide -> drop -> forget     (save, rename)
      upload -> touch -> insert -> get                               (create)
      delete -> drop -> forget                                       (delete)

No lock is held over a call to the server, and the index, the journal, the heal
state and the queue have a lock each; a step is what happens under one of them,
and a call is a step of its own. Locks that are taken one after the other with no call
in between are joined where the second does not depend on what another thread could
do between the two (`Classify`, `KeepAfterAll`, `ForgetOld` with the queue).
The order of journal and index is kept, since everything depends on it:
`ingest_record` tells the journal first, `forget_local` the index first.

A record never changes once it is stored. A file has a name and a content from small
sets; `"damaged"` is content that does not decrypt. The journal is kept as a set:
the code asks of an entry only whether it is younger than the start of the running
sync. `Init` is the state after `refresh_all`. A faulty call costs one of
`MaxFaults`, and a delete that fails may have happened on the server. Left out here: folders and records of the old format (`Folders`), content caches
(`Reads`); and everywhere: quarantine, `close` and `rotate_password`, and what
`Syncer::apply` makes of the report.

## The runs

| Run | Instance | Shows |
|---|---|---|
| `scratch_data` | 1 buffer, 2 blocks of 2 bytes, 2 values, 1 block cached, 3 changes, a spill file that fails once | the buffer is an array of bytes (`FileSpec`), with failures and without; zero past the end, clean means uploaded |
| `scratch_pool` | 2 buffers, 3 blocks, budget 2, cache 2, failing spill file | books of cache and pool; every operation ends |
| `session_saves` | 2 names, 1 created file, 3 records, 2 workers; truncates, another client, failures | a save replaces only the version it was made from; names that exist only here have a buffer |
| `session_handles` | 1 name, 2 handles, 2 buffers, 3 records, 2 workers | handle counts, nothing unsaved is dropped, every request is answered |
| `heal_passes` | histories of 4 records in any order of identifiers, 3 items of every sort; any views, successors read back at any time before | of every version a copy, rename or later version stays, where saves go in no circle; plans lead to what stays; one pass is enough |
| `sync_saves` | 1 file, 3 records, 2 jobs, 1 delete elsewhere, 1 fault, listing of one page | what this mount replaced never comes back; a deferred delete happens |
| `sync_pages` | 5 vaults with copies or leftovers, 3 records, pages of 1 record, 1 change elsewhere, 1 fault | only what is gone leaves the index; cleaning keeps a readable version; the index settles |
| `folders` | 4 vaults of up to 4 records (new format, old format, copies of a name, long names), 2 workers, 1 unsaved file, another client, 1 fault | names lead where they should, entries are where the folder they name is, nothing of this client is stranded, a sync reports every name that it makes lead elsewhere |
| `reads` | 4 mounts: small files that do not fit the cache together, with a rename and with faults; a large file opened twice; two large ones and a rename. 2 handles, 2 or 3 reads | one loader of each file and chunk, permits and claims come back, the caches' books, every read ends |
| `uploads` | uploads of sizes 1 and 2 in one request or in parts, quota 2 or 3, against nothing, a delete, a wipe or a rotation; 1 or 2 faults | what is stored twice, left behind or above the quota is only what the code could not know |
| `folders_rename` | the new-format vault, no faults | a disagreement with the repository, see below |
| `reads_renamed` | a file of two chunks, opened twice and renamed | a disagreement with the repository, see below |

The bounds are small but not so small that the case is missed: with one block in
RAM and two in the file every access evicts; a third change lets a write land
while an upload of the first runs and a save of the second follows; the budget
of two blocks for two buffers with limits of two can be held by one of them, and
the other then works without a reservation; two workers let a rename, an unlink, an open or a
second save run inside the steps of a save; three records are a file, the save
that replaces it and the rename or save after that. Four records in `folders` are a
folder with an entry and the copies that one move makes of both, or two pairs of
names that are cut to one alias. One I/O thread, one chunk slot and one or two
permits and burst threads for two readers make every reader wait for the other
somewhere; a cache of the size of one file evicts at every insert. Two tries of a
call, two parts at a time and two sessions are the least with which a try can
overlap the next, and a session the limit. Workers are interchangeable
(symmetry) in the session and folder runs that check no liveness. Deadlock is not checked where
the kernel or the clients may stop asking and the bounds are used up: the runs of
sessions, syncs, folders, reads and uploads.

**Fairness.** `OperationsEnd` assumes that a thread inside a buffer operation
runs on (weak fairness of each buffer's steps); `RequestsEnd` that each worker
runs its job on. Both are what an operating system's scheduler gives; nothing is
assumed of the kernel's requests, of other clients or of the network. In
`session_handles` requests to the server do not fail for good: with failures a
program that flushes for ever could keep another save waiting for `commit_lock`,
which is no promise of a mutex, but also not a case worth excluding by a
stronger assumption. `IndexSettles` assumes that the sync thread (with its
cleaning), the mount's cleaning thread, the delete thread and the jobs run on;
a periodic sync is started again and again, so `StartSync` is part of it. Faults
and other clients' changes are bounded and nobody has to make one: the property
says what holds once they stop. `EveryReadEnds` assumes that each reader's thread, the
threads that read on and the renaming job run on, and that a call to the server ends,
well or not (the client has timeouts). `folders` and `uploads` check safety only.

**Bounds of the sync runs.** With pages of one record a listing of two records takes
two or three calls, and a record that another client adds or a delete shifts the
rest by one page, which is how a page-wise listing misses a record or shows it
twice; the second listing has to repair the first. `OnlyGoneLeaves` is true with at most one such
shift in each sync: if two happen, one in each of the two
listings, a file can leave the index although it is stored, until the next sync.
Deletes by this mount's cleaning shift too, but come after the listing of the
same thread. `sync_saves` lists in one page and has the interleavings of jobs, delete thread and
sync instead: two jobs one after the other on three records let a record be
saved, replaced, renamed or deleted while a listing from before is being applied.
`EveryVersionHasAnHeir` is about vaults in which no chain of saves goes in a circle
(`NoCircle`). A save makes a new reference, so no history leads to one; records in a
circle, each seen by another client without the next, could be removed by three clients
that all read back before any deletes. `SuccessorsEnd` and `OnePassSettles` have circles too.
In `sync_pages` other clients do not delete: one that deletes the successor
between the moment a client has read it back and the client's own delete
takes the last version together with it, and no client can see that.
Between `DropOld` and `ForgetOld` of a deleting job the record may be shown again if a
listing from before the delete is applied just then, and leaves with the
next sync; `retired` counts it from `ForgetOld` on.

**Mutants.** Definitions whose comment begins with "Mutant:" are plausible mistakes (a handle counted
late, a lock kept, a generation taken at the end of the upload). They are used by
no specification. Each property of a passing run has one; with it in place of
the definition that follows it, TLC finds the property violated.

## What the violations show

- `folders_rename` (`UnsavedHasFolder`). A folder is renamed while a new file in it is
  open and not saved. The rename stores a copy of the folder under a new id and
  deletes the old record; the file's target and its key in `pending_by_key` keep the
  old id. Every save of it then fails in `parent_ref`, and its content is lost with the
  buffer. In `folders` such folders are not moved (`MoveBusy = FALSE`; nor is a folder of the
  old format moved along with its own while a new file is in it), and a sync does not
  take them away; the property holds there against everything else.
- `reads_renamed` (`FailsForAReason`). A large file is renamed while it is open. Its
  `LargeFile` is handed to the new id and goes on asking the server for the old
  record, which the rename deletes: chunks that were not loaded before cannot be
  read until the object is evicted.

### What the models show beside the runs

Six more disagreements came up while modelling. No run repeats them, but the
properties and the constants that show them are here.

- A truncate of a path is answered from the buffer of the open file. If the release of
  the last handle is saving at that moment, the save uploads the content from before,
  and the buffer, dirty again, is dropped: the truncate was acknowledged and is lost.
  `WriteSession`, `NothingUnsavedIsDropped`, with `PathTruncate = TRUE`, `NNames = 1`,
  `MaxId = 2`, `MaxCreate = MaxFile = MaxFh = 1`, `MaxVer = 3`, two workers, `Elsewhere` and
  `UploadFaults` FALSE. `session_handles` checks the property without such truncates.
- Removing a file whose first save is on its way is acknowledged; the save has read its
  target before, creates the record, and the file is back. `WriteSession`,
  `RemovedIsGone`, the same constants with `MaxVer = 2` and `PathTruncate = FALSE`.
- A lookup between the ingest of a saved record and the repoint of its inode gives the
  record a second inode; the repoint then changes the inode number of the id. The two
  inodes may also get two buffers for one file. `WriteSession`, `StableInodes`, with
  `MaxId = MaxVer = 3`.
- A file was uploaded twice, so its copy is hidden from the index and waits to be
  cleaned. Before the cleaning reaches it, a save replaces the file. The copy's
  successor is then not in the index, and `keep_after_all` puts the copy, with the
  content from before the save, back beside the saved file, where it stays for the
  session. `VaultSync`, `OldCopyNeverReappears`, with `Worlds` the copies of
  `MCVaultSync!TwoCopies`, `Ids = 1 .. 3`, one job of kind "save", `Healers = {"mount"}`,
  nobody elsewhere, a page of 4, no faults.
- An upload's row is committed and then read back, in one `try` whose handler deletes the blob
  (main.py:316, 573). If only the reading back fails, the row stays without its blob and the
  request is answered with a failure; if that answer is lost as well, the client finds the row
  (`find_landed_upload`) and takes the upload for done. `Uploads` has this (`ReadBackFails`): `torn` notes
  such rows, and without it in `BlobsHaveRows` the run `uploads` shows the case. `LandsOnce` speaks
  of rows and holds.
- A folder *b* holds a file of the old format and a folder *c*. A rename of *b* to *a* stores
  the copy and fails to move the file, so both stay, with one node reference. *a* is moved into
  *c*, which is not below *a*'s id, so that "can't move a folder into itself" (vault.rs:2331)
  does not refuse it. *b* is renamed to *a* again, which succeeds. *c* names its folder by the
  reference and is placed in the copy with the smallest id: the one in *c*. The two are in
  each other, and no path leads to them. `Folders`, `EverythingReachable`, with `Worlds` the
  `NestedOnly` of `MCFolders`, `Names` its `OneName`, `LongNames` its `LongOnes`, `MaxId = 7`,
  `MaxPending = 0`, `MaxFaults = 1`, one worker, `Kinds = {"rename"}`, `Elsewhere = {}`,
  `MoveBusy = FALSE`. With the 4 records of `folders` it cannot come to an end, and the property holds.

## The proofs

TLC's instances have two or three of everything; these hold for every value of
the constants. They assume only the named assumptions of the modules
(`FileAssumption`, `PoolAssumption`, `SessionAssumption`, `UploadsAssumption`,
`ReadsAssumption`, `SyncAssumption`, `WorldsAssumption`, `VaultsAssumption`,
`FoldersAssumption`): sizes and limits are natural
numbers, the sets of buffers, workers, requests and identifiers are finite, a record that a
rename makes has the kind and the size of the one it was made from, and the server
that a mount finds has a record once, under its identifier; records to be cleaned that have
one fingerprint are equal; in `Folders` the records found
are numbered from 1 on, names are sequences of integers, and nothing is assumed of which
names are too long (`LongNames`).

| Theorem | States |
|---|---|
| `ScratchProofs!TypeCorrect` | `Spec => []TypeOK` |
| `ScratchProofs!OrderCorrect` | `Spec => []OrderIsCache` |
| `ScratchProofs!PoolCorrect` | `Spec => []PoolBounds` |
| `ScratchProofs!PoolIsExact` | `Spec => []PoolAccounting` |
| `ScratchProofs!ReservationsInUse` | `Spec => []NoIdleReservation` |
| `ScratchProofs!HolesAreZero` | `Spec => []ZeroPastEnd` |
| `ScratchProofs!CleanIsSafe` | `Spec => []CleanIsUploaded` |
| `ScratchProofs!ScratchImplementsFile` | `Spec => FileSpec` |
| `WriteSessionProofs!SessionTypes` | `Spec => []TypeOK` |
| `WriteSessionProofs!SessionCounts` | `Spec => []HandlesCounted` |
| `WriteSessionProofs!SessionBase` | `Spec => []TargetIsBase` |
| `WriteSessionProofs!NothingIsLost` | `~PathTruncate` implies `Spec => []NothingUnsavedIsDropped` |
| `WriteSessionProofs!PendingHasBuffer` | `Spec => []PendingIsBuffered` |
| `UploadsProofs!DiskMatchesTables` | `Spec => []BlobsHaveRows` |
| `UploadsProofs!QuotaIsKept` | `Spec => []QuotaHolds` |
| `UploadsProofs!UploadsLandOnce` | `Spec => []LandsOnce` |
| `ReadsProofs!ReadsAreTyped` | `Spec => []TypeOK` |
| `ReadsProofs!ClaimsHaveOneLoader` | `Spec => []OneLoader` |
| `ReadsProofs!PoolsAreGivenBack` | `Spec => []NothingLeaks` |
| `ReadsProofs!ReadsGiveTheirFile` | `Spec => []ReadyIsThere` |
| `ReadsProofs!CachesStayRight` | `Spec => []CachesAreRight` |
| `VaultSyncProofs!SyncTypes` | `Spec => []TypeOK` |
| `VaultSyncProofs!ReplacedAreDeleted` | `Spec => []ReplacedIsDeleted` |
| `HealProofs!VersionsHaveHeirs` | `Spec => []EveryVersionHasAnHeir` |
| `HealProofs!PlansLeadOut` | `Spec => []SuccessorsEnd` |
| `HealProofs!PassesSettle` | `Spec => []OnePassSettles` |
| `FoldersProofs!FoldersTypes` | `Spec => []TypeOK` |
| `FoldersProofs!NamesAreUnique` | `Spec => []ShownIsFound` |
| `FoldersProofs!SavedNamesAreHeld` | `Spec => []BaseIsHeld` |
| `FoldersProofs!PlacesAreResolved` | `Spec => []PlacedIsResolved` |
| `FoldersProofs!SyncReportsAll` | `Spec => SyncReportsChanges` |
| `FoldersProofs!UnsavedKeepFolders` | `~MoveBusy` implies `Spec => []UnsavedHasFolder` |

*Sums.* `PoolAccounting` and `QuotaHolds` are about sums over sets that a step changes
in one place. The library's theorems on induction and on folds have an operator as
parameter, which the provers cannot instantiate; `FoldLemmas` proves what is needed of
them with sets in the place of operators: a set of numbers with zero and every
successor has all numbers (`EveryNat`), a set of subsets of S with the empty set and
closed under adding an element has S (`FiniteInduction`), a fold over a finite set exists
(`FoldExists`). From these: a sum does not depend on the order (`SumOrder`), what it is
with an element more, less or changed (`SumPut`, `SumTake`, `SumUpdate`), over a union
(`SumUnion`), over other names of the same things (`SumNamed`).

*Buffers.* The types are inductive. The LRU list needs the types only. Idle reservations need the types and that the list is the cache. The bound of
the pool is not inductive by itself: a buffer may hold one block more than it
reserved, and an eviction gives a reservation back only if the buffer has one to
spare; the strengthening relates `used` to what each buffer reserved. That it is
their sum, too, follows step by step: each takes from `used`, or gives it, what it
takes from, or gives, one buffer (`PoolSteps`). The
refinement maps a block to what `read_at` finds in it; an eviction must then be a
stutter. That needs that the evicted block is written, which `evict_lru` does for
dirty blocks only: the lemma `DirtyNext` shows that every block in RAM is dirty
(`CachedIsDirty`: reads load none, `cached_block_mut` is called for a change).
What a buffer holds is then proved of the array, with the steps of the refinement:
the cache plays no part any more. `ZeroPastEnd` and `CleanIsUploaded` speak of idle buffers;
`Content` says what holds while an operation runs: where the end is at the moment
(`Beyond`), that an upload which no change has overtaken has sent what the buffer
holds so far (`Reading`), and that an acknowledged change makes a number no
upload has (`Counts`), so that nothing needs to be said of an upload while an operation runs.

*Open files and saves.* `TypeOK`, `HandlesCounted` and `TargetIsBase` are parts of one
inductive invariant, `IInv`. None of the three is inductive alone. A save's result is applied to the target that it read before its
upload, so `TargetIsBase` needs to know that the record the job made (`new`) has the
version the job read (`SaveJob`), that a renamed record has the version of the one it
came from (`RenameJob`), and that records which are referred to were made, so that a
new one cannot change them (`Known`). The handle count needs that the handle a job
works on is not closed under it: a flush has an open handle, a release has one that
the kernel gave up, and no two releases have the same (`OneRelease`). `Room` is about
the bounds only: what the jobs may still make is left. `IInv` is proved one part at a
time, with one step for each action that changes what the part speaks of, and a frame
step for the others.

That nothing unsaved is dropped has an invariant of its own beside `IInv`, about who
sees to a buffer that differs from what was saved: some handle that has not
come to its `close` yet (`DirtyIsKept`). A save that is under way does so only for the content it
has read. If the buffer has changed since, another handle must be there, because a
change needs an open one, which the release's own is not any more (`Holds`). Two more parts
are needed: inodes do not share buffers (`Owned`), so that a handle of another
file does not count, and an inode that `create` has not given out has no buffer
(`UnusedIsNowhere`). The theorem assumes that files are truncated through a handle
(`Cutting`): for a truncate of a path it does not hold (What the models show beside the runs).

`PendingIsBuffered` says nothing of the moment between a save's `settle` and its `repoint`,
when the file is saved and the name still counts as unsaved: then the buffer is clean, and
a release of another handle closes it at once. The invariant (`PendingInv`) therefore has two
cases for the buffer behind such a name. Either it was never saved (`Unsaved`): then it is
dirty and none of its handles is at its `close`, so whoever releases one goes through a save
first. Or a save is about to repoint its inode (`Repointing`), and that save has a handle
which it has not closed (`Placed`: a save that has begun works on the buffer of its handle's
inode). What renames, unlinks and truncates of records do to inodes and targets does not
reach it, because no record is known by an inode that is not saved yet (`Linked`) and
inodes do not share buffers (`Owned`). A new file's buffer was not saved before it was made
(`Blank`), and its inode is one that nothing refers to (`UnusedIsNowhere`). This theorem needs
no assumption on truncates.

*Uploads.* `BlobsHaveRows` is an equation between the disk and the tables, and a step
changes one of them at a time, so the invariant says who answers for the difference.
A request that is to store a row has its id to itself (`Fresh`: no row has it, and the
other request has not noted it), its blob is there and the session's file is not in its
directory any more (`Moved`); a row that could not be read back is in `torn` from then on; a session has the id of a request that is over (`Over`), so a new
session is none that a completion or an abort is about. What a delete or a wipe
is going to remove is not in the rows once these are cleared (`Noted`), which for
a wipe needs that it clears every row or has none to remove, and for a delete that
no two rows have one id (`Tables`). `Changes` says what a step of one
request does to the requests; with it, each server step leaves `Moved` and
`BlobsHaveRows` to be shown (`ServerInv`), and steps that leave the disk alone nothing
(`QuietStep`).

`QuotaHolds` sums over rows and sessions, which a rotation rewrites all at once; the
proof counts ids instead (`Named`: an id names its upload, and so its size). Between
the check of an upload and its row stand a step that reads the rows and one that reads
what is reserved, with other requests' rows and releases in between. `Counted`
keeps what the first has read, `Reserved` that the reservation is exactly what requests
have booked and not given back, and that whoever has stored a file has booked its
size. Bytes are on three lists while they go from a session or a reservation
to a row; `OldQuota` counts each once: rows that are still booked are left out
(`Ending`), a session whose file is becoming a row stays in (`Leaving`). That the
sum keeps when a check passes needs that nobody else is between his two
reads (`Locked`); what was stored and released between them is the `slip` of the property.

`LandsOnce` follows from `LInv`. Rows cannot be counted alone, as a request that the client
has given up on may still get its row: `Files` are the rows of an upload with the requests that
may become one. For an upload in one request, `Once` counts these and the attempt that the
client is about to make: sending moves it from one summand to the other, and a look at the
listing allows another only when there is no file, or counts it in `unsure`. An upload in parts
has no such doubt. Its session's directory is renamed once and never comes
back (`client[u].sess \notin DOMAIN dirs`), and all the requests that would end the session
name that one (`Answers`). What a client takes for done was stored (`Kept`), since the answer
"ok" is given only after a commit. `Placed` is about the rotation: a row that it does not find
under the lock is of a request that was there at the check or was sent since, and once
the token is bound to the new vault, none for the old one is let in.

*Reads.* The five are parts of one inductive invariant, `RInv`. Each of its parts is there for
a step that could break another:

- `Flights`, `Loaders`: an id in `loading`, and a chunk in state "loading", belong to
  one request or read-ahead thread, and to one only. A chunk's loader is found by
  object and index, so no two objects may be confused: `Pinned`, `Requests` and
  `Cachings` say of each reference (of a handle, a request, a cache) that its object is
  there and is of the file that is meant. `rekey` moves them to another id, which has
  the same content (`Renaming`).
- `Requests` also says how far a read is (`Progress`): the chunks behind it are ready. They stay so
  since a chunk leaves "ready" for nothing, and a load that fails resets
  only what it has claimed (`Claimed`). With `Shaped`, ready chunks are in memory.
- `Queues`, `Counts`: a queue has requests that wait for it, each once; the counters
  are what is left by those that hold a permit, a slot or a thread. That they do
  not go below zero (`Spare`) does not follow from the sums, and is shown for the
  steps that take one.
- `Cachings`: an id is in the cache exactly if its live key is in the order, once
  (`Booked`). Eviction pops keys off the front, insert and `rekey` filter the order; what
  these loops leave is shown for every length (`LoopExists` and `LoopSame` of `FoldLemmas` give
  the loop's states, with an invariant in the place of the induction). The total
  is only bounded from below (`Bulk`): `rekey` onto an id that is cached counts
  it twice. From below is what the subtractions need, and the limit follows, because
  eviction runs until the total is within it.

*Sync and deletes.* In `VaultSync` threads remember records over calls: a page, a plan, a
line of copies, a queue. `TypeInv` says of each that it has only records that were
stored (`Recs`, the domain of `rec`). `rec` grows and the memories do not change with
it, so every type is shown for one more record, too (`TypesGrow`), and then one lemma
for each action. Two of them take work. `Plan` must give each leftover a successor out
of the items it was given: the successor is found by a walk along the saves, whose
length is that of the chain, so that the walk is a loop (`WalkIs`, `LastSaveType`). And a record
is on the server once: uploads put a new identifier before the others, and a delete
removes one place of a list without doubles (`RemoveType`).

`ReplacedIsDeleted` follows from `DeletesOK`. `OnItsWay` names who will delete a record
that is hidden and still stored: the queue, the worker, or a job that has hidden it and
has not queued it yet. That the worker gives an entry up only after failed
calls is `Tried`: no entry has been tried more often than calls have failed at all. The steps
between the worker's call and its unhiding need that the record does not come back meanwhile
(`Deleted`): whoever uploads takes an identifier that nobody had.

*Heal.* Nothing here is by induction over the items; three facts about walks on a finite
set take its place (`FoldLemmas`). A set that grows by what it has is complete after as many turns
as there are items (`Saturates`); a walk along the saves stays in every set that no
save leads out of (`WalkIs`, `WalkKeeps`); a chain that goes down a rank with each step has
ended by then (`ChainEnds`). From the first, an heir of an heir is an heir
(`HeirsAreAll`). `EveryVersionHasAnHeir` itself is not inductive: a client that has read the
successor back deletes the leftover, although others may have deleted the successor since. What
helps is that of each record there is one heir that nobody plans to remove, whatever part of
the vault he has seen (`HeirStays`): of the objects that came from it one was not saved over by
another of them (`NoCircle`), and of this one's records with the greatest number, the
one with the smallest identifier of its print gives way to nobody. `HealInv` says that such
records (`Unplanned`) are all still there. Copies give way
to records that are no copies, older versions to one that is neither, and the last save of a
chain is in no rule: `Rank` goes down along a plan, so the successors end outside
(`PlanDescends`), cycles of references or not. A second pass finds nothing: what the first
rule kept is still the least of its print; the rule for versions counted the newest, and either
all of them or all but one stay, because versions of one file have the same saves
(`SameEnd`, `NoneToRemove`); and a file that still has a save after the pass had one that
leads to a cycle, every item of which stayed (`EndlessGoesOn`, the first fact again: the files whose
chain ends are all found).

*Folders and names.* Most of this is about an index as a value. While it is being changed
it is not whole: between the steps of `detach`, `compact` and `place_name` entries are
placed and have no name yet, and a saved name may have nobody. `IndexOK(ix, W, B)` says that
it is whole but for the entries W and the names B; what each operator does to W and B is a
lemma, so that `insert` and `remove` take a whole index to a whole one. `PlaceName` is a sequence
of turns, each of which has one entry without a name and one alias fewer, so the last one ends
it. A number that is free exists because there are more numbers than names taken; that two
numbered names differ needs no knowledge of which are cut. The folds over entries are by
induction on the set that is folded over (`FiniteInduction`); for `Compact` the names in B are those
of the members that are not placed again yet. `detach` may skip its work if the
folder has no aliases: since all siblings then have their own names, nobody waits for the
name that is left, and this is what the count in `ShownIsFound` is for.

`PlacedIsResolved` does not follow from the names: after an entry came or went, exactly those that
name a folder by one of its references may be placed wrongly (`Dependents`), and placing
one of them again changes no other's place, as `resolve` looks at entries and not at places.
Over these, `FoldersInv` has the index, the records and what jobs hold: an entry in the index is
as its record was made, which never changes. `SyncReportsAll` is about steps that change the index alone, which only syncs do: a name
that leads elsewhere is in one of the two snapshots and not in the other, as names are unique
before and after. `UnsavedHasFolder` is not inductive:
a folder is seen to be empty of new files on the session thread and removed by a worker later.
`JobGuards` says that in between it stays so, since the job holds the kernel's lock of what it removes
(the lock goes by the node reference), and `create` in that folder needs it.

Only model-checked: liveness (`OperationsEnd`, `RequestsEnd`, `IndexSettles`,
`EveryReadEnds`), which is beyond the prover; of `VaultSync`, `OldCopyNeverReappears` and
`OnlyGoneLeaves`, which do not hold for every number of jobs and of other clients' steps
(What the models show beside the runs; Bounds of the sync runs), and
`CleaningKeepsAVersion`; of `Folders`, `EverythingReachable`, which holds within the bounds
of `folders` and not of every vault (What the models show beside the runs).

## Plan

In the order of what would hurt most if it were wrong.

Done: write buffers; open files and saves; vault sync and heal; folders and names;
reads and caches; uploads and the server's side of them.

Left:

1. *Composition*: `Syncer::apply` against `commit_write_file`, with `forget` and the
   lookup counts, over `WriteSession` and `VaultSync`.
2. *Vault*: quarantine, and `rotate_password` during a sync.
3. *Server*: share links (claims and limits), downloads during a delete.

## Not modelled

- The encryption formats: no state, nothing interleaves; they have interoperability
  tests. What they mean to the rest (content that does not decrypt, chunks that cannot be
  read) is a value of the models.
- The upgrade, clean-up and duress commands and the command line run alone on
  a vault; what an upgrade does to a vault that is mounted elsewhere is `UpgradeElsewhere`
  in `Folders`, and the wipe that a duress token sets off is in `Uploads`.
- Access tokens beyond the binding to a vault, share links, duress slots: forms over a
  database with one statement for each request, share links apart (see the plan).
- The admin panel, the schemas, the user interface of the web client.
- `readdir`, `statfs`, attributes and times: read from the index under its lock, and
  nothing is decided by them.
