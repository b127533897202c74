---------------------------- MODULE WriteSession ----------------------------
(***************************************************************************)
(* How the FUSE client keeps files that are open for writing               *)
(* (lethean_fuse/src/fuse_fs.rs): inodes, names, handles, one write buffer *)
(* per inode that all its handles share, and the requests that run on      *)
(* worker threads and save, load, delete and rename records.               *)
(*                                                                         *)
(* The session thread answers the kernel's requests one at a time; what    *)
(* needs the network goes to a worker as a job.  The state mutex, the      *)
(* mutexes of a buffer and the lock of the vault's index are taken and     *)
(* released between the steps of a job, never held over an upload.         *)
(*                                                                         *)
(* One directory.  Content is a version number: every acknowledged change  *)
(* to a buffer or a record makes a new one (Scratch.tla has the bytes).    *)
(* 0 stands for "none" throughout.                                         *)
(***************************************************************************)
EXTENDS Integers, FiniteSets, FiniteSetsExt

CONSTANTS
  NNames,        \* names of files; name n + k * NNames is n's k-th conflicted copy
  MaxId,         \* bound: records ever made
  MaxCreate,     \* bound: files ever created, each with an inode of its own
  MaxFile,       \* bound: write buffers ever made
  MaxFh,         \* bound: handles ever opened
  MaxVer,        \* bound: changes
  Workers,       \* NET_WORKERS, the threads that run jobs
  PathTruncate,  \* TRUE: truncate(2) on a path, with no handle of the caller's
  Elsewhere,     \* TRUE: another client adds and removes records meanwhile
  UploadFaults   \* TRUE: requests to the server may fail for good

ASSUME SessionAssumption ==
  /\ NNames \in Nat \ {0}
  /\ {MaxId, MaxCreate, MaxFile, MaxFh, MaxVer} \subseteq Nat
  /\ {PathTruncate, Elsewhere, UploadFaults} \subseteq BOOLEAN
  /\ IsFiniteSet(Workers) /\ 0 \notin Workers

Names    == 1 .. NNames
Ids      == 1 .. MaxId
Inos     == 1 .. MaxCreate + MaxId
Files    == 1 .. MaxFile
Fhs      == 1 .. MaxFh

VARIABLES
  index,      \* the records the vault's index shows
  rec,        \* rec[id]: the name and the version of a record, fixed when it is made
  node,       \* node_of_ino
  inoOf,      \* ino_of_id
  pending,    \* pending_by_key: created here and not saved yet
  writer,     \* writers: the buffer of an inode and how many handles share it
  handle,     \* handles: the inode a write handle is for
  target,     \* WriteFile.target: what a save of the buffer replaces
  gen,        \* the version in the buffer
  committed,  \* the version that mark_committed was last told
  lock,       \* WriteFile.commit_lock: the worker that holds it
  job,        \* what each worker does
  arc,        \* the buffer that setattr, on the session thread, is about to cut
  dentry,     \* the kernel: the inode it holds for a name
  open,       \* the kernel: handles it has not released
  flushed,    \* the kernel: handles it has flushed since it last wrote with them
  absent,     \* the kernel: names whose removal was acknowledged
  made        \* how many of the bounded things were made

vault   == <<index, rec>>
inodes  == <<node, inoOf, pending>>
buffers == <<target, gen, committed>>
kernel  == <<dentry, open, flushed, absent>>
vars    == <<vault, inodes, writer, handle, buffers, lock, job, arc, kernel, made>>

NoNode       == [kind |-> "none", id |-> 0, name |-> 0]
Remote(id)   == [kind |-> "remote", id |-> id, name |-> 0]
Pending(n)   == [kind |-> "pending", id |-> 0, name |-> n]
NoWriter     == [file |-> 0, handles |-> 0]
Discarded    == [kind |-> "discarded", id |-> 0, name |-> 0]
NewFile(n)   == [kind |-> "new", id |-> 0, name |-> n]
Existing(id) == [kind |-> "existing", id |-> id, name |-> rec[id].name]
NoJob        == [kind |-> "none", pc |-> "none", ino |-> 0, fh |-> 0, file |-> 0,
                 id |-> 0, new |-> 0, name |-> 0, ver |-> 0, victim |-> 0]

Init ==
  /\ index     = {}
  /\ rec       = [id \in Ids |-> [name |-> 0, ver |-> 0]]
  /\ node      = [i \in Inos |-> NoNode]
  /\ inoOf     = [id \in Ids |-> 0]
  /\ pending   = [n \in Names |-> 0]
  /\ writer    = [i \in Inos |-> NoWriter]
  /\ handle    = [fh \in Fhs |-> 0]
  /\ target    = [f \in Files |-> Discarded]
  /\ gen       = [f \in Files |-> 0]
  /\ committed = [f \in Files |-> 0]
  /\ lock      = [f \in Files |-> 0]
  /\ job       = [w \in Workers |-> NoJob]
  /\ arc       = 0
  /\ dentry    = [n \in Names |-> 0]
  /\ open      = {}
  /\ flushed   = {}
  /\ absent    = {}
  /\ made      = [id |-> 0, ino |-> 0, file |-> 0, fh |-> 0, ver |-> 0]
-----------------------------------------------------------------------------
\* find_child: of two records with one name the older one is shown under it
\* (place_name); the records are numbered as they are made.
Holder(n) == LET held == {id \in index : rec[id].name = n}
             IN  IF held = {} THEN 0 ELSE Min(held)

\* free_name: the name, or the first conflicted copy of it that is free.
Copies(n)   == {n + k * NNames : k \in 0 .. MaxId}
FreeName(n) == Min({m \in Copies(n) : Holder(m) = 0})

NeverSaved(f) == committed[f] = 0                                       \* mutant
Dirty(f)      == gen[f] # committed[f]

\* ino_for_remote: an inode that is a hash of the id, unless it has one.
HashedIno(id)    == MaxCreate + id
InoForRemote(id) == IF inoOf[id] # 0 THEN inoOf[id] ELSE HashedIno(id)

\* The kernel holds the directory's lock over a create, an unlink and a rename,
\* and a file's lock over a write, a truncate and an unlink.
DirBusy  == \E w \in Workers : job[w].kind \in {"unlink", "rename"}
Busy(i)  == \E w \in Workers :
              \/ job[w].kind = "truncate" /\ job[w].ino = i
              \/ job[w].kind = "unlink" /\ dentry[job[w].name] = i
InJob(fh, kinds) == \E w \in Workers : job[w].kind \in kinds /\ job[w].fh = fh

\* A request is taken up only when the one before it was answered or handed on.
Session    == arc = 0
Start(w, j) == job[w] = NoJob /\ job' = [job EXCEPT ![w] = j]
End(w)     == job' = [job EXCEPT ![w] = NoJob]
GoTo(w, p) == job' = [job EXCEPT ![w].pc = p]

MadeLast(what) == made[what]                                            \* mutant
Made(what)     == made[what] + 1

\* Bounds.  A job is only taken up when what it may make is left over by the others.
Waiting(kinds) == Cardinality({w \in Workers : job[w].kind \in kinds /\ job[w].new = 0})
RoomForId   == made.id + Waiting({"flush", "release", "rename", "truncate"}) < MaxId
RoomForVer  == made.ver + Waiting({"truncate"}) < MaxVer
RoomForOpen == /\ made.fh + Waiting({"open"}) < MaxFh
               /\ made.file + Waiting({"open"}) < MaxFile
-----------------------------------------------------------------------------
\* attach_writer, alloc_fh and the new handle: f is the buffer that is there or,
\* for an inode that has none, the one made for it.
Attach(i, f) ==
  /\ writer' = [writer EXCEPT ![i] =
       [file |-> IF @.file # 0 THEN @.file ELSE f, handles |-> @.handles + 1]]
  /\ handle' = [handle EXCEPT ![Made("fh")] = i]
  /\ open'   = open \cup {Made("fh")}

\* mutant: the buffer goes when one handle is left.
CloseHandleEarly(fh) ==
  LET i == handle[fh] IN
  /\ handle' = [handle EXCEPT ![fh] = 0]
  /\ writer' = [writer EXCEPT ![i] = IF @.handles <= 2 THEN NoWriter
                                     ELSE [file |-> @.file, handles |-> @.handles - 1]]

\* close_write_handle
CloseHandle(fh) ==
  LET i == handle[fh] IN
  /\ handle' = [handle EXCEPT ![fh] = 0]
  /\ writer' = [writer EXCEPT ![i] = IF @.handles = 1 THEN NoWriter
                                     ELSE [file |-> @.file, handles |-> @.handles - 1]]

\* The buffer of an inode, if any, is not to be saved any more.
DiscardBuffer(i) ==
  LET f == writer[i].file IN
  IF f # 0 THEN target' = [target EXCEPT ![f] = Discarded] ELSE UNCHANGED target

\* mutant: the name stays registered as not saved yet.
RepointOnly(i, old, new) ==
  /\ inoOf' = [id \in Ids |-> IF id = new THEN i
                              ELSE IF id = old /\ inoOf[id] = i THEN 0 ELSE inoOf[id]]
  /\ node' = [node EXCEPT ![i] = Remote(new)]
  /\ UNCHANGED pending

\* repoint_ino_to
Repoint(i, old, new) ==
  /\ inoOf' = [id \in Ids |-> IF id = new THEN i
                              ELSE IF id = old /\ inoOf[id] = i THEN 0 ELSE inoOf[id]]
  /\ pending' = [n \in Names |-> IF node[i] = Pending(n) THEN 0 ELSE pending[n]]
  /\ node' = [node EXCEPT ![i] = Remote(new)]

\* An upload is done and ingest_record has put it into the index.
Ingest(n, v) ==
  /\ index' = index \cup {Made("id")}
  /\ rec' = [rec EXCEPT ![Made("id")] = [name |-> n, ver |-> v]]

\* delete_replaced: out of the index at once, off the server later.
Hide(id) == index' = index \ {id} /\ UNCHANGED rec
-----------------------------------------------------------------------------
(* Requests of the kernel that the session thread answers itself.          *)

\* create: EEXIST unless the name is free; the new file exists only here.
Create(n) ==
  LET i == Made("ino")  f == Made("file")  v == Made("ver") IN
  /\ Session /\ ~DirBusy /\ pending[n] = 0 /\ Holder(n) = 0
  /\ made.ino < MaxCreate /\ RoomForOpen /\ RoomForVer
  /\ target' = [target EXCEPT ![f] = NewFile(n)]
  /\ gen' = [gen EXCEPT ![f] = v]                       \* mark_dirty
  /\ node' = [node EXCEPT ![i] = Pending(n)]
  /\ pending' = [pending EXCEPT ![n] = i]
  /\ Attach(i, f)
  /\ dentry' = [dentry EXCEPT ![n] = i]
  /\ absent' = absent \ {n}
  /\ made' = [made EXCEPT !.ino = i, !.file = f, !.ver = v, !.fh = @ + 1]
  /\ UNCHANGED <<vault, inoOf, committed, lock, job, arc, flushed>>

\* lookup: a file that is not saved yet, or the record that holds the name.
Lookup(n) ==
  LET id == Holder(n)
      i  == InoForRemote(id)
  IN
  /\ Session /\ ~DirBusy
  /\ IF pending[n] # 0
     THEN dentry' = [dentry EXCEPT ![n] = pending[n]] /\ UNCHANGED <<node, inoOf>>
     ELSE IF id = 0
     THEN dentry' = [dentry EXCEPT ![n] = 0] /\ UNCHANGED <<node, inoOf>>
     ELSE /\ dentry' = [dentry EXCEPT ![n] = i]
          /\ inoOf' = [inoOf EXCEPT ![id] = i]
          /\ node' = [node EXCEPT ![i] = IF inoOf[id] # 0 THEN @ ELSE Remote(id)]
  /\ UNCHANGED <<vault, pending, writer, handle, buffers, lock, job, arc, open, flushed,
                 absent, made>>

\* open for writing of an inode that has a buffer (a pending one always must,
\* or the answer is EIO).  init asks for no FUSE_ATOMIC_O_TRUNC, so the kernel
\* never passes O_TRUNC: it truncates with a setattr after the open.
OpenShared(n) ==
  LET i == dentry[n] IN
  /\ Session /\ i # 0 /\ writer[i].file # 0
  /\ \/ node[i].kind = "pending"
     \/ node[i].kind = "remote" /\ node[i].id \in index
  /\ made.fh + Waiting({"open"}) < MaxFh
  /\ Attach(i, 0)
  /\ made' = [made EXCEPT !.fh = @ + 1]
  /\ UNCHANGED <<vault, inodes, buffers, lock, job, arc, dentry, flushed, absent>>

\* open for writing of a file without one: a worker loads the record first.
OpenRemote(n, w) ==
  LET i == dentry[n] IN
  /\ Session /\ i # 0 /\ writer[i].file = 0 /\ RoomForOpen
  /\ node[i].kind = "remote" /\ node[i].id \in index
  /\ Start(w, [NoJob EXCEPT !.kind = "open", !.pc = "attach", !.ino = i, !.id = node[i].id])
  /\ UNCHANGED <<vault, inodes, writer, handle, buffers, lock, arc, kernel, made>>

\* write, on a handle that is open.
Write(fh) ==
  LET i == handle[fh]  f == writer[i].file  v == Made("ver") IN
  /\ Session /\ fh \in open /\ ~Busy(i) /\ RoomForVer
  /\ gen' = [gen EXCEPT ![f] = v]
  /\ flushed' = flushed \ {fh}
  /\ made' = [made EXCEPT !.ver = v]
  /\ UNCHANGED <<vault, inodes, writer, handle, target, committed, lock, job, arc, dentry,
                 open, absent>>

\* setattr with a size, of an inode that has a buffer: the session thread takes
\* the buffer under the state mutex and cuts it after letting go of that.
Truncate(n) ==
  LET i == dentry[n] IN
  /\ Session /\ i # 0 /\ ~Busy(i) /\ writer[i].file # 0 /\ RoomForVer
  /\ PathTruncate \/ \E fh \in open : handle[fh] = i
  /\ arc' = writer[i].file
  /\ UNCHANGED <<vault, inodes, writer, handle, buffers, lock, job, kernel, made>>

SetLen ==
  /\ arc # 0
  /\ gen' = [gen EXCEPT ![arc] = Made("ver")]
  /\ arc' = 0
  /\ made' = [made EXCEPT !.ver = @ + 1]
  /\ UNCHANGED <<vault, inodes, writer, handle, target, committed, lock, job, kernel>>

\* setattr with a size, of any other: a worker cuts the record.
TruncateRemote(n, w) ==
  LET i == dentry[n] IN
  /\ Session /\ PathTruncate /\ i # 0 /\ ~Busy(i) /\ writer[i].file = 0
  /\ RoomForId /\ RoomForVer
  /\ node[i].kind = "remote" /\ node[i].id \in index
  /\ Start(w, [NoJob EXCEPT !.kind = "truncate", !.pc = "upload", !.ino = i, !.id = node[i].id])
  /\ UNCHANGED <<vault, inodes, writer, handle, buffers, lock, arc, kernel, made>>

\* unlink of a file that is not saved yet.
UnlinkPending(n) ==
  LET i == pending[n] IN
  /\ Session /\ ~DirBusy /\ i # 0
  /\ pending' = [pending EXCEPT ![n] = 0]
  /\ node' = [node EXCEPT ![i] = NoNode]
  /\ DiscardBuffer(i)
  /\ dentry' = [dentry EXCEPT ![n] = 0]
  /\ absent' = absent \cup {n}
  /\ UNCHANGED <<vault, inoOf, writer, handle, gen, committed, lock, job, arc, open,
                 flushed, made>>

UnlinkRemote(n, w) ==
  /\ Session /\ ~DirBusy /\ pending[n] = 0 /\ Holder(n) # 0
  /\ Start(w, [NoJob EXCEPT !.kind = "unlink", !.pc = "delete", !.id = Holder(n), !.name = n])
  /\ UNCHANGED <<vault, inodes, writer, handle, buffers, lock, arc, kernel, made>>

\* rename to a name that no unsaved file has (EBUSY); ENOENT for an unsaved file.
Rename(n, to, w) ==
  /\ Session /\ ~DirBusy /\ n # to /\ Holder(n) # 0 /\ pending[to] = 0
  /\ RoomForId
  /\ Start(w, [NoJob EXCEPT !.kind = "rename", !.pc = "upload", !.id = Holder(n),
                            !.name = to, !.ver = rec[Holder(n)].ver, !.victim = Holder(to)])
  /\ absent' = absent \ {to}
  /\ UNCHANGED <<vault, inodes, writer, handle, buffers, lock, arc, dentry, open, flushed,
                 made>>

\* flush: a close of one of the handle's descriptors waits for a save, if the
\* buffer needs one.
FlushClean(fh) ==
  /\ Session /\ fh \in open \ flushed /\ ~Dirty(writer[handle[fh]].file)
  /\ flushed' = flushed \cup {fh}
  /\ UNCHANGED <<vault, inodes, writer, handle, buffers, lock, job, arc, dentry, open,
                 absent, made>>

Flush(fh, w) ==
  /\ Session /\ fh \in open /\ Dirty(writer[handle[fh]].file)
  /\ ~InJob(fh, {"flush"}) /\ RoomForId
  /\ Start(w, [NoJob EXCEPT !.kind = "flush", !.pc = "lock", !.fh = fh])
  /\ flushed' = flushed \cup {fh}
  /\ UNCHANGED <<vault, inodes, writer, handle, buffers, lock, arc, dentry, open, absent,
                 made>>

\* release: the last descriptor is gone, and the flush of each was answered; the
\* buffer is dirty when that flush failed or something else changed the file since.
Releasable(fh) == Session /\ fh \in open \cap flushed /\ ~InJob(fh, {"flush"})

ReleaseClean(fh) ==
  /\ Releasable(fh) /\ ~Dirty(writer[handle[fh]].file)
  /\ CloseHandle(fh)
  /\ open' = open \ {fh}
  /\ UNCHANGED <<vault, inodes, buffers, lock, job, arc, dentry, flushed, absent, made>>

ReleaseDirty(fh, w) ==
  /\ Releasable(fh) /\ Dirty(writer[handle[fh]].file)
  /\ RoomForId
  /\ Start(w, [NoJob EXCEPT !.kind = "release", !.pc = "lock", !.fh = fh])
  /\ open' = open \ {fh}
  /\ UNCHANGED <<vault, inodes, writer, handle, buffers, lock, arc, dentry, flushed,
                 absent, made>>
-----------------------------------------------------------------------------
(* Jobs.  commit_write_session, for a flush and a release.                 *)

Commits(w) == job[w].kind \in {"flush", "release"}
Saving(w, p) == Commits(w) /\ job[w].pc = p

\* commit_write_file returned true: release goes on to close the handle.
Saved(w) == IF job[w].kind = "release" THEN GoTo(w, "close") ELSE End(w)

\* What a save will do, with the target and the index as they are: make a new
\* record under a free name, or replace the record it was loaded from.
Plan(w, f) ==
  LET t == target[f]
      j == [job[w] EXCEPT !.pc = "upload", !.ino = handle[job[w].fh], !.file = f,
                          !.id = t.id, !.ver = gen[f]]
  IN  IF t.kind = "existing" /\ t.id \in index
      THEN [j EXCEPT !.name = rec[t.id].name]
      ELSE [j EXCEPT !.name = FreeName(t.name), !.pc = "create"]

\* The handle's buffer, its commit_lock, the dirty check, the target.
BeginCommit(w) ==
  LET f == writer[handle[job[w].fh]].file IN
  /\ Saving(w, "lock") /\ lock[f] = 0
  /\ IF ~Dirty(f)
     THEN Saved(w) /\ UNCHANGED <<committed, lock>>
     ELSE IF target[f].kind = "discarded"
     THEN /\ committed' = [committed EXCEPT ![f] = gen[f]]
          /\ Saved(w) /\ UNCHANGED lock
     ELSE /\ lock' = [lock EXCEPT ![f] = w]
          /\ job' = [job EXCEPT ![w] = Plan(w, f)]
          /\ UNCHANGED committed
  /\ UNCHANGED <<vault, inodes, writer, handle, target, gen, arc, kernel, made>>

\* The upload went through.
Upload(w) ==
  /\ Commits(w) /\ job[w].pc \in {"upload", "create"}
  /\ Ingest(job[w].name, job[w].ver)
  /\ job' = [job EXCEPT ![w].new = Made("id"), ![w].pc = "drop"]
  /\ made' = [made EXCEPT !.id = @ + 1]
  /\ UNCHANGED <<inodes, writer, handle, buffers, lock, arc, kernel>>

\* The upload failed for good, the record to replace is gone, or the new one is
\* already gone again: EIO for flush; release keeps the buffer and its handle "for
\* a later attempt".
UploadFails(w) ==
  /\ Commits(w)
  /\ \/ UploadFaults /\ job[w].pc \in {"upload", "create"}
     \/ job[w].pc = "upload" /\ job[w].id \notin index
     \/ job[w].pc = "drop" /\ job[w].new \notin index
  /\ lock' = [lock EXCEPT ![job[w].file] = 0]
  /\ End(w)
  /\ UNCHANGED <<vault, inodes, writer, handle, buffers, arc, kernel, made>>

\* delete_replaced; a save that made a new file has none (id is 0 or gone).
DropReplaced(w) ==
  /\ Saving(w, "drop") /\ Hide(job[w].id) /\ GoTo(w, "settle")
  /\ UNCHANGED <<inodes, writer, handle, buffers, lock, arc, kernel, made>>

\* mutant: the buffer still has the replaced record as its own.
SettleInPlace(w) ==
  /\ Saving(w, "settle")
  /\ committed' = [committed EXCEPT ![job[w].file] = job[w].ver]
  /\ GoTo(w, "repoint")
  /\ UNCHANGED <<vault, inodes, writer, handle, target, gen, lock, arc, kernel, made>>

\* mark_committed with the version that was uploaded, and the new target.
Settle(w) ==
  LET f == job[w].file IN
  /\ Saving(w, "settle")
  /\ committed' = [committed EXCEPT ![f] = job[w].ver]
  /\ target' = [target EXCEPT ![f] = Existing(job[w].new)]
  /\ GoTo(w, "repoint")
  /\ UNCHANGED <<vault, inodes, writer, handle, gen, lock, arc, kernel, made>>

\* mutant: the commit_lock is kept.
RepointLocked(w) ==
  /\ Saving(w, "repoint")
  /\ Repoint(job[w].ino, job[w].id, job[w].new)
  /\ Saved(w)
  /\ UNCHANGED <<vault, writer, handle, buffers, lock, arc, kernel, made>>

\* The inode is the new record's; the commit_lock is released.
RepointSaved(w) ==
  /\ Saving(w, "repoint")
  /\ Repoint(job[w].ino, job[w].id, job[w].new)
  /\ lock' = [lock EXCEPT ![job[w].file] = 0]
  /\ Saved(w)
  /\ UNCHANGED <<vault, writer, handle, buffers, arc, kernel, made>>

CloseReleased(w) ==
  /\ Saving(w, "close") /\ CloseHandle(job[w].fh) /\ End(w)
  /\ UNCHANGED <<vault, inodes, buffers, lock, arc, kernel, made>>
-----------------------------------------------------------------------------
(* Jobs.  open, setattr, unlink and rename.                                *)

Doing(w, k, p) == job[w].kind = k /\ job[w].pc = p

\* The record is loaded into a new buffer, which is clean; the buffer that another
\* open brought in the meantime is used instead.
AttachLoaded(w) ==
  LET i == job[w].ino  f == Made("file")  id == job[w].id IN
  /\ Doing(w, "open", "attach")
  /\ IF writer[i].file # 0
     THEN made' = [made EXCEPT !.fh = @ + 1] /\ UNCHANGED buffers
     ELSE /\ target' = [target EXCEPT ![f] = Existing(id)]
          /\ gen' = [gen EXCEPT ![f] = rec[id].ver]
          /\ committed' = [committed EXCEPT ![f] = rec[id].ver]
          /\ made' = [made EXCEPT !.file = f, !.fh = @ + 1]
  /\ Attach(i, f)
  /\ End(w)
  /\ UNCHANGED <<vault, inodes, lock, arc, dentry, flushed, absent>>

\* The request ends with an error that changes nothing: a load, an upload or a
\* delete that failed, or a record that is gone.
JobFails(w) ==
  /\ \/ UploadFaults /\ <<job[w].kind, job[w].pc>> \in
          {<<"open", "attach">>, <<"truncate", "upload">>,
           <<"unlink", "delete">>, <<"rename", "upload">>}
     \/ /\ <<job[w].kind, job[w].pc>> \in
          {<<"open", "attach">>, <<"truncate", "upload">>, <<"rename", "upload">>}
        /\ job[w].id \notin index
     \/ /\ job[w].kind \in {"truncate", "rename"} /\ job[w].pc = "drop"
        /\ job[w].new \notin index
  /\ End(w)
  /\ UNCHANGED <<vault, inodes, writer, handle, buffers, lock, arc, kernel, made>>

\* truncate_remote: the cut content goes up as a new record of the same name.
UploadCut(w) ==
  /\ Doing(w, "truncate", "upload")
  /\ Ingest(rec[job[w].id].name, Made("ver"))
  /\ job' = [job EXCEPT ![w].new = Made("id"), ![w].pc = "drop"]
  /\ made' = [made EXCEPT !.id = @ + 1, !.ver = @ + 1]
  /\ UNCHANGED <<inodes, writer, handle, buffers, lock, arc, kernel>>

\* reupload_with_metadata: the same content under the new name.
UploadRenamed(w) ==
  /\ Doing(w, "rename", "upload")
  /\ Ingest(job[w].name, job[w].ver)
  /\ job' = [job EXCEPT ![w].new = Made("id"), ![w].pc = "drop"]
  /\ made' = [made EXCEPT !.id = @ + 1]
  /\ UNCHANGED <<inodes, writer, handle, buffers, lock, arc, kernel>>

DropOld(w) ==
  /\ job[w].kind \in {"truncate", "rename"} /\ job[w].pc = "drop"
  /\ Hide(job[w].id)
  /\ GoTo(w, IF job[w].victim # 0 THEN "delete" ELSE "repoint")
  /\ UNCHANGED <<inodes, writer, handle, buffers, lock, arc, kernel, made>>

RepointCut(w) ==
  /\ Doing(w, "truncate", "repoint")
  /\ Repoint(job[w].ino, job[w].id, job[w].new)
  /\ End(w)
  /\ UNCHANGED <<vault, writer, handle, buffers, lock, arc, kernel, made>>

\* delete_one, of the unlinked record and of the one that a rename replaces.
Condemned(w) == IF job[w].kind = "unlink" THEN job[w].id ELSE job[w].victim

Delete(w) ==
  /\ job[w].kind \in {"unlink", "rename"} /\ job[w].pc = "delete"
  /\ Hide(Condemned(w))
  /\ GoTo(w, "discard")
  /\ UNCHANGED <<inodes, writer, handle, buffers, lock, arc, kernel, made>>

\* rename: "the replaced item could not be removed and is still there".
KeepsVictim(w) ==
  /\ UploadFaults /\ Doing(w, "rename", "delete") /\ GoTo(w, "repoint")
  /\ UNCHANGED <<vault, inodes, writer, handle, buffers, lock, arc, kernel, made>>

\* The inode of a deleted record loses the id, its buffer the target.
Unbind(id) ==
  /\ inoOf' = [inoOf EXCEPT ![id] = 0]
  /\ IF inoOf[id] # 0 THEN DiscardBuffer(inoOf[id]) ELSE UNCHANGED target

DiscardUnlinked(w) ==
  /\ Doing(w, "unlink", "discard")
  /\ Unbind(job[w].id)
  /\ dentry' = [dentry EXCEPT ![job[w].name] = 0]
  /\ absent' = absent \cup {job[w].name}
  /\ End(w)
  /\ UNCHANGED <<vault, node, pending, writer, handle, gen, committed, lock, arc, open,
                 flushed, made>>

DiscardVictim(w) ==
  /\ Doing(w, "rename", "discard")
  /\ Unbind(job[w].victim)
  /\ GoTo(w, "repoint")
  /\ UNCHANGED <<vault, node, pending, writer, handle, gen, committed, lock, arc, kernel, made>>

\* The inode, and the target of a buffer that still has the old record as its own,
\* go over to the renamed record; the kernel moves its entry.
Retarget(f, old, new) ==
  IF f # 0 /\ target[f].kind = "existing" /\ target[f].id = old
  THEN target' = [target EXCEPT ![f] = Existing(new)]
  ELSE UNCHANGED target

RepointRenamed(w) ==
  LET old  == job[w].id
      i    == inoOf[old]
      from == rec[old].name
  IN
  /\ Doing(w, "rename", "repoint")
  /\ IF i # 0
     THEN Repoint(i, old, job[w].new) /\ Retarget(writer[i].file, old, job[w].new)
     ELSE UNCHANGED <<inodes, target>>
  /\ dentry' = [dentry EXCEPT ![job[w].name] = dentry[from], ![from] = 0]
  /\ absent' = absent \cup {from}
  /\ End(w)
  /\ UNCHANGED <<vault, writer, handle, gen, committed, lock, arc, open,
                 flushed, made>>
-----------------------------------------------------------------------------
\* Vault::sync takes over what another client did.
AddedElsewhere(n) ==
  /\ Elsewhere /\ Session /\ RoomForId /\ RoomForVer
  /\ Ingest(n, Made("ver"))
  /\ made' = [made EXCEPT !.id = @ + 1, !.ver = @ + 1]
  /\ absent' = absent \ {n}
  /\ UNCHANGED <<inodes, writer, handle, buffers, lock, job, arc, dentry, open,
                 flushed>>

RemovedElsewhere(id) ==
  /\ Elsewhere /\ id \in index
  /\ Hide(id)
  /\ UNCHANGED <<inodes, writer, handle, buffers, lock, job, arc, kernel, made>>
-----------------------------------------------------------------------------
Request ==
  \/ SetLen
  \/ \E n \in Names :
       \/ Create(n) \/ Lookup(n) \/ OpenShared(n) \/ Truncate(n) \/ UnlinkPending(n)
       \/ AddedElsewhere(n)
       \/ \E w \in Workers :
            \/ OpenRemote(n, w) \/ TruncateRemote(n, w) \/ UnlinkRemote(n, w)
            \/ \E to \in Names : Rename(n, to, w)
  \/ \E fh \in Fhs :
       \/ Write(fh) \/ FlushClean(fh) \/ ReleaseClean(fh)
       \/ \E w \in Workers : Flush(fh, w) \/ ReleaseDirty(fh, w)
  \/ \E id \in Ids : RemovedElsewhere(id)

CommitStep(w) ==
  \/ BeginCommit(w) \/ Upload(w) \/ UploadFails(w) \/ DropReplaced(w)
  \/ Settle(w) \/ RepointSaved(w) \/ CloseReleased(w)

OtherStep(w) ==
  \/ AttachLoaded(w) \/ JobFails(w) \/ UploadCut(w) \/ UploadRenamed(w) \/ DropOld(w)
  \/ RepointCut(w) \/ Delete(w) \/ KeepsVictim(w) \/ DiscardUnlinked(w)
  \/ DiscardVictim(w) \/ RepointRenamed(w)

JobStep(w) == CommitStep(w) \/ OtherStep(w)

Next == Request \/ \E w \in Workers : JobStep(w)

\* A worker that has a job runs on; the kernel and other clients promise nothing.
Spec     == Init /\ [][Next]_vars
FairSpec == Spec /\ \A w \in Workers : WF_vars(JobStep(w))
-----------------------------------------------------------------------------
OptId  == Ids \cup {0}
OptIno == Inos \cup {0}
Target == [kind : {"discarded", "new", "existing"}, id : OptId, name : Nat]
Node   == [kind : {"none", "remote", "pending"}, id : OptId, name : Nat]
Job    == [kind : {"none", "flush", "release", "open", "truncate", "unlink", "rename"},
           pc : {"none", "lock", "create", "upload", "drop", "settle", "repoint", "close",
                 "attach", "delete", "discard"},
           ino : OptIno, fh : Fhs \cup {0}, file : Files \cup {0},
           id : OptId, new : OptId, victim : OptId, name : Nat, ver : Nat]
Counts == [id : 0 .. MaxId, ino : 0 .. MaxCreate, file : 0 .. MaxFile, fh : 0 .. MaxFh,
           ver : Nat]

TypeOK ==
  /\ index \subseteq Ids
  /\ rec \in [Ids -> [name : Nat, ver : Nat]]
  /\ node \in [Inos -> Node]
  /\ inoOf \in [Ids -> OptIno]
  /\ pending \in [Names -> OptIno]
  /\ writer \in [Inos -> [file : Files \cup {0}, handles : Nat]]
  /\ handle \in [Fhs -> OptIno]
  /\ target \in [Files -> Target]
  /\ gen \in [Files -> Nat] /\ committed \in [Files -> Nat]
  /\ lock \in [Files -> Workers \cup {0}]
  /\ job \in [Workers -> Job]
  /\ arc \in Files \cup {0}
  /\ dentry \in [Names -> OptIno]
  /\ open \subseteq Fhs /\ flushed \subseteq Fhs /\ absent \subseteq Names
  /\ made \in Counts

\* An inode has a buffer exactly while handles are open on it, and the count that
\* decides when the buffer is dropped is the number of those handles: a write
\* never finds its buffer gone, and no buffer outlives its last handle
\* (attach_writer, close_write_handle, create, open, release).
HandlesCounted ==
  \A i \in Inos :
    /\ writer[i].handles = Cardinality({fh \in Fhs : handle[fh] = i})
    /\ (writer[i].file = 0) <=> (writer[i].handles = 0)

\* A name that only exists here leads to an inode that knows the name and has a
\* buffer with a file to become: an open of it is never answered with EIO, and
\* it is not listed beside its saved self (repoint_ino_to, unlink, release).
PendingIsBuffered ==
  \A n \in Names : pending[n] # 0 =>
    /\ node[pending[n]] = Pending(n)
    /\ writer[pending[n]].file # 0
    /\ target[writer[pending[n]].file].kind # "discarded"

\* The record that the next save of a buffer replaces is the one the buffer was
\* loaded from or last saved to, also after renames and while a save runs: a save
\* never overwrites a version that the buffer was not made from
\* (commit_write_file, rename, open).
TargetIsBase ==
  \A f \in Files : target[f].kind = "existing" => rec[target[f].id].ver = committed[f]

\* A buffer that no handle leads to any more holds no acknowledged change that was
\* not saved, unless its file was unlinked (release drops it after a save or
\* when it is clean).
NothingUnsavedIsDropped ==
  \A f \in 1 .. made.file :
    (\A i \in Inos : writer[i].file # f) => gen[f] = committed[f] \/ target[f].kind = "discarded"

\* A request that a worker took up is answered.
RequestsEnd == \A w \in Workers : (job[w] # NoJob) ~> (job[w] = NoJob)

\* "inode numbers are stable per id" (the name of a test, fuse_fs.rs).  The code
\* breaks this one and the next: README.md says how.
StableInodes ==
  [][\A id \in Ids : inoOf[id] # 0 => inoOf'[id] \in {inoOf[id], 0}]_inoOf

\* A file that was removed, or moved away, is not there any more.
RemovedIsGone == \A n \in absent : Holder(n) = 0 /\ pending[n] = 0
=============================================================================
