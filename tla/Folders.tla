------------------------------- MODULE Folders -------------------------------
(***************************************************************************)
(* The tree of folders that the FUSE client shows: requests that make,     *)
(* move and remove files and folders (lethean_fuse/src/fuse_fs.rs, the     *)
(* operations of vault.rs behind them), the saves of new files, and what   *)
(* a sync brings in from another client, all on one index (VaultIndex.tla).*)
(*                                                                         *)
(* The session thread checks a request and hands it to a worker; the       *)
(* worker's steps, which take the index's lock one by one, interleave with *)
(* other workers, saves and syncs.  The kernel holds the locks of the      *)
(* folders a request is about until it is answered, but no lock holds off  *)
(* a save or a sync.  A moved folder is a new record with the same node    *)
(* reference; entries of the old format name their folder by id alone and  *)
(* are moved one by one after it.                                          *)
(*                                                                         *)
(* A name is a sequence of numbers, which a numbered alias (n >= 2) or a   *)
(* conflicted copy (-n) makes longer.  Writes to open files are in         *)
(* WriteSession.tla, the steps of a sync in VaultSync.tla.                 *)
(***************************************************************************)
EXTENDS VaultIndex

CONSTANTS
  Names,      \* the names that requests and other clients give
  MaxId,      \* bound: records ever made
  MaxPending, \* bound: new files that are not saved yet
  MaxFaults,  \* bound: requests to the server that fail for good
  Workers,    \* threads that run jobs
  Kinds,      \* what the kernel asks for: "create", "mkdir", "unlink", "rmdir", "rename"
  Elsewhere,  \* what another client does: "create", "rename", "upgrade"
  Worlds,     \* the vaults a mount may find: functions from ids to entries
  MoveBusy    \* TRUE: folders with unsaved new files in them are moved, too

ASSUME FoldersAssumption ==
  /\ {MaxId, MaxPending, MaxFaults} \subseteq Nat
  /\ Names \subseteq Seq(Int)
  /\ MoveBusy \in BOOLEAN
  /\ \A world \in Worlds : \E n \in 0 .. MaxId :
       world \in [1 .. n -> EntryOf(1 .. MaxId, Seq(Int))]

VARIABLES
  index,    \* VaultIndex
  rec,      \* rec[id]: the entry of a record, fixed when it is made
  own,      \* the records that this client made, or found at the start
  stored,   \* the records the server has, without those hidden until they are deleted
  pending,  \* pending_by_key: new files that are not saved yet, <<folder, name>>
  job,      \* what each worker does
  away,     \* the record that the other client replaced and is about to delete
  faults    \* how many requests failed

vars == <<index, rec, own, stored, pending, job, away, faults>>

AllIds == 1 .. MaxId
NoEntry == [name |-> <<>>, folder |-> FALSE, v2 |-> TRUE, parent |-> Root,
            pref |-> None, ref |-> 0, from |-> None]

\* In a move: no other folder is asked for.
Stay == -2

\* One rename_or_move: the record and its copy, where the copy goes, and the
\* entries of the old format in it that are still to be moved.
Frame(id, name, parent) == [id |-> id, new |-> None, name |-> name, parent |-> parent, kids |-> {}]

NoJob == [kind |-> "none", pc |-> "none", parent |-> Root, name |-> <<>>, id |-> None,
          stack |-> <<>>, victim |-> None, locked |-> {}, tree |-> FALSE]

Filled(world) == InOrder(LAMBDA id, ix : InsertEntry(ix, id, world[id]),
                         EmptyIndex, Max, DOMAIN world)

Init ==
  /\ \E world \in Worlds :
       /\ rec    = [id \in AllIds |-> IF id \in DOMAIN world THEN world[id] ELSE NoEntry]
       /\ index  = Filled(world)
       /\ stored = DOMAIN world
       /\ own    = DOMAIN world
  /\ pending = {}
  /\ job     = [w \in Workers |-> NoJob]
  /\ away    = None
  /\ faults  = 0
-----------------------------------------------------------------------------
Made == Cardinality({id \in AllIds : rec[id].ref # 0})
New  == Made + 1

Dirs         == {Root} \cup {id \in Ids(index) : rec[id].folder}
\* The folders that a path leads to, of which the kernel asks.
Seen         == Dirs \cap Below(index, {Root})
UnsavedIn(d) == {p \in pending : p[1] = d}

\* parent_ref, set_parent: how a new record of the second format names its folder.
Under(entry, d) == [entry EXCEPT !.parent = d, !.pref = IF d = Root THEN None ELSE rec[d].ref]

\* free_name
FreeName(d, name) ==
  LET copies == {Append(name, -k) : k \in 1 .. MaxId}
      Free(n) == FindChild(index, d, n) = None
  IN  IF Free(name) THEN name
      ELSE Append(name, Max({-k : k \in {j \in 1 .. MaxId : Free(Append(name, -j))}}))

\* The kernel: an inode's lock per folder, which follows the folder when it is
\* moved, and one lock for moves from folder to folder.
LockOf(d)      == IF d = Root THEN 0 ELSE rec[d].ref
Lockable(dirs) == \A w \in Workers : job[w].locked \cap {LockOf(d) : d \in dirs} = {}
Start(w, dirs, j) ==
  /\ job[w] = NoJob /\ Lockable(dirs)
  /\ job' = [job EXCEPT ![w] = [j EXCEPT !.locked = {LockOf(d) : d \in dirs}]]
End(w)     == job' = [job EXCEPT ![w] = NoJob]
GoTo(w, p) == job' = [job EXCEPT ![w].pc = p]
AtPc(w, p) == job[w].pc = p
Fails      == faults < MaxFaults /\ faults' = faults + 1

\* d is being moved by a job.
Moving(d) == \E w \in Workers : \E k \in DOMAIN job[w].stack : job[w].stack[k].id = d
-----------------------------------------------------------------------------
(* Requests, as the session thread checks them.                            *)

Create(d, n) ==
  /\ "create" \in Kinds /\ Lockable({d})
  /\ MoveBusy \/ ~Moving(d)
  /\ <<d, n>> \notin pending /\ FindChild(index, d, n) = None
  /\ Cardinality(pending) < MaxPending
  /\ pending' = pending \cup {<<d, n>>}
  /\ UNCHANGED <<index, rec, own, stored, job, away, faults>>

\* mkdir only looks for a record; that a new file has the name the kernel knows,
\* which looks names up first.
Mkdir(d, n, w) ==
  /\ "mkdir" \in Kinds /\ <<d, n>> \notin pending
  /\ FindChild(index, d, n) = None
  /\ Start(w, {d}, [NoJob EXCEPT !.kind = "mkdir", !.pc = "upload", !.parent = d, !.name = n])
  /\ UNCHANGED <<index, rec, own, stored, pending, away, faults>>

\* An unsaved file is only forgotten (WriteSession.tla has what happens when a
\* save is under way); a record is deleted by a worker.
UnlinkPending(d, n) ==
  /\ "unlink" \in Kinds /\ Lockable({d}) /\ <<d, n>> \in pending
  /\ ~\E w \in Workers : job[w].kind = "save" /\ <<job[w].parent, job[w].name>> = <<d, n>>
  /\ pending' = pending \ {<<d, n>>}
  /\ UNCHANGED <<index, rec, own, stored, job, away, faults>>

Unlink(d, n, w) ==
  LET id == FindChild(index, d, n) IN
  /\ "unlink" \in Kinds /\ <<d, n>> \notin pending
  /\ id # None /\ ~rec[id].folder
  /\ Start(w, {d}, [NoJob EXCEPT !.kind = "unlink", !.pc = "delete", !.id = id])
  /\ UNCHANGED <<index, rec, own, stored, pending, away, faults>>

\* mutant: the new files that are not saved yet do not count.
LooksEmpty(id) == Children(index, id) = {}
Empty(id)      == Children(index, id) = {} /\ UnsavedIn(id) = {}

Rmdir(d, n, w) ==
  LET id == FindChild(index, d, n) IN
  /\ "rmdir" \in Kinds /\ id # None /\ rec[id].folder /\ Empty(id)
  /\ Start(w, {d, id}, [NoJob EXCEPT !.kind = "rmdir", !.pc = "delete", !.id = id])
  /\ UNCHANGED <<index, rec, own, stored, pending, away, faults>>

\* A folder may go anywhere but into itself and what is below it.
MayMoveInto(id, d) == d # id /\ d \notin Descendants(index, id)

\* rename onto nothing, or onto a file or an empty folder, which it replaces.
\* A name that does not change is kept as it was saved, alias or not.
Rename(d, n, d2, n2, w) ==
  LET id     == FindChild(index, d, n)
      other  == FindChild(index, d2, n2)
      victim == IF other = id THEN None ELSE other
  IN
  /\ "rename" \in Kinds /\ <<d, n>> # <<d2, n2>> /\ id # None
  /\ <<d2, n2>> \notin pending                                         \* EBUSY
  /\ victim # None => /\ rec[victim].folder = rec[id].folder
                      /\ rec[victim].folder => Empty(victim)
  /\ rec[id].folder => /\ MayMoveInto(id, d2)
                       /\ MoveBusy \/ UnsavedIn(id) = {}
  /\ d # d2 => \A v \in Workers : ~job[v].tree
  /\ Start(w, {d, d2} \cup (IF victim # None /\ rec[victim].folder THEN {victim} ELSE {}),
           [NoJob EXCEPT !.kind = "rename", !.pc = "upload", !.victim = victim,
              !.tree = d # d2,
              !.stack = <<Frame(id, IF n = n2 THEN rec[id].name ELSE n2,
                                IF d = d2 THEN Stay ELSE d2)>>])
  /\ UNCHANGED <<index, rec, own, stored, pending, away, faults>>

\* A flush of a new file.
StartSave(p, w) ==
  /\ p \in pending
  /\ \A v \in Workers : job[v].kind = "save" => <<job[v].parent, job[v].name>> # p
  /\ Start(w, {}, [NoJob EXCEPT !.kind = "save", !.pc = "upload", !.parent = p[1], !.name = p[2]])
  /\ UNCHANGED <<index, rec, own, stored, pending, away, faults>>
-----------------------------------------------------------------------------
(* What a worker does: saves, and new folders.                             *)

\* Bound: no more than MaxId records are ever made.
Store(entry) ==
  /\ New <= MaxId
  /\ rec' = [rec EXCEPT ![New] = [entry EXCEPT !.ref = IF @ = 0 THEN New ELSE @]]
  /\ stored' = stored \cup {New}
  /\ own' = own \cup {New}

UploadFails(w) ==
  /\ AtPc(w, "upload") /\ Fails
  /\ End(w)
  /\ UNCHANGED <<index, rec, own, stored, pending, away>>

\* create_file_streaming and create_folder, up to the answer of the upload: the
\* reference of the folder must be at hand.
UploadNew(w) ==
  LET d == job[w].parent IN
  /\ AtPc(w, "upload") /\ job[w].kind \in {"save", "mkdir"}
  /\ IF d \in Dirs
     THEN /\ Store(Under([NoEntry EXCEPT !.folder = job[w].kind = "mkdir",
                            !.name = IF job[w].kind = "save" THEN FreeName(d, job[w].name)
                                     ELSE job[w].name], d))
          /\ job' = [job EXCEPT ![w].pc = "ingest", ![w].id = New]
     ELSE End(w) /\ UNCHANGED <<rec, own, stored>>
  /\ UNCHANGED <<index, pending, away, faults>>

\* ingest_record
IngestNew(w) ==
  /\ AtPc(w, "ingest") /\ job[w].kind \in {"save", "mkdir"}
  /\ index' = InsertEntry(index, job[w].id, rec[job[w].id])
  /\ IF job[w].kind = "save" THEN GoTo(w, "repoint") ELSE End(w)
  /\ UNCHANGED <<rec, own, stored, pending, away, faults>>

\* repoint_ino_to: the file is not pending any more.
Saved(w) ==
  /\ AtPc(w, "repoint")
  /\ pending' = pending \ {<<job[w].parent, job[w].name>>}
  /\ End(w)
  /\ UNCHANGED <<index, rec, own, stored, away, faults>>
-----------------------------------------------------------------------------
(* What a worker does: deletes and moves.                                  *)

\* delete_one, answered by the server, and delete_replaced, which hides the
\* record until the server has deleted it.
Drop(id) == index' = RemoveEntry(index, id) /\ stored' = stored \ {id}

Delete(w) ==
  /\ AtPc(w, "delete")
  /\ \/ Drop(job[w].id) /\ UNCHANGED faults
     \/ Fails /\ UNCHANGED <<index, stored>>
  /\ End(w)
  /\ UNCHANGED <<rec, own, pending, away>>

Top(w)       == Last(job[w].stack)
SetTop(w, f) == [job[w].stack EXCEPT ![Len(job[w].stack)] = f]

\* rename_or_move, up to the answer of the upload: a copy with the same node
\* reference.  It is given up if the record is gone or the folder is not there.
UploadCopy(w) ==
  LET f == Top(w)
      d == IF f.parent # Stay THEN f.parent
           ELSE IF f.id \in Ids(index) THEN index.placed[f.id] ELSE Unresolved
      moved == [rec[f.id] EXCEPT !.name = f.name]
  IN
  /\ AtPc(w, "upload") /\ job[w].kind = "rename"
  /\ IF /\ f.id \in Ids(index) /\ d # Unresolved
        /\ rec[f.id].folder => MayMoveInto(f.id, d)
        /\ rec[f.id].v2 => d \in Dirs
     THEN /\ Store(IF moved.v2 THEN Under(moved, d) ELSE [moved EXCEPT !.parent = d])
          /\ job' = [job EXCEPT ![w].pc = "ingest", ![w].stack = SetTop(w, [f EXCEPT !.new = New])]
     ELSE End(w) /\ UNCHANGED <<rec, own, stored>>
  /\ UNCHANGED <<index, pending, away, faults>>

IngestCopy(w) ==
  /\ AtPc(w, "ingest") /\ job[w].kind = "rename"
  /\ index' = InsertEntry(index, Top(w).new, rec[Top(w).new])
  /\ GoTo(w, "list")
  /\ UNCHANGED <<rec, own, stored, pending, away, faults>>

\* legacy_children
ListKids(w) ==
  LET kids == {k \in Children(index, Top(w).id) : ~rec[k].v2} IN
  /\ AtPc(w, "list")
  /\ job' = [job EXCEPT ![w].pc = "kids", ![w].stack = SetTop(w, [Top(w) EXCEPT !.kids = kids])]
  /\ UNCHANGED <<index, rec, own, stored, pending, away, faults>>

MoveKid(w, k) ==
  LET f == Top(w) IN
  /\ AtPc(w, "kids") /\ k \in f.kids
  /\ MoveBusy \/ UnsavedIn(k) = {}
  /\ job' = [job EXCEPT ![w].pc = "upload",
               ![w].stack = Append(SetTop(w, [f EXCEPT !.kids = @ \ {k}]),
                                   Frame(k, rec[k].name, f.new))]
  /\ UNCHANGED <<index, rec, own, stored, pending, away, faults>>

\* mutant: the old folder goes before what is left in it.
DropOldFirst(w) ==
  /\ AtPc(w, "list")
  /\ Drop(Top(w).id)
  /\ job' = [job EXCEPT ![w].pc = "replace"]
  /\ UNCHANGED <<rec, own, pending, away, faults>>

DropOld(w) ==
  /\ AtPc(w, "kids") /\ Top(w).kids = {}
  /\ Drop(Top(w).id)
  /\ job' = [job EXCEPT ![w].stack = Front(@),
                        ![w].pc = IF Len(job[w].stack) = 1 THEN "replace" ELSE "kids"]
  /\ UNCHANGED <<rec, own, pending, away, faults>>

\* The entry that had the new name; it stays if it cannot be deleted.
Replace(w) ==
  LET v == job[w].victim IN
  /\ AtPc(w, "replace")
  /\ \/ v # None /\ Drop(v) /\ UNCHANGED faults
     \/ v # None /\ Fails /\ UNCHANGED <<index, stored>>
     \/ v = None /\ UNCHANGED <<index, stored, faults>>
  /\ End(w)
  /\ UNCHANGED <<rec, own, pending, away>>
-----------------------------------------------------------------------------
(* Another client, and the syncs that show what it did.                    *)

StoreElsewhere(entry) ==
  /\ New <= MaxId
  /\ rec' = [rec EXCEPT ![New] = [entry EXCEPT !.ref = IF @ = 0 THEN New ELSE @]]
  /\ stored' = stored \cup {New}
  /\ UNCHANGED <<index, own, pending, job, faults>>

CreateElsewhere(n) ==
  /\ "create" \in Elsewhere
  /\ StoreElsewhere([NoEntry EXCEPT !.name = n])
  /\ UNCHANGED away

\* The other client moves the entries of the old format in a folder before the
\* folder.
NoOldIn(id) == ~\E k \in stored : ~rec[k].v2 /\ rec[k].parent = id

\* A new name; and, for a folder of the old format, a folder of the new format
\* made from it.  The old record is deleted next.
RenameElsewhere(id, n) ==
  /\ "rename" \in Elsewhere /\ away = None /\ id \in stored /\ NoOldIn(id)
  /\ StoreElsewhere([rec[id] EXCEPT !.name = n])
  /\ away' = id

UpgradeElsewhere(id) ==
  /\ "upgrade" \in Elsewhere /\ away = None /\ id \in stored
  /\ rec[id].folder /\ ~rec[id].v2 /\ rec[id].parent = Root
  /\ NoOldIn(id)
  /\ StoreElsewhere([rec[id] EXCEPT !.v2 = TRUE, !.ref = 0, !.from = rec[id].ref])
  /\ away' = id

DeleteElsewhere(id) ==
  /\ id = away /\ id # None
  /\ away' = None
  /\ stored' = stored \ {id}
  /\ UNCHANGED <<index, rec, own, pending, job, faults>>

\* The index loses the entries that the server has lost and gains those it has;
\* both lists come in no order.  A listing that ends before the server changes
\* again shows a part of the news; what is gone was missing from two listings,
\* the second of which shows whatever the server has by then.
Sync(gone, fresh) ==
  /\ MoveBusy \/ \A k \in DOMAIN gone : UnsavedIn(gone[k]) = {}
  /\ index' = FoldLeft(LAMBDA ix, id : InsertEntry(ix, id, rec[id]),
                       FoldLeft(LAMBDA ix, id : RemoveEntry(ix, id), index, gone), fresh)
  /\ UNCHANGED <<rec, own, stored, pending, job, away, faults>>

SyncSome ==
  LET lost == Ids(index) \ stored  news == stored \ Ids(index) IN
  \E gone \in {{}, lost}, fresh \in SUBSET news :
    /\ gone \cup fresh # {}
    /\ gone # {} => fresh = news
    /\ \E g \in SetToSeqs(gone), f \in SetToSeqs(fresh) : Sync(g, f)
-----------------------------------------------------------------------------
WorkStep(w) ==
  \/ UploadNew(w) \/ UploadFails(w) \/ IngestNew(w) \/ Saved(w) \/ Delete(w)
  \/ UploadCopy(w) \/ IngestCopy(w) \/ ListKids(w) \/ DropOld(w) \/ Replace(w)
  \/ \E k \in AllIds : MoveKid(w, k)

Next ==
  \/ \E d \in Seen, n \in Names : Create(d, n) \/ UnlinkPending(d, n)
  \/ \E d \in Seen, n \in {s[2] : s \in DOMAIN index.slots}, w \in Workers :
       Unlink(d, n, w) \/ Rmdir(d, n, w)
  \/ \E d \in Seen, n \in Names, w \in Workers : Mkdir(d, n, w)
  \/ \E d, d2 \in Seen, n \in {s[2] : s \in DOMAIN index.slots}, w \in Workers :
       \E n2 \in Names \cup {n} : Rename(d, n, d2, n2, w)
  \/ \E p \in pending, w \in Workers : StartSave(p, w)
  \/ \E w \in Workers : WorkStep(w)
  \/ \E n \in Names : CreateElsewhere(n)
  \/ \E id \in AllIds, n \in Names : RenameElsewhere(id, n)
  \/ \E id \in AllIds : UpgradeElsewhere(id) \/ DeleteElsewhere(id)
  \/ SyncSome

Spec == Init /\ [][Next]_vars
-----------------------------------------------------------------------------
(* Properties.                                                             *)

JobOK(j) ==
  /\ j.kind \in {"none", "mkdir", "unlink", "rmdir", "rename", "save"}
  /\ j.pc \in {"none", "upload", "ingest", "list", "kids", "delete", "replace", "repoint"}
  /\ j.parent \in AllIds \cup {Root} /\ j.id \in AllIds \cup {None} /\ j.victim \in AllIds \cup {None}
  /\ \A k \in DOMAIN j.stack : j.stack[k].id \in AllIds /\ j.stack[k].kids \subseteq AllIds

\* The variables have their types: what the index, the server and the jobs hold
\* are records that were made, and the index is about entries it has.
TypeOK ==
  /\ own \cup stored \cup Ids(index) \subseteq 1 .. Made
  /\ \A id \in 1 .. Made : rec[id] \in EntryOf(AllIds, Seq(Int))
  /\ DOMAIN index.placed = Ids(index) /\ DOMAIN index.display \subseteq Ids(index)
  /\ \A p \in pending : p[1] \in AllIds \cup {Root}
  /\ \A w \in Workers : JobOK(job[w])
  /\ away \in AllIds \cup {None} /\ faults \in 0 .. MaxFaults

\* Every entry is found under the name it is shown with and under no other, so no
\* two siblings share a name, and the count of aliases that lets detach skip its
\* work is right (place_name, compact, set_alias).
ShownIsFound ==
  /\ \A id \in Ids(index) : FindChild(index, index.placed[id], Shown(index, id)) = id
  /\ \A s \in DOMAIN index.slots :
       LET id == index.slots[s] IN s = <<index.placed[id], Shown(index, id)>>
  /\ \A pk \in DOMAIN index.aliased :
       index.aliased[pk] = Cardinality({id \in Children(index, pk) : IsAlias(index, id)})

\* A name that an entry of a folder was saved under leads to an entry that was
\* saved under it, never to the alias of another and never to nothing (place_name
\* puts an alias out of the way; detach hands a name on).
BaseIsHeld ==
  \A id \in Ids(index) :
    LET holder == FindChild(index, index.placed[id], index.entries[id].name) IN
    holder # None /\ index.entries[holder].name = index.entries[id].name

\* Whatever order folders and their entries come, move and go in, every entry is
\* in the folder that resolve gives for the index as it is now
\* (reattach_dependents).
PlacedIsResolved == \A id \in Ids(index) : index.placed[id] = Resolve(index, id)

\* What this client made or found stays in the tree: no removal of a folder and no
\* move, finished, interrupted by a failure or under way, leaves an entry where no
\* path from the top leads to (rmdir, rename, rename_or_move).  Another client can
\* break this, and does in three ways: it adds a folder to one that is being
\* removed here, and entries are made in it; it replaces a folder that holds an
\* entry of the old format, which has only its folder's id to be found by; it
\* moves a folder, and the copy, empty while the old one is shown, is removed here.
\* Nor is it so of every vault: a move that failed leaves two copies of a folder with
\* one node reference, and rename_or_move, which moves no folder into itself, looks
\* below the copy that is moved only (MCFolders!NestedOnly).
ReplacedElsewhere   == {id \in (1 .. Made) \ own : rec[id].folder}
EverythingReachable ==
  \A id \in own \cap Ids(index) :
    \/ id \in Below(index, {Root})
    \/ id \in Below(index, Ids(index) \ own)
    \/ ~rec[id].v2 /\ ReplacedElsewhere # {}
    \/ ~(ReplacedElsewhere \subseteq stored)


\* A new file that is not saved yet has a folder to be saved in
\* (create_file_streaming fails without it at every attempt).
UnsavedHasFolder == \A p \in pending : p[1] \in Dirs

\* Of what a sync changes, every name in a folder that leads elsewhere than before is
\* in the report the kernel is told from, also where only a sibling came or went and
\* an alias changed with it (sync, which compares two snapshots under one lock).
\* Only a sync changes the index alone.  The jobs of this client compare nothing:
\* of what they change beside their own names the kernel learns when its entries
\* time out.
SyncReportsChanges ==
  [][UNCHANGED <<rec, own, stored, pending, job, away, faults>> =>
       \A s \in DOMAIN index.slots \cup DOMAIN index'.slots :
         \/ s[1] = Unresolved
         \/ FindChild(index, s[1], s[2]) = FindChild(index', s[1], s[2])
         \/ s \in TouchedBetween(index, index')]_vars
=============================================================================
