----------------------------- MODULE VaultSync ------------------------------
(***************************************************************************)
(* How a mounted vault (lethean_fuse/src/vault.rs) keeps its index in step *)
(* with the records on the server, while jobs of this mount and other      *)
(* clients add and remove records.                                         *)
(*                                                                         *)
(* Threads: the sync thread lists the records page by page, compares them  *)
(* with the index, changes the index and then cleans leftovers; a thread   *)
(* started with the mount cleans leftovers once; a thread deletes replaced *)
(* records in the background; the jobs save, rename, create and delete.    *)
(* No lock is held over a call to the server, and a call and the use of    *)
(* its answer are separate steps.                                          *)
(*                                                                         *)
(* A record never changes once it is stored.  Folders, records of the old  *)
(* format and the content caches are left out; a mount defers its deletes. *)
(***************************************************************************)
EXTENDS Heal, Sequences, SequencesExt, Functions

CONSTANTS
  Ids,        \* bound: identifiers of the records ever stored
  Worlds,     \* the vaults a mount may find: [rec, store]
  Jobs,       \* worker threads that run jobs
  JobKinds,   \* what jobs do: "save", "rename", "create", "delete"
  Healers,    \* the threads that clean: "mount", once, and "round", after a sync
  Elsewhere,  \* what other clients do: the above and "copy"
  PageSize,   \* PAGE_SIZE
  Attempts,   \* DEFERRED_DELETE_ATTEMPTS
  HashBudget, \* HEAL_HASH_BUDGET, in files
  Contents,   \* what a file may hold
  MaxJobs,    \* bound: jobs
  MaxMoves,   \* bound: steps of other clients
  MaxFaults   \* bound: calls that fail or whose answer is lost

ASSUME SyncAssumption ==
  /\ Ids \subseteq Nat \ {0} /\ IsFiniteSet(Ids)
  /\ {PageSize, Attempts} \subseteq Nat \ {0}
  /\ {HashBudget, MaxJobs, MaxMoves, MaxFaults} \subseteq Nat
  /\ Healers \subseteq {"mount", "round"}
  /\ JobKinds \subseteq {"save", "rename", "create", "delete"}
  /\ Elsewhere \subseteq {"save", "rename", "create", "delete", "copy"}

\* The server has a record once, under its identifier.
ASSUME WorldsAssumption ==
  \A w \in Worlds :
    /\ DOMAIN w.rec \subseteq Ids
    /\ w.store \in Seq(DOMAIN w.rec) /\ IsInjective(w.store)

VARIABLES
  rec,     \* the records ever stored, as items of Heal.tla with name and content
  store,   \* the server: the records it has, newest first
  index,   \* the records the index shows
  touched, \* Journal: records touched since the running sync began
  hidden,  \* Journal: replaced records that are not to be listed again
  stale,   \* HealState: the leftovers, each with its successor
  keep,    \* HealState: leftovers that are to be kept after all
  hashed,  \* HealState: records whose content has been hashed
  queue,   \* DeleteQueue: records to delete, each with the attempts made
  worker,  \* what the thread that deletes them does
  sync,    \* what the sync thread does
  heal,    \* what each cleaning thread does
  job,     \* what each job does
  budget,  \* jobs, moves, faults and hashes still to come
  retired  \* history: what this mount has finished removing from its index

server  == <<rec, store>>
journal == <<touched, hidden>>
leftover == <<stale, keep, hashed>>
deletes == <<queue, worker>>
vars == <<server, index, journal, leftover, deletes, sync, heal, job, budget, retired>>

Stored  == ToSet(store)
Unused  == Ids \ DOMAIN rec

NoPages == [p \in {} |-> {}]
NoSync  == [pc |-> "idle", first |-> {}, left |-> {}, page |-> NoPages,
            listed |-> {}, news |-> {}, gone |-> {}, fresh |-> {}]
NoHeal  == [pc |-> "idle", todo |-> NoPages, verified |-> {}, id |-> None,
            groups |-> {}, line |-> <<>>, read |-> <<>>]
NoJob   == [pc |-> "idle", kind |-> "none", old |-> None, new |-> None]
NoWork  == [pc |-> "off", id |-> None, tries |-> 0]

-----------------------------------------------------------------------------
(* Records, the server and the journal *)

File(i, from, name, content) ==
  [ref |-> i, from |-> from, rev |-> 0, folder |-> FALSE, movable |-> FALSE, print |-> i,
   name |-> name, content |-> content]

\* What creating a file, saving over b, renaming b or storing the upload of b
\* a second time puts on the server under the identifier i.
NewRecords(kind, b, i) ==
  CASE kind = "create" -> {File(i, None, "new", c) : c \in Contents}
    [] kind = "save"   -> {File(i, rec[b].ref, rec[b].name, c) : c \in Contents}
    [] kind = "rename" -> {[rec[b] EXCEPT !.rev = @ + 1, !.print = i, !.name = "renamed"]}
    [] kind = "copy"   -> {rec[b]}

Upload(i, r) ==
  /\ rec' = [j \in DOMAIN rec \cup {i} |-> IF j = i THEN r ELSE rec[j]]
  /\ store' = <<i>> \o store

Without(i) == RemoveFirst(store, i)

\* DELETE /files/{id} as a client sees it: done, or not there any more.
DeleteAnswered(i) ==
  /\ store' = Without(i)
  /\ UNCHANGED <<rec, budget>>

\* The call fails; the server may have carried it out all the same.
DeleteFailed(i) ==
  /\ budget.faults > 0
  /\ budget' = [budget EXCEPT !.faults = @ - 1]
  /\ store' \in {store, Without(i)}
  /\ UNCHANGED rec

\* Journal::touch(). Only whether an entry is younger than the start of the
\* running sync is ever asked.
Touch(i) == touched' = IF sync.pc \in {"idle", "clean"} THEN {} ELSE touched \cup {i}

\* apply_heal() on the index it is given: copies leave the index at once, other
\* leftovers only when they are removed from the server.
ApplyHeal(shown) ==
  \E plan \in {Plan([i \in shown \ keep |-> rec[i]])} :
    LET new == DOMAIN plan \ DOMAIN stale
    IN  /\ index' = shown \ {i \in new : plan[i].identical}
        /\ stale' = [i \in DOMAIN stale \cup new |->
                       IF i \in new THEN [succ |-> plan[i].succ, hidden |-> plan[i].identical]
                       ELSE stale[i]]

-----------------------------------------------------------------------------
(* refresh_all(), when the vault is mounted *)

Init ==
  \E w \in Worlds :
    /\ rec = w.rec /\ store = w.store
    /\ LET plan == Plan(w.rec)
       IN  /\ index = ToSet(w.store) \ {i \in DOMAIN plan : plan[i].identical}
           /\ stale = [i \in DOMAIN plan |-> [succ |-> plan[i].succ, hidden |-> plan[i].identical]]
    /\ touched = {} /\ hidden = {} /\ keep = {} /\ hashed = {} /\ retired = {}
    /\ queue = <<>> /\ worker = NoWork
    /\ sync = NoSync
    /\ heal = [h \in Healers |-> IF h = "mount" THEN [NoHeal EXCEPT !.pc = "begin"] ELSE NoHeal]
    /\ job = [j \in Jobs |-> NoJob]
    /\ budget = [jobs |-> MaxJobs, moves |-> MaxMoves, faults |-> MaxFaults, hash |-> HashBudget]

-----------------------------------------------------------------------------
(* sync() *)

\* Only pages that may hold a record; the others are always answered empty.
Pages(from, n) == {p \in from .. (from + n - 1) : p * PageSize < Cardinality(Ids)}

\* As many pages as the index would fill, with room for one record more.
FirstPages ==
  LET hint == Cardinality(index)
  IN  Pages(0, IF hint = 0 THEN 1 ELSE (hint + PageSize) \div PageSize)

StartSync ==
  /\ sync.pc = "idle"
  /\ touched' = {}
  /\ sync' = [NoSync EXCEPT !.pc = "list", !.first = FirstPages, !.left = FirstPages]
  /\ UNCHANGED <<server, index, hidden, leftover, deletes, heal, job, budget, retired>>

Listing == sync.pc \in {"list", "again"}

PageOf(p) == SubSeq(store, p * PageSize + 1, Min({Len(store), (p + 1) * PageSize}))

\* A page is answered; which of its records are news is found out later.
AnswerPage(p) ==
  /\ Listing /\ p \in sync.left
  /\ sync' = [sync EXCEPT !.left = @ \ {p},
                          !.page = [q \in DOMAIN sync.page \cup {p} |->
                            IF q = p THEN [ids |-> ToSet(PageOf(p)), read |-> FALSE, news |-> {}]
                            ELSE sync.page[q]]]
  /\ UNCHANGED <<server, index, journal, leftover, deletes, heal, job, budget, retired>>

ReadPage(p) ==
  /\ Listing /\ p \in DOMAIN sync.page /\ ~sync.page[p].read
  /\ sync' = [sync EXCEPT !.page[p].read = TRUE, !.page[p].news = sync.page[p].ids \ index]
  /\ UNCHANGED <<server, index, journal, leftover, deletes, heal, job, budget, retired>>

\* One page fails for good, and with it the whole sync.
FailPage ==
  /\ Listing /\ sync.left # {} /\ budget.faults > 0
  /\ budget' = [budget EXCEPT !.faults = @ - 1]
  /\ sync' = NoSync /\ touched' = {}
  /\ UNCHANGED <<server, index, hidden, leftover, deletes, heal, job, retired>>

PagesRead == Listing /\ sync.left = {} /\ \A p \in DOMAIN sync.page : sync.page[p].read

ShortPage == \E p \in DOMAIN sync.page : Cardinality(sync.page[p].ids) < PageSize

NextPages == Pages(Cardinality(DOMAIN sync.page), Cardinality(Ids))

\* All pages asked for were full: ask for the next ones.
MorePages ==
  /\ PagesRead /\ ~ShortPage /\ NextPages # {}
  /\ sync' = [sync EXCEPT !.left = NextPages]
  /\ UNCHANGED <<server, index, journal, leftover, deletes, heal, job, budget, retired>>

ListingDone == PagesRead /\ (ShortPage \/ NextPages = {})

ListedOn(page) == UNION {page[p].ids : p \in DOMAIN page}

\* A record that two pages show is judged by the first of them.
News(page) ==
  {i \in ListedOn(page) : i \in page[Min({p \in DOMAIN page : i \in page[p].ids})].news}

\* Mutant: one listing is enough to forget a record.
CompareIndexOnce ==
  /\ ListingDone /\ sync.pc = "list"
  /\ LET listed == ListedOn(sync.page)
     IN  sync' = [NoSync EXCEPT !.pc = "classify", !.listed = listed,
                                !.news = News(sync.page), !.gone = (index \ listed) \ touched]
  /\ UNCHANGED <<server, index, journal, leftover, deletes, heal, job, budget, retired>>

\* Records that the index has and the listing has not are looked for again.
CompareIndex ==
  /\ ListingDone /\ sync.pc = "list"
  /\ LET listed == ListedOn(sync.page)
         gone   == (index \ listed) \ touched
     IN  sync' = [NoSync EXCEPT !.pc = IF gone = {} THEN "classify" ELSE "again",
                                !.left = IF gone = {} THEN {} ELSE sync.first,
                                !.listed = listed, !.news = News(sync.page), !.gone = gone]
  /\ UNCHANGED <<server, index, journal, leftover, deletes, heal, job, budget, retired>>

\* Mutant: the second listing counts for what is new and not for what is gone.
ConfirmNothing ==
  /\ ListingDone /\ sync.pc = "again"
  /\ LET again == ListedOn(sync.page)
     IN  sync' = [sync EXCEPT !.pc = "classify", !.first = {}, !.page = NoPages,
                              !.gone = {},
                              !.listed = @ \cup again,
                              !.news = @ \cup News(sync.page)]
  /\ UNCHANGED <<server, index, journal, leftover, deletes, heal, job, budget, retired>>

ConfirmGone ==
  /\ ListingDone /\ sync.pc = "again"
  /\ LET again == ListedOn(sync.page)
     IN  sync' = [sync EXCEPT !.pc = "classify", !.first = {}, !.page = NoPages,
                              !.gone = @ \ again,
                              !.listed = @ \cup again,
                              !.news = @ \cup News(sync.page)]
  /\ UNCHANGED <<server, index, journal, leftover, deletes, heal, job, budget, retired>>

Cleaning == IF "round" \in Healers THEN "clean" ELSE "idle"

Classify ==
  /\ sync.pc = "classify"
  /\ stale' = Restrict(stale, DOMAIN stale \cap sync.listed)
  /\ keep' = keep \cap sync.listed
  /\ LET out   == {i \in DOMAIN stale' : stale'[i].hidden}
         fresh == ((sync.listed \cap sync.news) \ index) \ (out \cup hidden \cup touched)
         done  == sync.gone = {} /\ fresh = {}
     IN  /\ sync' = IF done THEN [NoSync EXCEPT !.pc = Cleaning]
                            ELSE [sync EXCEPT !.pc = "write", !.fresh = fresh]
         /\ touched' = IF done THEN {} ELSE touched
         /\ heal' = IF done /\ "round" \in Healers
                    THEN [heal EXCEPT !["round"] = [NoHeal EXCEPT !.pc = "begin"]] ELSE heal
  /\ UNCHANGED <<server, index, hidden, hashed, deletes, job, budget, retired>>

\* Under the lock of the index, so what was touched since is left alone.
WriteIndex ==
  /\ sync.pc = "write"
  /\ ApplyHeal((index \ (sync.gone \ touched)) \cup (sync.fresh \ (touched \cup hidden)))
  /\ sync' = [NoSync EXCEPT !.pc = Cleaning] /\ touched' = {}
  /\ heal' = IF "round" \in Healers
             THEN [heal EXCEPT !["round"] = [NoHeal EXCEPT !.pc = "begin"]] ELSE heal
  /\ UNCHANGED <<server, hidden, keep, hashed, deletes, job, budget, retired>>

-----------------------------------------------------------------------------
(* heal_pending() *)

\* keep_after_all(): a copy that had left the index is shown again.
KeepAfterAll(i) ==
  /\ stale' = Restrict(stale, DOMAIN stale \ {i})
  /\ keep' = IF i \in DOMAIN stale THEN keep \cup {i} ELSE keep
  /\ index' = IF i \in DOMAIN stale /\ stale[i].hidden THEN index \cup {i} ELSE index

HealAt(h, pc) == heal[h].pc = pc

BeginHeal(h) ==
  /\ HealAt(h, "begin")
  /\ heal' = [heal EXCEPT ![h] = [NoHeal EXCEPT !.pc = "pick", !.todo = stale]]
  /\ UNCHANGED <<server, index, journal, leftover, deletes, sync, job, budget, retired>>

Rest(h, i) == Restrict(heal[h].todo, DOMAIN heal[h].todo \ {i})

\* The next leftover, in no particular order. A successor read back once in
\* this round is not read again; one that the index has lost is not trusted.
PickLeftover(h) ==
  /\ HealAt(h, "pick")
  /\ \E i \in DOMAIN heal[h].todo :
       LET succ == heal[h].todo[i].succ
       IN  IF succ \in heal[h].verified \cup index
           THEN /\ heal' = [heal EXCEPT ![h].id = i,
                                        ![h].pc = IF succ \in heal[h].verified
                                                  THEN "delete" ELSE "verify"]
                /\ UNCHANGED <<index, stale, keep>>
           ELSE /\ KeepAfterAll(i)
                /\ heal' = [heal EXCEPT ![h].todo = Rest(h, i)]
  /\ UNCHANGED <<server, journal, hashed, deletes, sync, job, budget, retired>>

Readable(i) == i \in index /\ i \in Stored /\ rec[i].content # "damaged"

\* Mutant: a successor that the index shows is taken for readable.
VerifyNothing(h) ==
  /\ HealAt(h, "verify")
  /\ heal' = [heal EXCEPT ![h].verified = @ \cup {heal[h].todo[heal[h].id].succ}, ![h].pc = "delete"]
  /\ UNCHANGED <<server, index, journal, leftover, deletes, sync, job, budget, retired>>

\* verify_record() of the successor: the whole record is read and decrypted.
VerifySuccessor(h) ==
  LET i    == heal[h].id
      succ == heal[h].todo[i].succ
  IN  /\ HealAt(h, "verify")
      /\ IF Readable(succ)
         THEN /\ heal' = [heal EXCEPT ![h].verified = @ \cup {succ}, ![h].pc = "delete"]
              /\ UNCHANGED <<index, stale, keep>>
         ELSE /\ KeepAfterAll(i)
              /\ heal' = [heal EXCEPT ![h].todo = Rest(h, i), ![h].id = None, ![h].pc = "pick"]
      /\ UNCHANGED <<server, journal, hashed, deletes, sync, job, budget, retired>>

\* A failure that may pass leaves the leftover to a later round.
VerifyLater(h) ==
  /\ HealAt(h, "verify") /\ budget.faults > 0
  /\ budget' = [budget EXCEPT !.faults = @ - 1]
  /\ heal' = [heal EXCEPT ![h].todo = Rest(h, heal[h].id), ![h].id = None, ![h].pc = "pick"]
  /\ UNCHANGED <<server, index, journal, leftover, deletes, sync, job, retired>>

DeleteLeftover(h) ==
  LET i == heal[h].id
  IN  /\ HealAt(h, "delete")
      /\ \/ /\ DeleteAnswered(i)
            /\ heal' = [heal EXCEPT ![h].pc = IF heal[h].todo[i].hidden THEN "touch" ELSE "drop"]
         \/ /\ DeleteFailed(i)
            /\ heal' = [heal EXCEPT ![h].todo = Rest(h, i), ![h].id = None, ![h].pc = "pick"]
      /\ UNCHANGED <<index, journal, leftover, deletes, sync, job, retired>>

DropLeftover(h) ==
  /\ HealAt(h, "drop")
  /\ index' = index \ {heal[h].id}
  /\ heal' = [heal EXCEPT ![h].pc = "touch"]
  /\ UNCHANGED <<server, journal, leftover, deletes, sync, job, budget, retired>>

ForgetLeftover(h) ==
  LET i == heal[h].id
  IN  /\ HealAt(h, "touch")
      /\ Touch(i)
      /\ stale' = Restrict(stale, DOMAIN stale \ {i})
      /\ heal' = [heal EXCEPT ![h].todo = Rest(h, i), ![h].id = None, ![h].pc = "pick"]
      /\ UNCHANGED <<server, index, hidden, keep, hashed, deletes, sync, job, budget, retired>>

\* remove_identical_same_name_copies(): files with one name and size.
GroupNames(h) ==
  /\ HealAt(h, "pick") /\ heal[h].todo = NoPages
  /\ LET group(i) == {j \in index : rec[j].name = rec[i].name}
     IN  heal' = [heal EXCEPT ![h] = [NoHeal EXCEPT
                    !.pc = "group", !.groups = {g \in {group(i) : i \in index} : Cardinality(g) > 1}]]
  /\ UNCHANGED <<server, index, journal, leftover, deletes, sync, job, budget, retired>>

\* The files of a set in the order of their identifiers.
Sorted(S) == {s \in [1 .. Cardinality(S) -> S] : \A m, n \in DOMAIN s : m < n => s[m] < s[n]}

NextGroup(h) ==
  /\ HealAt(h, "group")
  /\ \E g \in heal[h].groups : \E line \in Sorted(g) :
       heal' = [heal EXCEPT ![h].groups = @ \ {g}, ![h].pc = "hash", ![h].line = line]
  /\ UNCHANGED <<server, index, journal, leftover, deletes, sync, job, budget, retired>>

EndHeal(h) ==
  /\ HealAt(h, "group") /\ heal[h].groups = {}
  /\ heal' = [heal EXCEPT ![h] = NoHeal]
  /\ sync' = IF h = "round" THEN NoSync ELSE sync
  /\ UNCHANGED <<server, index, journal, leftover, deletes, job, budget, retired>>

\* The hash of the next file of the group: known from an earlier round, or the
\* file is read as long as the budget lasts; what cannot be read is passed over.
HashNext(h) ==
  LET i == Head(heal[h].line)
      done(ok) == heal' = [heal EXCEPT ![h].line = Tail(@),
                                       ![h].read = IF ok THEN Append(@, i) ELSE @]
  IN  /\ HealAt(h, "hash") /\ heal[h].line # <<>>
      /\ IF i \in hashed \/ budget.hash = 0
         THEN done(i \in hashed) /\ UNCHANGED <<hashed, budget>>
         ELSE \E ok \in {Readable(i)} \cup {b \in {FALSE} : budget.faults > 0} :
                /\ done(ok)
                /\ hashed' = IF ok THEN hashed \cup {i} ELSE hashed
                /\ budget' = [budget EXCEPT !.hash = @ - 1,
                                            !.faults = IF ok = Readable(i) THEN @ ELSE @ - 1]
      /\ UNCHANGED <<server, index, journal, stale, keep, deletes, sync, job, retired>>

SameContent(s, n) == \E k \in 1 .. n - 1 : rec[s[k]].content = rec[s[n]].content

\* All but the first of the files with one content go.
ChooseCopies(h) ==
  /\ HealAt(h, "hash") /\ heal[h].line = <<>>
  /\ LET read   == heal[h].read
         copies == {read[n] : n \in {k \in DOMAIN read : SameContent(read, k)}}
     IN  \E line \in Sorted(copies) :
           heal' = [heal EXCEPT ![h].line = line, ![h].read = <<>>,
                                ![h].pc = IF copies = {} THEN "group" ELSE "purge"]
  /\ UNCHANGED <<server, index, journal, leftover, deletes, sync, job, budget, retired>>

NextCopy(h) ==
  [heal EXCEPT ![h].line = Tail(@), ![h].pc = IF Len(heal[h].line) = 1 THEN "group" ELSE "purge"]

\* delete_one(): the call, then forget_local() with the index before the journal.
DeleteCopy(h) ==
  /\ HealAt(h, "purge")
  /\ \/ DeleteAnswered(Head(heal[h].line)) /\ heal' = [heal EXCEPT ![h].pc = "dropcopy"]
     \/ DeleteFailed(Head(heal[h].line)) /\ heal' = NextCopy(h)
  /\ UNCHANGED <<index, journal, leftover, deletes, sync, job, retired>>

DropCopy(h) ==
  /\ HealAt(h, "dropcopy")
  /\ index' = index \ {Head(heal[h].line)}
  /\ heal' = [heal EXCEPT ![h].pc = "touchcopy"]
  /\ UNCHANGED <<server, journal, leftover, deletes, sync, job, budget, retired>>

TouchCopy(h) ==
  /\ HealAt(h, "touchcopy")
  /\ Touch(Head(heal[h].line))
  /\ heal' = NextCopy(h)
  /\ UNCHANGED <<server, index, hidden, leftover, deletes, sync, job, budget, retired>>

-----------------------------------------------------------------------------
(* Jobs: create_file_streaming_ext(), replace_content_streaming(),
   rename_or_move(), delete_one() *)

JobAt(j, pc) == job[j].pc = pc

BeginJob(j) ==
  /\ JobAt(j, "idle") /\ budget.jobs > 0
  /\ budget' = [budget EXCEPT !.jobs = @ - 1]
  /\ \E kind \in JobKinds :
       \E old \in IF kind = "create" THEN {None} ELSE index :
         job' = [job EXCEPT ![j] = [pc |-> IF kind = "delete" THEN "delete" ELSE "upload",
                                    kind |-> kind, old |-> old, new |-> None]]
  /\ UNCHANGED <<server, index, journal, leftover, deletes, sync, heal, retired>>

\* The upload is answered, or fails though the server may have the record. A
\* rename needs the stored content of the old record.
UploadNew(j) ==
  /\ JobAt(j, "upload") /\ Unused # {}
  /\ job[j].kind = "rename" => job[j].old \in Stored
  /\ \E i \in Unused : \E r \in NewRecords(job[j].kind, job[j].old, i) :
       /\ Upload(i, r)
       /\ \/ /\ job' = [job EXCEPT ![j].new = i, ![j].pc = "touch"]
             /\ UNCHANGED budget
          \/ /\ budget.faults > 0
             /\ budget' = [budget EXCEPT !.faults = @ - 1]
             /\ job' = [job EXCEPT ![j] = NoJob]
  /\ UNCHANGED <<index, journal, leftover, deletes, sync, heal, retired>>

\* Mutant: a job whose upload failed goes on without a record.
UploadIgnored(j) ==
  /\ JobAt(j, "upload") /\ budget.faults > 0
  /\ job' = [job EXCEPT ![j].pc = "touch"]
  /\ budget' = [budget EXCEPT !.faults = @ - 1]
  /\ UNCHANGED <<server, index, journal, leftover, deletes, sync, heal, retired>>

UploadFails(j) ==
  /\ JobAt(j, "upload")
  /\ job' = [job EXCEPT ![j] = NoJob]
  /\ \/ job[j].kind = "rename" /\ job[j].old \notin Stored /\ UNCHANGED budget
     \/ budget.faults > 0 /\ budget' = [budget EXCEPT !.faults = @ - 1]
     \/ Unused = {} /\ UNCHANGED budget
  /\ UNCHANGED <<server, index, journal, leftover, deletes, sync, heal, retired>>

\* ingest_record(): the journal before the index.
TouchNew(j) ==
  /\ JobAt(j, "touch")
  /\ Touch(job[j].new)
  /\ job' = [job EXCEPT ![j].pc = "insert"]
  /\ UNCHANGED <<server, index, hidden, leftover, deletes, sync, heal, budget, retired>>

InsertNew(j) ==
  /\ JobAt(j, "insert")
  /\ index' = index \cup {job[j].new}
  /\ job' = [job EXCEPT ![j].pc = "get"]
  /\ UNCHANGED <<server, journal, leftover, deletes, sync, heal, budget, retired>>

\* "upload succeeded but the new entry vanished": the old one is left alone.
GetNew(j) ==
  /\ JobAt(j, "get")
  /\ job' = [job EXCEPT ![j] = IF job[j].new \in index /\ job[j].kind # "create"
                               THEN [@ EXCEPT !.pc = "hide"] ELSE NoJob]
  /\ UNCHANGED <<server, index, journal, leftover, deletes, sync, heal, budget, retired>>

\* delete_replaced(), with deferred deletes: hidden first, then forget_local().
HideOld(j) ==
  /\ JobAt(j, "hide")
  /\ hidden' = hidden \cup {job[j].old}
  /\ retired' = retired \cup {job[j].old}
  /\ job' = [job EXCEPT ![j].pc = "drop"]
  /\ UNCHANGED <<server, index, touched, leftover, deletes, sync, heal, budget>>

DeleteNow(j) ==
  /\ JobAt(j, "delete")
  /\ \/ DeleteAnswered(job[j].old) /\ job' = [job EXCEPT ![j].pc = "drop"]
     \/ DeleteFailed(job[j].old) /\ job' = [job EXCEPT ![j] = NoJob]
  /\ UNCHANGED <<index, journal, leftover, deletes, sync, heal, retired>>

DropOld(j) ==
  /\ JobAt(j, "drop")
  /\ index' = index \ {job[j].old}
  /\ job' = [job EXCEPT ![j].pc = "forget"]
  /\ UNCHANGED <<server, journal, leftover, deletes, sync, heal, budget, retired>>

\* A job that replaced the record leaves it to the deleting thread, which is
\* started if it is not there.
ForgetOld(j) ==
  LET i == job[j].old
  IN  /\ JobAt(j, "forget")
      /\ Touch(i)
      /\ IF job[j].kind = "delete"
         THEN UNCHANGED deletes
         ELSE /\ queue' = Append(queue, [id |-> i, tries |-> 0])
              /\ worker' = IF worker.pc = "off" THEN [NoWork EXCEPT !.pc = "next"] ELSE worker
      /\ retired' = retired \cup {i}
      /\ job' = [job EXCEPT ![j] = NoJob]
      /\ UNCHANGED <<server, index, hidden, leftover, sync, heal, budget>>

-----------------------------------------------------------------------------
(* DeleteQueue::work() *)

NextDelete ==
  /\ worker.pc = "next"
  /\ IF queue = <<>>
     THEN worker' = NoWork /\ UNCHANGED queue
     ELSE /\ worker' = [pc |-> "call", id |-> Head(queue).id, tries |-> Head(queue).tries]
          /\ queue' = Tail(queue)
  /\ UNCHANGED <<server, index, journal, leftover, sync, heal, job, budget, retired>>

\* Mutant: a delete that failed is not tried again.
CallDeleteOnce ==
  /\ worker.pc = "call"
  /\ \/ DeleteAnswered(worker.id) /\ worker' = [worker EXCEPT !.pc = "touch"]
     \/ DeleteFailed(worker.id) /\ worker' = [NoWork EXCEPT !.pc = "next"]
  /\ UNCHANGED <<index, journal, leftover, queue, sync, heal, job, retired>>

\* Four failures and the record stays hidden, on the server, for this session.
CallDelete ==
  /\ worker.pc = "call"
  /\ \/ /\ DeleteAnswered(worker.id)
        /\ worker' = [worker EXCEPT !.pc = "touch"]
        /\ UNCHANGED queue
     \/ /\ DeleteFailed(worker.id)
        /\ worker' = [NoWork EXCEPT !.pc = "next"]
        /\ queue' = IF worker.tries + 1 < Attempts
                    THEN Append(queue, [id |-> worker.id, tries |-> worker.tries + 1])
                    ELSE queue
  /\ UNCHANGED <<index, journal, leftover, sync, heal, job, retired>>

\* Mutant: the journal is not told of a deferred delete.
TouchNothing ==
  /\ worker.pc = "touch"
  /\ worker' = [worker EXCEPT !.pc = "unhide"]
  /\ UNCHANGED <<server, index, journal, leftover, queue, sync, heal, job, budget, retired>>

TouchDeleted ==
  /\ worker.pc = "touch"
  /\ Touch(worker.id)
  /\ worker' = [worker EXCEPT !.pc = "unhide"]
  /\ UNCHANGED <<server, index, hidden, leftover, queue, sync, heal, job, budget, retired>>

Unhide ==
  /\ worker.pc = "unhide"
  /\ hidden' = hidden \ {worker.id}
  /\ worker' = [NoWork EXCEPT !.pc = "next"]
  /\ UNCHANGED <<server, index, touched, leftover, queue, sync, heal, job, budget, retired>>

-----------------------------------------------------------------------------
(* Other clients, which may work from an older listing *)

Moved == budget.moves > 0 /\ budget' = [budget EXCEPT !.moves = @ - 1]

AddElsewhere ==
  /\ Moved
  /\ \E kind \in Elsewhere \ {"delete"}, b \in DOMAIN rec, i \in Unused :
       \E r \in NewRecords(kind, b, i) : Upload(i, r)
  /\ UNCHANGED <<index, journal, leftover, deletes, sync, heal, job, retired>>

DeleteElsewhere ==
  /\ "delete" \in Elsewhere /\ Moved
  /\ \E i \in Stored : store' = Without(i)
  /\ UNCHANGED <<rec, index, journal, leftover, deletes, sync, heal, job, retired>>

-----------------------------------------------------------------------------
SyncStep ==
  \/ StartSync \/ MorePages \/ CompareIndex \/ ConfirmGone \/ Classify \/ WriteIndex
  \/ \E p \in 0 .. Cardinality(Ids) : AnswerPage(p) \/ ReadPage(p)

HealStep(h) ==
  \/ BeginHeal(h) \/ PickLeftover(h) \/ VerifySuccessor(h) \/ DeleteLeftover(h)
  \/ DropLeftover(h) \/ ForgetLeftover(h) \/ GroupNames(h) \/ NextGroup(h) \/ EndHeal(h)
  \/ HashNext(h) \/ ChooseCopies(h) \/ DeleteCopy(h) \/ DropCopy(h) \/ TouchCopy(h)

JobStep(j) ==
  \/ UploadNew(j) \/ UploadFails(j) \/ TouchNew(j) \/ InsertNew(j) \/ GetNew(j)
  \/ HideOld(j) \/ DeleteNow(j) \/ DropOld(j) \/ ForgetOld(j)

WorkStep == NextDelete \/ CallDelete \/ TouchDeleted \/ Unhide

\* The sync thread cleans too, when it has synced.
SyncThread == SyncStep \/ \E h \in Healers \cap {"round"} : HealStep(h)

Next ==
  \/ SyncStep \/ FailPage \/ WorkStep
  \/ \E h \in Healers : HealStep(h) \/ VerifyLater(h)
  \/ \E j \in Jobs : BeginJob(j) \/ JobStep(j)
  \/ AddElsewhere \/ DeleteElsewhere

Spec == Init /\ [][Next]_vars

\* Every thread goes on; nobody has to begin a job or to use another client.
FairSpec ==
  Spec /\ WF_vars(SyncThread) /\ WF_vars(WorkStep)
       /\ \A h \in Healers \ {"round"} : WF_vars(HealStep(h))
       /\ \A j \in Jobs : WF_vars(JobStep(j))

-----------------------------------------------------------------------------
(* Properties *)

Partial(S, T) == UNION {[D -> T] : D \in SUBSET S}

\* Every variable has its type.
TypeOK ==
  /\ store \in Seq(Ids) /\ Stored \subseteq DOMAIN rec /\ DOMAIN rec \subseteq Ids
  /\ index \cup touched \cup hidden \cup keep \cup hashed \cup retired \subseteq DOMAIN rec
  /\ stale \in Partial(Ids, [succ : Ids, hidden : BOOLEAN])
  /\ \A n \in DOMAIN queue : queue[n].id \in Ids /\ queue[n].tries < Attempts
  /\ worker.pc \in {"off", "next", "call", "touch", "unhide"}
  /\ sync.pc \in {"idle", "list", "again", "classify", "write", "clean"}
  /\ sync.listed \cup sync.news \cup sync.gone \cup sync.fresh \subseteq Ids
  /\ \A h \in Healers : ToSet(heal[h].line) \cup heal[h].verified \subseteq Ids
  /\ \A j \in Jobs : job[j].old \in Ids \cup {None} /\ job[j].new \in Ids \cup {None}

\* What this mount has replaced or deleted never comes back into its index,
\* neither the record itself nor another copy of it, whatever an older listing,
\* a listing made meanwhile or the cleaning of leftovers says.
OldCopyNeverReappears ==
  [][\A i \in index' \ index : \A r \in retired : rec'[i].print # rec[r].print]_vars

\* A file leaves the index only when the server does not have it any more, when
\* this mount replaces it, or when it is a copy of a file that stays.
OnlyGoneLeaves ==
  [][\A i \in index \ index' :
       \/ i \notin ToSet(store')
       \/ i \in hidden
       \/ i \in DOMAIN stale' /\ stale'[i].hidden]_vars

\* A replaced record that the server still has is on its way to be deleted, or
\* deleting it has failed as often as it is tried.
ReplacedIsDeleted ==
  \A i \in hidden \cap Stored :
    \/ \E n \in DOMAIN queue : queue[n].id = i
    \/ worker.id = i
    \/ \E j \in Jobs : job[j].old = i
    \/ MaxFaults - budget.faults >= Attempts

\* Cleaning never takes the last version that can be read: when it removes a
\* record, the server has a readable copy, rename or later version of it.
Continues(a, b) ==
  rec[b].print = rec[a].print \/ rec[b].ref = rec[a].ref \/ rec[b].from = rec[a].ref
     \/ (rec[b].name = rec[a].name /\ rec[b].content = rec[a].content)

Heirs(i) ==
  LET found[n \in 0 .. Cardinality(Ids)] ==
        IF n = 0
        THEN {i}
        ELSE LET before == found[n - 1]
             IN  before \cup {b \in DOMAIN rec : \E a \in before : Continues(a, b)}
  IN  found[Cardinality(Ids)] \ {i}

CleaningKeepsAVersion ==
  [][\A h \in Healers :
       heal[h].pc \in {"delete", "purge"} /\ heal'[h] # heal[h] =>
         \A i \in Stored \ ToSet(store') :
           \E j \in Heirs(i) \cap ToSet(store') : rec[j].content # "damaged"]_vars

\* Once nobody adds or deletes records any more, the index comes to show what
\* the server stores, but for leftovers and replaced records, and nothing else.
InStep ==
  /\ index \subseteq Stored
  /\ Stored \subseteq index \cup hidden \cup DOMAIN stale

IndexSettles == <>[]InStep
=============================================================================
