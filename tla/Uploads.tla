------------------------------- MODULE Uploads -------------------------------
(***************************************************************************)
(* Uploads: a client that sends files in one request or in parts, gives up *)
(* on answers and tries again (lethean_fuse/src/api.rs: retry::run,        *)
(* upload_stream, upload_in_parts, find_landed_upload), and the server     *)
(* that books the quota, writes blobs, and keeps rows (server/main.py,     *)
(* storage.py), while other requests delete files, wipe the vault or       *)
(* rotate it to a new id.                                                  *)
(*                                                                         *)
(* A request goes on when its client has given up on it.  Requests run on  *)
(* threads; the vault's lock covers the booking of quota and the end of an *)
(* upload in parts, but not the end of one in a single request, a delete,  *)
(* an abort or a wipe.  The database commits are single steps.             *)
(*                                                                         *)
(* A row has the id of the request that made it, and so has a session.     *)
(***************************************************************************)
EXTENDS Integers, Sequences, FiniteSets, FiniteSetsExt, Functions

CONSTANTS
  Uploads,        \* the uploads that the client wants
  Attempts,       \* retry::MAX_ATTEMPTS
  ParallelParts,  \* PARALLEL_PARTS
  MaxSessions,    \* _MAX_ACTIVE_SESSIONS_PER_VAULT
  Worlds          \* the vaults, see world

ASSUME UploadsAssumption ==
  /\ {Attempts, ParallelParts, MaxSessions} \subseteq Nat \ {0}
  /\ \A w \in Worlds : /\ \A u \in Uploads : w.size[u] \in Nat \ {0}
                       /\ {w.parts, w.quota, w.faults} \subseteq Nat
                       /\ w.other \in {"none", "delete", "wipe", "rotate"}

VARIABLES
  world,     \* kind and size of each upload, parts of one in parts, the quota, which other
             \* request comes, and a bound on the faults
  client,    \* client[u]: what the client does for u
  asked,     \* asked[u]: requests made for u
  reqs,      \* requests on the server, by id
  rows,      \* the table of files
  blobs,     \* blobs on disk, by the id of their row
  sessions,  \* the table of upload sessions
  dirs,      \* dirs[s]: the parts that the session's directory has
  reserved,  \* _reserved_bytes of the vault
  lock,      \* the request that holds the vault's lock
  binding,   \* the vault that the access token is bound to
  other,     \* the other request: a delete, a wipe or a rotation
  faults,    \* counter for the bound
  slip, left, torn, gone, unsure, overlapped \* history, for the properties

vars == <<world, client, asked, reqs, rows, blobs, sessions, dirs, reserved, lock, binding,
          other, faults, slip, left, torn, gone, unsure, overlapped>>
disk    == <<blobs, dirs>>
tables  == <<rows, sessions>>
books   == <<reserved, lock>>
history == <<slip, left, torn, gone, unsure, overlapped>>
rest    == <<world, binding, other>>

None == << >>
Parts == 1 .. world.parts
InParts(u) == world.kind[u] = "parts"

NoPart == [pc |-> "todo", req |-> None, tries |-> 0]

Init ==
  /\ world \in Worlds
  /\ client = [u \in Uploads |->
                 [pc   |-> CASE u \notin DOMAIN world.kind -> "failed"
                             [] u \in DOMAIN world.kind /\ InParts(u) -> "start"
                             [] OTHER -> "send",
                  req  |-> None, tries |-> 0, sess |-> None, id |-> None,
                  part |-> [i \in Parts |-> NoPart]]]
  /\ asked    = [u \in Uploads |-> 0]
  /\ reqs     = << >>
  /\ rows     = {}  /\ blobs = {}  /\ sessions = {}  /\ dirs = << >>
  /\ reserved = 0
  /\ lock     = None
  /\ binding  = "old"
  /\ other    = [pc |-> world.other, ids |-> {}, sessions |-> {}]
  /\ faults   = 0
  /\ slip = 0 /\ left = {} /\ torn = {} /\ gone = {}
  /\ unsure = [u \in Uploads |-> 0] /\ overlapped = {}

Fault == faults < world.faults /\ faults' = faults + 1
Calm  == UNCHANGED faults

Ids(rs)   == {r.id : r \in rs}
Bytes(rs) == SumFunction([r \in rs |-> world.size[r.up]])
In(v)     == {r \in rows : r.vault = v}
Alive     == {s \in sessions : ~s.old}
Without(f, x) == Restrict(f, DOMAIN f \ {x})
With(f, x, v) == [y \in DOMAIN f \cup {x} |-> IF y = x THEN v ELSE f[y]]
-----------------------------------------------------------------------------
(* The client.                                                             *)

Let(u, c) == client' = [client EXCEPT ![u] = c]

\* A request to the vault with the old id.  Those that change what is stored need the
\* token: it must be bound to that vault.
Request(u, kind, part) ==
  [kind |-> kind, up |-> u, part |-> part, sess |-> client[u].sess, heard |-> kind # "abort",
   res  |-> IF binding = "old" \/ kind = "abort" THEN "none" ELSE "refused",
   pc   |-> IF binding = "old" \/ kind = "abort" THEN "arrive" ELSE "answered",
   seen |-> {}, usage |-> 0, limit |-> 0]

NextId(u) == <<u, asked[u] + 1>>

Post(u, kind, part) ==
  /\ reqs' = With(reqs, NextId(u), Request(u, kind, part))
  /\ asked' = [asked EXCEPT ![u] = @ + 1]

\* The attempt of a loop of retry::run.
Send(u) ==
  /\ client[u].pc \in {"send", "start", "complete"}
  /\ Post(u, CASE client[u].pc = "send" -> "file" [] OTHER -> client[u].pc, 0)
  /\ Let(u, [client[u] EXCEPT !.pc = "wait", !.req = NextId(u)])
  /\ overlapped' = IF other.pc \in {"move", "rebind"} THEN overlapped \cup {u} ELSE overlapped
  /\ UNCHANGED <<rest, disk, tables, books, faults, slip, left, torn, gone, unsure>>

\* What follows a failure of the last kind of request: an upload in parts is aborted
\* once there is a session.
GivenUp(c) == [c EXCEPT !.req = None, !.pc = IF c.sess = None THEN "failed" ELSE "abort"]

\* A transient error: another attempt, which looks for what the last one did, unless it
\* opened a session.
Again(u, c) ==
  IF c.tries + 1 = Attempts THEN GivenUp(c)
  ELSE [c EXCEPT !.req = None, !.tries = @ + 1,
          !.pc = IF InParts(u) /\ c.sess = None THEN "start" ELSE "look"]

\* The answer to an attempt.
Receive(u) ==
  LET c == client[u]  q == reqs[c.req] IN
  /\ c.pc = "wait" /\ c.req \in DOMAIN reqs /\ q.pc = "answered"
  /\ Let(u, CASE q.res = "ok" /\ q.kind = "start" ->
                   [c EXCEPT !.pc = "parts", !.req = None, !.sess = c.req, !.tries = 0]
              [] q.res = "ok" /\ q.kind # "start" -> [c EXCEPT !.pc = "done", !.id = c.req]
              [] q.res = "broken" -> Again(u, c)
              [] OTHER -> GivenUp(c))
  /\ reqs' = Without(reqs, c.req)
  /\ UNCHANGED <<rest, asked, disk, tables, books, faults, history>>

\* The connection breaks or times out; the server need not notice.
Unheard(q) == IF reqs[q].pc = "answered" THEN Without(reqs, q)
              ELSE [reqs EXCEPT ![q].heard = FALSE]

LoseAnswer(u) ==
  /\ client[u].pc = "wait" /\ Fault
  /\ Let(u, Again(u, client[u]))
  /\ reqs' = Unheard(client[u].req)
  /\ UNCHANGED <<rest, asked, disk, tables, books, history>>

\* Mutant: an attempt is made again without a look at what the last one did.
LookNot(u) ==
  /\ client[u].pc = "look"
  /\ Let(u, [client[u] EXCEPT !.pc = IF InParts(u) THEN "complete" ELSE "send"])
  /\ UNCHANGED <<rest, asked, reqs, disk, tables, books, faults, history>>

\* find_landed_upload: the listing may fail, and then counts as one without the upload.
Look(u) ==
  LET c     == client[u]
      mine  == {r \in In("old") : r.up = u}
      doubt == \/ \E q \in DOMAIN reqs : reqs[q].up = u /\ reqs[q].kind \in {"file", "complete"}
               \/ \E r \in In("new") : r.up = u
      Retry(heard) ==
        /\ Let(u, [c EXCEPT !.pc = IF InParts(u) THEN "complete" ELSE "send"])
        /\ unsure' = IF doubt \/ ~heard THEN [unsure EXCEPT ![u] = @ + 1] ELSE unsure
  IN
  /\ c.pc = "look"
  /\ \/ Fault /\ Retry(FALSE)
     \/ Calm /\ mine = {} /\ Retry(TRUE)
     \/ /\ Calm /\ UNCHANGED unsure
        /\ \E r \in mine : Let(u, [c EXCEPT !.pc = "done", !.id = r.id])
  /\ UNCHANGED <<rest, asked, reqs, disk, tables, books, slip, left, torn, gone, overlapped>>

\* The parts, in order, a few at a time; each is tried again by itself.
PartWith(u, i, p) == [client EXCEPT ![u].part[i] = p]
PartFails(p)      == IF p.tries + 1 = Attempts THEN [p EXCEPT !.pc = "failed", !.req = None]
                     ELSE [p EXCEPT !.pc = "todo", !.req = None, !.tries = @ + 1]

Retried(p)        == p.pc = "todo" /\ p.tries > 0

SendPart(u, i) ==
  LET ps == client[u].part IN
  /\ client[u].pc = "parts" /\ ps[i].pc = "todo"
  /\ \A j \in 1 .. i - 1 : ps[j].pc # "todo" \/ Retried(ps[j])
  /\ Cardinality({j \in Parts \ {i} : ps[j].pc = "wait" \/ Retried(ps[j])}) < ParallelParts
  /\ Post(u, "part", i)
  /\ client' = PartWith(u, i, [ps[i] EXCEPT !.pc = "wait", !.req = NextId(u)])
  /\ UNCHANGED <<rest, disk, tables, books, faults, history>>

ReceivePart(u, i) ==
  LET p == client[u].part[i]  q == reqs[p.req] IN
  /\ p.pc = "wait" /\ p.req \in DOMAIN reqs /\ q.pc = "answered"
  /\ client' = PartWith(u, i, CASE q.res = "ok"      -> [p EXCEPT !.pc = "ok"]
                                [] q.res = "broken"  -> PartFails(p)
                                [] OTHER             -> [p EXCEPT !.pc = "failed"])
  /\ reqs' = Without(reqs, p.req)
  /\ UNCHANGED <<rest, asked, disk, tables, books, faults, history>>

LosePart(u, i) ==
  LET p == client[u].part[i] IN
  /\ p.pc = "wait" /\ Fault
  /\ client' = PartWith(u, i, PartFails(p))
  /\ reqs' = Unheard(p.req)
  /\ UNCHANGED <<rest, asked, disk, tables, books, history>>

\* All parts were sent, or one failed and the others have ended.
PartsEnd(u) ==
  LET c == client[u]
      Pcs == {c.part[i].pc : i \in Parts}
  IN
  /\ c.pc = "parts" /\ \A i \in Parts : c.part[i].pc # "wait" /\ ~Retried(c.part[i])
  /\ Let(u, [c EXCEPT !.pc = IF "failed" \in Pcs THEN "abort" ELSE "complete"])
  /\ "failed" \in Pcs \/ Pcs \subseteq {"ok"}
  /\ UNCHANGED <<rest, asked, reqs, disk, tables, books, faults, history>>

\* One attempt, and nobody waits for what becomes of it.
Abort(u) ==
  /\ client[u].pc = "abort"
  /\ Post(u, "abort", 0)
  /\ Let(u, [client[u] EXCEPT !.pc = "failed"])
  /\ UNCHANGED <<rest, disk, tables, books, faults, history>>
-----------------------------------------------------------------------------
(* The server: the booking of quota, and uploads in one request.           *)

Is(q, kind, pc) == reqs[q].kind = kind /\ reqs[q].pc = pc
To(q, r)        == reqs' = [reqs EXCEPT ![q] = r]
GoTo(q, pc)     == reqs' = [reqs EXCEPT ![q].pc = pc]

\* The answer reaches a client that still waits for it.
End(q, res) == IF reqs[q].heard THEN To(q, [reqs[q] EXCEPT !.pc = "answered", !.res = res])
               ELSE reqs' = Without(reqs, q)

\* _purge_expired_sessions, before an upload in parts starts.
Purge(q) ==
  /\ Is(q, "start", "arrive")
  /\ sessions' = Alive
  /\ dirs' = Restrict(dirs, DOMAIN dirs \ {s.id : s \in sessions \ Alive})
  /\ GoTo(q, "purged")
  /\ UNCHANGED <<rest, client, asked, rows, blobs, books, faults, history>>

\* The vault's lock is taken, and the bytes stored are read.
Count(q) ==
  /\ Is(q, "file", "arrive") \/ Is(q, "start", "purged")
  /\ lock = None /\ lock' = q
  /\ To(q, [reqs[q] EXCEPT !.pc = "counted", !.seen = Ids(In("old")), !.usage = Bytes(In("old"))])
  /\ UNCHANGED <<rest, client, asked, disk, tables, reserved, faults, history>>

\* Mutant: the uploads in parts that are under way are not counted.
ReservedOnly(q) == reqs[q].usage + reserved
\* Then what is promised is read.
Promised(q) == reqs[q].usage + reserved + Bytes({s \in Alive : s.vault = "old"})

\* Rows whose bytes are still reserved too.
Ending == {q \in DOMAIN reqs : reqs[q].kind = "file" /\ reqs[q].pc \in {"refresh", "release"}}
\* What a check counts in neither: stored since the one was read, released before the other.
Missed(q) == {r \in In("old") : r.id \notin reqs[q].seen /\ r.id \notin Ending}

\* _reserve_upload_slot
Reserve(q) ==
  LET remaining == world.quota - Promised(q)
      limit     == IF remaining < world.size[reqs[q].up] THEN remaining ELSE world.size[reqs[q].up]
  IN
  /\ Is(q, "file", "counted")
  /\ lock' = None
  /\ slip' = slip + Bytes(Missed(q))
  /\ IF remaining <= 0 THEN End(q, "refused") /\ UNCHANGED reserved
     ELSE /\ To(q, [reqs[q] EXCEPT !.pc = "write", !.limit = limit])
          /\ reserved' = reserved + limit
  /\ UNCHANGED <<rest, client, asked, disk, tables, faults, left, torn, gone, unsure, overlapped>>

\* write_multipart_blob.  A body that ends early, or that is larger than what was
\* booked, leaves no file.
Write(q) ==
  /\ Is(q, "file", "write")
  /\ \/ /\ world.size[reqs[q].up] <= reqs[q].limit
        /\ blobs' = blobs \cup {q} /\ GoTo(q, "commit") /\ Calm
     \/ /\ world.size[reqs[q].up] > reqs[q].limit
        /\ To(q, [reqs[q] EXCEPT !.pc = "release", !.res = "refused"]) /\ UNCHANGED blobs /\ Calm
     \/ /\ IF reqs[q].heard THEN Fault ELSE Calm
        /\ To(q, [reqs[q] EXCEPT !.pc = "release", !.res = "broken"]) /\ UNCHANGED blobs
  /\ UNCHANGED <<rest, client, asked, tables, dirs, books, history>>

Row(q) == [id |-> q, up |-> reqs[q].up, vault |-> "old"]

\* Mutant: a commit that fails leaves the blob.
CommitLeaves(q) ==
  /\ Is(q, "file", "commit")
  /\ \/ rows' = rows \cup {Row(q)} /\ UNCHANGED blobs /\ Calm /\ GoTo(q, "refresh")
     \/ /\ Fault /\ UNCHANGED <<rows, blobs>>
        /\ To(q, [reqs[q] EXCEPT !.pc = "release", !.res = "refused"])
  /\ UNCHANGED <<rest, client, asked, sessions, dirs, books, history>>

\* _finalize_upload, with no lock: the commit, the reading back of the row, and in the
\* end the reservation.
Commit(q) ==
  /\ Is(q, "file", "commit")
  /\ \/ rows' = rows \cup {Row(q)} /\ UNCHANGED blobs /\ Calm /\ GoTo(q, "refresh")
     \/ /\ blobs' = blobs \ {q} /\ Fault /\ UNCHANGED rows
        /\ To(q, [reqs[q] EXCEPT !.pc = "release", !.res = "refused"])
  /\ UNCHANGED <<rest, client, asked, sessions, dirs, books, history>>

\* db.refresh: it fails if the row was deleted meanwhile, and may fail otherwise.  The
\* blob goes in either case, a row that was committed stays; torn notes which.
ReadBack(q) == q \in Ids(rows) /\ Calm /\ UNCHANGED <<blobs, torn>>
ReadBackFails(q) ==
  /\ blobs' = blobs \ {q}
  /\ IF q \in Ids(rows) THEN Fault /\ torn' = torn \cup {q} ELSE Calm /\ UNCHANGED torn

Refresh(q) ==
  /\ Is(q, "file", "refresh")
  /\ \E res \in {"ok", "refused"} :
       /\ IF res = "ok" THEN ReadBack(q) ELSE ReadBackFails(q)
       /\ To(q, [reqs[q] EXCEPT !.pc = "release", !.res = res])
  /\ UNCHANGED <<rest, client, asked, tables, dirs, books, slip, left, gone, unsure, overlapped>>

Release(q) ==
  /\ Is(q, "file", "release")
  /\ reserved' = IF reserved > reqs[q].limit THEN reserved - reqs[q].limit ELSE 0
  /\ End(q, reqs[q].res)
  /\ UNCHANGED <<rest, client, asked, disk, tables, lock, faults, history>>
-----------------------------------------------------------------------------
(* The server: uploads in parts.                                           *)

\* start_upload; the lock is held from Count on.
Start(q) ==
  LET u == reqs[q].up
      fits == /\ Cardinality({s \in Alive : s.vault = "old"}) < MaxSessions
              /\ Promised(q) + world.size[u] <= world.quota
  IN
  /\ Is(q, "start", "counted")
  /\ lock' = None
  /\ slip' = slip + Bytes(Missed(q))
  /\ IF fits THEN /\ sessions' = sessions \cup {[id |-> q, up |-> u, vault |-> "old", old |-> FALSE]}
                  /\ dirs' = With(dirs, q, {})
                  /\ End(q, "ok")
     ELSE End(q, "refused") /\ UNCHANGED <<sessions, dirs>>
  /\ UNCHANGED <<rest, client, asked, rows, blobs, reserved, faults, left, torn, gone, unsure, overlapped>>

\* _get_owned_session
Owned(s) == \E x \in Alive : x.id = s /\ x.vault = "old"

\* write_part_streamed: the part counts as missing while it is written again.
BeginPart(q) ==
  LET s == reqs[q].sess IN
  /\ Is(q, "part", "arrive")
  /\ IF Owned(s) /\ s \in DOMAIN dirs
     THEN dirs' = [dirs EXCEPT ![s] = @ \ {reqs[q].part}] /\ GoTo(q, "write")
     ELSE End(q, "refused") /\ UNCHANGED dirs
  /\ UNCHANGED <<rest, client, asked, blobs, tables, books, faults, history>>

EndPart(q) ==
  LET s == reqs[q].sess IN
  /\ Is(q, "part", "write")
  /\ \/ /\ Calm
        /\ IF s \in DOMAIN dirs
           THEN dirs' = [dirs EXCEPT ![s] = @ \cup {reqs[q].part}] /\ End(q, "ok")
           ELSE End(q, "refused") /\ UNCHANGED dirs
     \/ /\ IF reqs[q].heard THEN Fault ELSE Calm
        /\ End(q, "broken") /\ UNCHANGED dirs
  /\ UNCHANGED <<rest, client, asked, blobs, tables, books, history>>

\* complete_upload, under the lock: the session's file becomes the blob of a new row.
Complete(q) ==
  LET s == reqs[q].sess IN
  /\ Is(q, "complete", "arrive") /\ lock = None
  /\ IF Owned(s) /\ s \in DOMAIN dirs /\ dirs[s] = Parts
     THEN /\ lock' = q /\ GoTo(q, "commit")
          /\ blobs' = blobs \cup {q} /\ dirs' = Without(dirs, s)
     ELSE End(q, "refused") /\ UNCHANGED <<lock, disk>>
  /\ UNCHANGED <<rest, client, asked, tables, reserved, faults, history>>

CommitComplete(q) ==
  /\ Is(q, "complete", "commit")
  /\ \/ /\ rows' = rows \cup {Row(q)} /\ GoTo(q, "refresh") /\ Calm
        /\ sessions' = {x \in sessions : x.id # reqs[q].sess} /\ UNCHANGED <<blobs, lock>>
     \/ /\ blobs' = blobs \ {q} /\ End(q, "refused") /\ Fault
        /\ lock' = None /\ UNCHANGED <<rows, sessions>>
  /\ UNCHANGED <<rest, client, asked, dirs, reserved, history>>

RefreshComplete(q) ==
  /\ Is(q, "complete", "refresh")
  /\ lock' = None
  /\ \E res \in {"ok", "refused"} :
       /\ IF res = "ok" THEN ReadBack(q) ELSE ReadBackFails(q)
       /\ End(q, res)
  /\ UNCHANGED <<rest, client, asked, tables, dirs, reserved, slip, left, gone, unsure, overlapped>>

\* abort_upload: first the row, then the directory.
AbortRow(q) ==
  /\ Is(q, "abort", "arrive")
  /\ IF Owned(reqs[q].sess)
     THEN sessions' = {x \in sessions : x.id # reqs[q].sess} /\ GoTo(q, "remove")
     ELSE End(q, "refused") /\ UNCHANGED sessions
  /\ UNCHANGED <<rest, client, asked, disk, rows, books, faults, history>>

AbortDir(q) ==
  /\ Is(q, "abort", "remove")
  /\ dirs' = Without(dirs, reqs[q].sess)
  /\ End(q, "ok")
  /\ UNCHANGED <<rest, client, asked, blobs, tables, books, faults, history>>

\* A session is older than _UPLOAD_SESSION_TTL_SECONDS.
Expire(x) ==
  /\ x \in Alive /\ Fault
  /\ sessions' = (sessions \ {x}) \cup {[x EXCEPT !.old = TRUE]}
  /\ UNCHANGED <<rest, client, asked, reqs, disk, rows, books, history>>
-----------------------------------------------------------------------------
(* The other request.                                                      *)

OtherTo(pc) == other' = [other EXCEPT !.pc = pc]
\* What each of its steps leaves alone.
Frame == <<world, client, asked, reqs, faults, slip, torn, unsure>>

\* delete_file: first the row, then the blob.
DeleteRow(r) ==
  /\ other.pc = "delete" /\ r \in In("old")
  /\ rows' = rows \ {r} /\ gone' = gone \cup {r.id}
  /\ other' = [other EXCEPT !.pc = "unlink", !.ids = {r.id}]
  /\ UNCHANGED <<Frame, disk, sessions, books, binding, left, overlapped>>

DeleteBlob ==
  /\ other.pc = "unlink"
  /\ blobs' = blobs \ other.ids
  /\ other' = [other EXCEPT !.pc = "done", !.ids = {}]
  /\ UNCHANGED <<Frame, dirs, tables, books, binding, left, gone, overlapped>>

\* _wipe_vault notes what there is, clears the tables, and removes what it has noted;
\* only the removal of the blobs is under the lock.
WipeList ==
  /\ other.pc = "wipe"
  /\ other' = [pc |-> "clear", ids |-> Ids(In("old")),
               sessions |-> {s.id : s \in {x \in sessions : x.vault = "old"}}]
  /\ UNCHANGED <<Frame, disk, tables, books, binding, left, gone, overlapped>>

WipeTables ==
  LET cleared == IF other.ids = {} THEN {} ELSE In("old")
      closed  == IF other.sessions = {} THEN {} ELSE {s \in sessions : s.vault = "old"}
  IN
  /\ other.pc = "clear"
  /\ rows' = rows \ cleared /\ sessions' = sessions \ closed
  /\ gone' = gone \cup Ids(cleared)
  /\ left' = left \cup (Ids(cleared) \ other.ids) \cup ({s.id : s \in closed} \ other.sessions)
  /\ OtherTo("blobs")
  /\ UNCHANGED <<Frame, disk, books, binding, overlapped>>

WipeBlobs ==
  /\ other.pc = "blobs" /\ lock = None
  /\ blobs' = blobs \ other.ids
  /\ other' = [other EXCEPT !.pc = "dirs", !.ids = {}]
  /\ UNCHANGED <<Frame, dirs, tables, books, binding, left, gone, overlapped>>

WipeDirs ==
  /\ other.pc = "dirs"
  /\ dirs' = Restrict(dirs, DOMAIN dirs \ other.sessions)
  /\ other' = [other EXCEPT !.pc = "done", !.sessions = {}]
  /\ UNCHANGED <<Frame, blobs, tables, books, binding, left, gone, overlapped>>

\* rotate_vault: the client's list of files is compared with the rows first; these
\* then move under the lock, and in the end the token.
RotateCheck ==
  /\ other.pc = "rotate"
  /\ other' = [other EXCEPT !.pc = "move", !.ids = Ids(In("old"))]
  /\ overlapped' = {reqs[q].up : q \in DOMAIN reqs}
  /\ UNCHANGED <<Frame, disk, tables, books, binding, left, gone>>

RotateMove ==
  /\ other.pc = "move" /\ lock = None
  /\ rows' = {IF r.id \in other.ids THEN [r EXCEPT !.vault = "new"] ELSE r : r \in rows}
  /\ sessions' = {[s EXCEPT !.vault = "new"] : s \in sessions}
  /\ OtherTo("rebind")
  /\ UNCHANGED <<Frame, disk, books, binding, left, gone, overlapped>>

Rebind ==
  /\ other.pc = "rebind"
  /\ binding' = "new"
  /\ other' = [other EXCEPT !.pc = "done", !.ids = {}]
  /\ UNCHANGED <<Frame, disk, tables, books, left, gone, overlapped>>
-----------------------------------------------------------------------------
ClientStep(u) ==
  \/ Send(u) \/ Receive(u) \/ LoseAnswer(u) \/ Look(u) \/ PartsEnd(u) \/ Abort(u)
  \/ \E i \in Parts : SendPart(u, i) \/ ReceivePart(u, i) \/ LosePart(u, i)

ServerStep(q) ==
  \/ Purge(q) \/ Count(q) \/ Reserve(q) \/ Write(q) \/ Commit(q) \/ Refresh(q)
  \/ Release(q) \/ Start(q) \/ BeginPart(q) \/ EndPart(q)
  \/ Complete(q) \/ CommitComplete(q) \/ RefreshComplete(q) \/ AbortRow(q) \/ AbortDir(q)

Next ==
  \/ \E u \in Uploads : ClientStep(u)
  \/ \E q \in DOMAIN reqs : ServerStep(q)
  \/ \E x \in sessions : Expire(x)
  \/ \E r \in rows : DeleteRow(r)
  \/ DeleteBlob \/ WipeList \/ WipeTables \/ WipeBlobs \/ WipeDirs
  \/ RotateCheck \/ RotateMove \/ Rebind

Spec == Init /\ [][Next]_vars
-----------------------------------------------------------------------------
(* Properties.                                                             *)

\* The vault that the token opens, once a rotation has ended.
Home == IF other.pc = "rebind" THEN "new" ELSE binding

\* However attempts are given up on and made again, an upload in parts is stored at
\* most once, and another as often again only as the client had no way to know: an
\* earlier attempt was still under way at the server, its listing failed, or the
\* row had another vault id by then.  And an upload that the client takes for done has
\* its row, unless it was deleted since, in the vault that the token opens, unless the
\* vault was rotated meanwhile (upload_stream, find_landed_upload, complete_upload).
LandsOnce ==
  \A u \in Uploads :
    /\ Cardinality({r \in rows : r.up = u}) <= 1 + (IF InParts(u) THEN 0 ELSE unsure[u])
    /\ client[u].pc = "done" =>
         \/ client[u].id \in gone
         \/ \E r \in rows : /\ r.id = client[u].id /\ r.up = u
                            /\ r.vault = Home \/ u \in overlapped

\* Every row has its blob, but for one that was committed and could not be read back,
\* whose upload was answered with a failure; and a blob without a row, or a directory
\* without a session, is one that a request under way will give one or remove, or that a
\* wipe did not know of when it cleared the tables (_finalize_upload, complete_upload,
\* _wipe_vault).
BlobsHaveRows ==
  /\ Ids(rows) \subseteq blobs \cup torn
  /\ blobs \subseteq Ids(rows) \cup left \cup other.ids \cup {q \in DOMAIN reqs : reqs[q].pc = "commit"}
  /\ DOMAIN dirs \subseteq {s.id : s \in sessions} \cup left \cup other.sessions
                          \cup {reqs[q].sess : q \in {x \in DOMAIN reqs : reqs[x].pc = "remove"}}

\* The quota of the vault is passed by no more than what a check could not see: uploads
\* that were stored after it had read the bytes stored, and released before it read
\* the bytes reserved (_reserve_upload_slot, start_upload, _finalize_upload).
QuotaHolds ==
  \A v \in {"old", "new"} :
    Bytes({r \in In(v) : r.id \notin Ending}) + Bytes({s \in Alive : s.vault = v})
      + (IF v = "old" THEN reserved ELSE 0) <= world.quota + slip
=============================================================================
