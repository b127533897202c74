---------------------------- MODULE UploadsProofs ----------------------------
(***************************************************************************)
(* Proofs about Uploads.tla.  First: a row has its blob, unless it could   *)
(* not be read back after its commit, and nothing is left on the server's  *)
(* disk that no row, no request under way and no wipe is responsible for.  *)
(* The rows, blobs and directories change in steps of different requests;  *)
(* IInv says what keeps these apart.  Then:                                *)
(* the quota of a vault is passed by no more than what a check could not   *)
(* see.  The bytes of rows and sessions are counted by their ids; QInv     *)
(* relates what a check has read, what is reserved, and what is stored     *)
(* since.  Last: an upload lands once.  LInv counts its rows with the      *)
(* requests and the attempt that may still become one.                     *)
(***************************************************************************)
EXTENDS Uploads, FoldLemmas, TLAPS

\* The requests made so far.
Used == {q \in Uploads \X Nat : q[2] <= asked[q[1]]}

\* The fields that the proofs speak of.
IsClient(c)  == {"pc", "sess"} \subseteq DOMAIN c
IsRequest(q) == {"pc", "sess", "kind"} \subseteq DOMAIN q
IsRow(r)     == {"id", "up", "vault"} \subseteq DOMAIN r
IsSession(s) == {"id", "vault", "old"} \subseteq DOMAIN s

\* A session has the id of a request that is over.
Over(s) == s = None \/ s \in Used \ DOMAIN reqs

\* Where a request can be before it has stored its row, or when it never stores one.
Before == {"arrive", "purged", "counted", "write", "commit"}

Clients ==
  /\ asked \in [Uploads -> Nat]
  /\ DOMAIN client = Uploads
  /\ \A u \in Uploads : IsClient(client[u]) /\ Over(client[u].sess)

Requests ==
  /\ DOMAIN reqs \subseteq Used
  /\ \A q \in DOMAIN reqs : IsRequest(reqs[q]) /\ Over(reqs[q].sess)

\* What is stored under an id comes from the request with that id, in its last steps.
Fresh ==
  /\ Ids(rows) \cup other.ids \subseteq Used
  /\ \A q \in DOMAIN reqs : reqs[q].pc \in Before => q \notin Ids(rows) \cup other.ids

\* A file that is getting its row is a blob, and not in a session's directory any more.
Moved ==
  \A q \in DOMAIN reqs : reqs[q].pc = "commit" =>
    q \in blobs /\ (reqs[q].kind = "complete" => reqs[q].sess \notin DOMAIN dirs)

Tables ==
  /\ \A r \in rows : IsRow(r) /\ (\A x \in rows : x.id = r.id => x = r)
  /\ \A s \in sessions : IsSession(s)
  /\ other.pc \notin {"rebind", "done"} =>
       (\A r \in rows : r.vault = "old") /\ (\A s \in sessions : s.vault = "old")

\* What the other request has noted of the rows and sessions.
Noted ==
  /\ {"pc", "ids", "sessions"} \subseteq DOMAIN other
  /\ other.pc \in {"none", "delete", "unlink", "wipe", "clear", "blobs", "dirs", "rotate",
                   "move", "rebind", "done"}
  /\ other.pc \in {"none", "delete", "wipe", "rotate", "dirs", "done"} => other.ids = {}
  /\ other.pc \in {"unlink", "blobs"} => other.ids \cap Ids(rows) = {}
  /\ other.pc \in {"move", "rebind"} => other.ids \subseteq Ids(rows)
  /\ other.pc \notin {"clear", "blobs", "dirs"} => other.sessions = {}

IInv == Clients /\ Requests /\ Fresh /\ Moved /\ Tables /\ Noted /\ BlobsHaveRows
-----------------------------------------------------------------------------
(* What a step does to the requests. *)

\* Of the requests under way none is added, only q may have ended or gone on, and if it
\* has, it is at a step of S.
Changes(q, S) ==
  /\ asked' = asked
  /\ DOMAIN reqs' \subseteq DOMAIN reqs /\ DOMAIN reqs \ DOMAIN reqs' \subseteq {q}
  /\ \A x \in DOMAIN reqs' :
       /\ IsRequest(reqs'[x]) /\ reqs'[x].sess = reqs[x].sess /\ reqs'[x].kind = reqs[x].kind
       /\ IF x = q THEN reqs'[x].pc \in S ELSE reqs'[x].pc = reqs[x].pc

\* A request that goes on keeps its kind and its session.
LEMMA ToChanges ==
  ASSUME Requests, asked' = asked, NEW q \in DOMAIN reqs, NEW r, IsRequest(r),
         r.sess = reqs[q].sess, r.kind = reqs[q].kind, reqs' = [reqs EXCEPT ![q] = r]
  PROVE  Changes(q, {r.pc}) /\ DOMAIN reqs' = DOMAIN reqs
<1>1. /\ DOMAIN reqs' = DOMAIN reqs
      /\ \A x \in DOMAIN reqs : reqs'[x] = IF x = q THEN r ELSE reqs[x]
  OBVIOUS
<1>2. \A x \in DOMAIN reqs : IsRequest(reqs[x])
  BY DEF Requests
<1> QED BY <1>1, <1>2 DEF Changes

LEMMA GoToChanges ==
  ASSUME Requests, asked' = asked, NEW q \in DOMAIN reqs, NEW p, GoTo(q, p)
  PROVE  Changes(q, {p}) /\ DOMAIN reqs' = DOMAIN reqs
<1> DEFINE r == [reqs[q] EXCEPT !.pc = p]
<1>1. IsRequest(reqs[q])
  BY DEF Requests
<1>2. r.pc = p /\ r.sess = reqs[q].sess /\ r.kind = reqs[q].kind /\ IsRequest(r)
  BY <1>1 DEF IsRequest
<1>3. reqs' = [reqs EXCEPT ![q] = r]
  BY DEF GoTo
<1> HIDE DEF r
<1> QED BY <1>2, <1>3, ToChanges

LEMMA EndChanges ==
  ASSUME Requests, asked' = asked, NEW q \in DOMAIN reqs, NEW res, End(q, res)
  PROVE  Changes(q, {"answered"})
<1> DEFINE r == [reqs[q] EXCEPT !.pc = "answered", !.res = res]
<1>1. \A x \in DOMAIN reqs : IsRequest(reqs[x])
  BY DEF Requests
<1>2. /\ r.pc = "answered" /\ r.sess = reqs[q].sess /\ r.kind = reqs[q].kind /\ IsRequest(r)
  <2>1. IsRequest(reqs[q])
    BY <1>1
  <2> QED BY <2>1 DEF IsRequest
<1>3. CASE reqs' = [reqs EXCEPT ![q] = r]
  <2> HIDE DEF r
  <2> QED BY <1>2, <1>3, ToChanges
<1>4. CASE reqs' = Without(reqs, q)
  <2>1. DOMAIN reqs' = DOMAIN reqs \ {q} /\ \A x \in DOMAIN reqs' : reqs'[x] = reqs[x]
    BY <1>4 DEF Without, Restrict
  <2> QED BY <1>1, <2>1 DEF Changes
<1> QED BY <1>3, <1>4 DEF End, To

\* The client lets go of an answer, or does not wait for one any more.
LEMMA UnheardChanges ==
  ASSUME Requests, asked' = asked, NEW q,
         \/ reqs' = Unheard(q)
         \/ q \in DOMAIN reqs /\ reqs[q].pc = "answered" /\ reqs' = Without(reqs, q)
  PROVE  /\ Changes(q, {reqs[q].pc})
         /\ \A x \in DOMAIN reqs \ DOMAIN reqs' : reqs[x].pc = "answered"
<1>1. \A x \in DOMAIN reqs : IsRequest(reqs[x])
  BY DEF Requests
<1>2. CASE reqs' = [reqs EXCEPT ![q].heard = FALSE]
  <2>1. ASSUME NEW x \in DOMAIN reqs
        PROVE  /\ IsRequest(reqs'[x]) /\ reqs'[x].sess = reqs[x].sess
               /\ reqs'[x].kind = reqs[x].kind /\ reqs'[x].pc = reqs[x].pc
    <3>1. reqs'[x] = IF x = q THEN [reqs[x] EXCEPT !.heard = FALSE] ELSE reqs[x]
      BY <1>2
    <3> QED BY <1>1, <3>1 DEF IsRequest
  <2>2. DOMAIN reqs' = DOMAIN reqs
    BY <1>2
  <2> QED BY <2>1, <2>2 DEF Changes
<1>3. CASE reqs' = Without(reqs, q) /\ (q \in DOMAIN reqs => reqs[q].pc = "answered")
  <2>1. DOMAIN reqs' = DOMAIN reqs \ {q} /\ \A x \in DOMAIN reqs' : reqs'[x] = reqs[x]
    BY <1>3 DEF Without, Restrict
  <2> QED BY <1>1, <1>3, <2>1 DEF Changes
<1> QED BY <1>2, <1>3 DEF Unheard
-----------------------------------------------------------------------------
(* The client's steps. *)

\* A new request has an id of its own.
LEMMA PostProps ==
  ASSUME Clients, Requests, NEW u \in Uploads, NEW kind, NEW part, Post(u, kind, part)
  PROVE  /\ asked' \in [Uploads -> Nat] /\ Used \subseteq Used'
         /\ NextId(u) \notin Used /\ NextId(u) \in Used'
         /\ DOMAIN reqs' = DOMAIN reqs \cup {NextId(u)}
         /\ \A q \in DOMAIN reqs : reqs'[q] = reqs[q]
         /\ LET q == reqs'[NextId(u)] IN
              IsRequest(q) /\ q.sess = client[u].sess /\ q.pc \in {"arrive", "answered"}
<1>1. /\ asked \in [Uploads -> Nat] /\ asked' = [asked EXCEPT ![u] = asked[u] + 1]
      /\ NextId(u) = <<u, asked[u] + 1>>
  BY DEF Clients, Post, NextId
<1>2. asked' \in [Uploads -> Nat] /\ \A v \in Uploads : asked[v] <= asked'[v]
  BY <1>1
<1>3. Used \subseteq Used' /\ NextId(u) \notin Used /\ NextId(u) \in Used'
  BY <1>1, <1>2 DEF Used
<1>4. NextId(u) \notin DOMAIN reqs
  BY <1>3 DEF Requests
<1>5. /\ DOMAIN reqs' = DOMAIN reqs \cup {NextId(u)}
      /\ \A q \in DOMAIN reqs : reqs'[q] = reqs[q]
      /\ reqs'[NextId(u)] = Request(u, kind, part)
  BY <1>4 DEF Post, With
<1>6. LET q == Request(u, kind, part) IN
        IsRequest(q) /\ q.sess = client[u].sess /\ q.pc \in {"arrive", "answered"}
  BY DEF Request, IsRequest
<1> QED BY <1>2, <1>3, <1>5, <1>6

\* The sessions that the clients know of are the same.
SameSessions ==
  /\ DOMAIN client' = Uploads
  /\ \A u \in Uploads : IsClient(client'[u]) /\ client'[u].sess = client[u].sess

\* What only the server changes.
server == <<rows, blobs, sessions, dirs, other, left, torn>>

LEMMA PostStep ==
  ASSUME IInv, NEW u \in Uploads, NEW kind, NEW part, Post(u, kind, part),
         SameSessions, UNCHANGED server
  PROVE  IInv'
<1> DEFINE n == NextId(u)
<1>0. /\ asked' \in [Uploads -> Nat] /\ Used \subseteq Used'
      /\ n \notin Used /\ n \in Used' /\ DOMAIN reqs' = DOMAIN reqs \cup {n}
      /\ \A q \in DOMAIN reqs : reqs'[q] = reqs[q]
      /\ IsRequest(reqs'[n]) /\ reqs'[n].sess = client[u].sess
      /\ reqs'[n].pc \in {"arrive", "answered"}
  BY PostProps DEF IInv
<1>u. UNCHANGED <<rows, blobs, sessions, dirs, other, left, torn>>
  BY DEF server
<1> HIDE DEF n
<1>1. \A x : Over(x) => Over(x)'
  BY <1>0 DEF Over
<1>2. Clients'
  BY <1>0, <1>1 DEF IInv, Clients, SameSessions
<1>3. Requests'
  BY <1>0, <1>1 DEF IInv, Requests, Clients
<1>4. Fresh'
  BY <1>0, <1>u DEF IInv, Fresh, Ids
<1>5. Moved'
  BY <1>0, <1>u DEF IInv, Moved
<1>6. BlobsHaveRows'
  BY <1>0, <1>u DEF IInv, BlobsHaveRows, Ids
<1>7. Tables' /\ Noted'
  BY <1>u DEF IInv, Tables, Noted, Ids
<1> QED BY <1>2, <1>3, <1>4, <1>5, <1>6, <1>7 DEF IInv

\* A client that only takes note of what became of its requests.
LEMMA NoteStep ==
  ASSUME IInv, NEW q, Changes(q, {reqs[q].pc}), UNCHANGED server,
         \A x \in DOMAIN reqs \ DOMAIN reqs' : reqs[x].pc = "answered",
         DOMAIN client' = Uploads,
         \A u \in Uploads : /\ IsClient(client'[u])
                            /\ \/ client'[u].sess = client[u].sess
                               \/ client'[u].sess \in DOMAIN reqs \ DOMAIN reqs'
  PROVE  IInv'
<1>u. UNCHANGED <<rows, blobs, sessions, dirs, other, left, torn>>
  BY DEF server
<1>0. /\ Used' = Used /\ DOMAIN reqs' \subseteq DOMAIN reqs /\ DOMAIN reqs \subseteq Used
      /\ \A x \in DOMAIN reqs' : /\ IsRequest(reqs'[x]) /\ reqs'[x].sess = reqs[x].sess
                                  /\ reqs'[x].kind = reqs[x].kind /\ reqs'[x].pc = reqs[x].pc
  BY DEF Changes, Used, IInv, Requests
<1>1. \A x : Over(x) => Over(x)'
  BY <1>0 DEF Over
<1>2. Clients'
  BY <1>0, <1>1 DEF IInv, Clients, Over, Changes
<1>3. Requests'
  BY <1>0, <1>1 DEF IInv, Requests
<1>4. Fresh'
  BY <1>0, <1>u DEF IInv, Fresh, Ids
<1>5. Moved'
  BY <1>0, <1>u DEF IInv, Moved
<1>6. BlobsHaveRows'
  BY <1>0, <1>u DEF IInv, BlobsHaveRows, Ids
<1>7. Tables' /\ Noted'
  BY <1>u DEF IInv, Tables, Noted, Ids
<1> QED BY <1>2, <1>3, <1>4, <1>5, <1>6, <1>7 DEF IInv
-----------------------------------------------------------------------------
(* The server's steps. *)

\* What is left to show of a step of request q: that its file stays where it should.
LEMMA ServerInv ==
  ASSUME IInv, NEW q \in DOMAIN reqs, NEW S, Changes(q, S), UNCHANGED <<client, other, left>>,
         S \cap Before = {} \/ reqs[q].pc \in Before,
         \/ rows' = rows
         \/ rows' = rows \cup {Row(q)} /\ reqs[q].pc = "commit" /\ S \cap Before = {},
         \A s \in sessions' : IsSession(s) /\ (s \in sessions \/ s.vault = "old"),
         Moved', BlobsHaveRows'
  PROVE  IInv'
<1>0. /\ Used' = Used /\ DOMAIN reqs' \subseteq DOMAIN reqs /\ DOMAIN reqs \subseteq Used
      /\ \A x \in DOMAIN reqs' : /\ IsRequest(reqs'[x]) /\ reqs'[x].sess = reqs[x].sess
                                  /\ reqs'[x].kind = reqs[x].kind
                                  /\ IF x = q THEN reqs'[x].pc \in S ELSE reqs'[x].pc = reqs[x].pc
  BY DEF Changes, Used, IInv, Requests
<1>1. \A x : Over(x) => Over(x)'
  BY <1>0 DEF Over
<1>r. \/ rows' = rows
      \/ /\ rows' = rows \cup {Row(q)} /\ S \cap Before = {}
         /\ q \notin Ids(rows) \cup other.ids
         /\ Row(q).id = q /\ Row(q).vault = "old" /\ IsRow(Row(q))
  BY DEF IInv, Fresh, Before, Row, IsRow
<1>2. Clients'
  BY <1>0, <1>1 DEF IInv, Clients, Changes
<1>3. Requests'
  BY <1>0, <1>1 DEF IInv, Requests
<1>i. \/ Ids(rows') = Ids(rows)
      \/ Ids(rows') = Ids(rows) \cup {q} /\ S \cap Before = {} /\ q \notin other.ids
  <2>1. CASE rows' = rows
    BY <2>1 DEF Ids
  <2>2. CASE rows' = rows \cup {Row(q)} /\ S \cap Before = {} /\ q \notin other.ids
    <3> DEFINE new == Row(q)
    <3>1. new.id = q /\ rows' = rows \cup {new}
      BY <2>2 DEF Row
    <3> HIDE DEF new
    <3>2. Ids(rows') = Ids(rows) \cup {q}
      BY <3>1 DEF Ids
    <3> QED BY <2>2, <3>2
  <2> QED BY <1>r, <2>1, <2>2
<1>4. Fresh'
  <2>1. Ids(rows') \cup other'.ids \subseteq Used
    BY <1>0, <1>i DEF IInv, Fresh
  <2>2. ASSUME NEW x \in DOMAIN reqs', reqs'[x].pc \in Before
        PROVE  x \notin Ids(rows') \cup other'.ids
    BY <1>0, <1>i, <2>2 DEF IInv, Fresh
  <2>3. Ids(rows)' = Ids(rows')
    BY DEF Ids
  <2> QED BY <1>0, <2>1, <2>2, <2>3 DEF Fresh
<1>5. Tables'
  BY <1>r DEF IInv, Tables, Ids
<1>6. Noted'
  <2>1. Ids(rows)' = Ids(rows')
    BY DEF Ids
  <2> QED BY <1>i, <2>1 DEF IInv, Noted
<1> QED BY <1>2, <1>3, <1>4, <1>5, <1>6 DEF IInv

\* A step that leaves blobs, directories and sessions alone.
LEMMA QuietStep ==
  ASSUME IInv, NEW q \in DOMAIN reqs, NEW S, Changes(q, S),
         UNCHANGED <<client, other, left, torn, rows, blobs, sessions>>, DOMAIN dirs' = DOMAIN dirs,
         reqs[q].pc \notin {"commit", "remove"}, "commit" \notin S,
         S \cap Before = {} \/ reqs[q].pc \in Before
  PROVE  IInv'
<1>1. Moved'
  BY DEF IInv, Moved, Changes
<1>2. BlobsHaveRows'
  BY DEF IInv, BlobsHaveRows, Ids, Changes
<1>3. \A s \in sessions' : IsSession(s) /\ s \in sessions
  BY DEF IInv, Tables
<1> QED BY <1>1, <1>2, <1>3, ServerInv

\* Steps that only read, or end a request that has stored nothing.
LEMMA CountStep == ASSUME IInv, NEW q \in DOMAIN reqs, Count(q) PROVE IInv'
<1> DEFINE r == [reqs[q] EXCEPT !.pc = "counted", !.seen = Ids(In("old")), !.usage = Bytes(In("old"))]
<1>1. IsRequest(reqs[q]) /\ reqs[q].pc \in {"arrive", "purged"}
  BY DEF Count, Is, IInv, Requests
<1>2. r.pc = "counted" /\ r.sess = reqs[q].sess /\ r.kind = reqs[q].kind /\ IsRequest(r)
  BY <1>1 DEF IsRequest
<1>3. reqs' = [reqs EXCEPT ![q] = r]
  BY DEF Count, To
<1> HIDE DEF r
<1>4. Changes(q, {"counted"})
  BY <1>2, <1>3, ToChanges DEF Count, IInv
<1> QED BY <1>1, <1>4, QuietStep DEF Count, Before, disk, tables, rest, history

LEMMA ReserveStep == ASSUME IInv, NEW q \in DOMAIN reqs, Reserve(q) PROVE IInv'
<1> DEFINE r(n) == [reqs[q] EXCEPT !.pc = "write", !.limit = n]
<1>1. IsRequest(reqs[q]) /\ reqs[q].pc = "counted"
  BY DEF Reserve, Is, IInv, Requests
<1>2. ASSUME NEW n PROVE r(n).pc = "write" /\ r(n).sess = reqs[q].sess /\ r(n).kind = reqs[q].kind /\ IsRequest(r(n))
  BY <1>1 DEF IsRequest
<1>3. End(q, "refused") \/ \E n : reqs' = [reqs EXCEPT ![q] = r(n)]
  BY DEF Reserve, To
<1> HIDE DEF r
<1>4. ASSUME NEW n, reqs' = [reqs EXCEPT ![q] = r(n)] PROVE Changes(q, {"write"})
  BY <1>2, <1>4, ToChanges DEF Reserve, IInv
<1>5. Changes(q, {"answered"}) \/ Changes(q, {"write"})
  BY <1>3, <1>4, EndChanges DEF Reserve, IInv
<1>6. Changes(q, {"answered", "write"})
  BY <1>5 DEF Changes
<1> QED BY <1>1, <1>6, QuietStep DEF Reserve, Before, disk, tables, rest, history

LEMMA ReleaseStep == ASSUME IInv, NEW q \in DOMAIN reqs, Release(q) PROVE IInv'
<1>1. Changes(q, {"answered"})
  BY EndChanges DEF Release, IInv
<1> QED BY <1>1, QuietStep DEF Release, Is, Before, disk, tables, rest, history

LEMMA PartSteps ==
  ASSUME IInv, NEW q \in DOMAIN reqs, BeginPart(q) \/ EndPart(q) PROVE IInv'
<1>1. CASE BeginPart(q)
  <2>1. Changes(q, {"answered"}) \/ Changes(q, {"write"})
    BY <1>1, EndChanges, GoToChanges DEF BeginPart, IInv
  <2>2. Changes(q, {"answered", "write"})
    BY <2>1 DEF Changes
  <2>3. DOMAIN dirs' = DOMAIN dirs
    BY <1>1 DEF BeginPart
  <2> QED BY <1>1, <2>2, <2>3, QuietStep DEF BeginPart, Is, Before, tables, rest, history
<1>2. CASE EndPart(q)
  <2>1. Changes(q, {"answered"})
    BY <1>2, EndChanges DEF EndPart, IInv
  <2>2. DOMAIN dirs' = DOMAIN dirs
    BY <1>2 DEF EndPart
  <2> QED BY <1>2, <2>1, <2>2, QuietStep DEF EndPart, Is, Before, tables, rest, history
<1> QED BY <1>1, <1>2

\* Directories go with their sessions.
LEMMA PurgeStep == ASSUME IInv, NEW q \in DOMAIN reqs, Purge(q) PROVE IInv'
<1>1. Changes(q, {"purged"})
  BY GoToChanges DEF Purge, IInv
<1>2. /\ sessions' = Alive /\ Alive \subseteq sessions /\ DOMAIN dirs' \subseteq DOMAIN dirs
      /\ \A d \in DOMAIN dirs' : d \notin {s.id : s \in sessions \ Alive}
  BY DEF Purge, Alive, Restrict
<1>3. reqs[q].pc = "arrive" /\ UNCHANGED <<client, other, left, torn, rows, blobs>>
  BY DEF Purge, Is, rest, history
<1>4. Moved'
  BY <1>1, <1>2, <1>3 DEF IInv, Moved, Changes
<1>5. BlobsHaveRows'
  <2>1. {s.id : s \in sessions} \subseteq {s.id : s \in Alive} \cup {s.id : s \in sessions \ Alive}
    OBVIOUS
  <2>2. ASSUME NEW x \in DOMAIN reqs, reqs[x].pc = "remove"
        PROVE  x \in DOMAIN reqs' /\ reqs'[x].pc = "remove" /\ reqs'[x].sess = reqs[x].sess
    BY <1>1, <1>3, <2>2 DEF Changes
  <2>3. ASSUME NEW x \in DOMAIN reqs, reqs[x].pc = "commit"
        PROVE  x \in DOMAIN reqs' /\ reqs'[x].pc = "commit"
    BY <1>1, <1>3, <2>3 DEF Changes
  <2> QED BY <1>2, <1>3, <2>1, <2>2, <2>3 DEF IInv, BlobsHaveRows, Ids
<1>6. \A s \in sessions' : IsSession(s) /\ s \in sessions
  BY <1>2 DEF IInv, Tables
<1> QED BY <1>1, <1>3, <1>4, <1>5, <1>6, ServerInv DEF Before

\* The blob comes before the row.
LEMMA WriteStep == ASSUME IInv, NEW q \in DOMAIN reqs, Write(q) PROVE IInv'
<1>1. IsRequest(reqs[q]) /\ reqs[q].pc = "write" /\ reqs[q].kind = "file"
  BY DEF Write, Is, IInv, Requests
<1>u. UNCHANGED <<client, other, left, torn, rows, sessions, dirs>> /\ asked' = asked
  BY DEF Write, rest, tables, history
<1>2. CASE blobs' = blobs \cup {q} /\ GoTo(q, "commit")
  <2>1. Changes(q, {"commit"}) /\ DOMAIN reqs' = DOMAIN reqs
    BY <1>2, <1>u, GoToChanges DEF IInv
  <2>2. Moved'
    BY <1>1, <1>2, <1>u, <2>1 DEF IInv, Moved, Changes
  <2>3. BlobsHaveRows'
    BY <1>1, <1>2, <1>u, <2>1 DEF IInv, BlobsHaveRows, Ids, Changes
  <2>4. \A s \in sessions' : IsSession(s) /\ s \in sessions
    BY <1>u DEF IInv, Tables
  <2> QED BY <1>1, <1>u, <2>1, <2>2, <2>3, <2>4, ServerInv DEF Before
<1>3. CASE blobs' = blobs /\ \E res : To(q, [reqs[q] EXCEPT !.pc = "release", !.res = res])
  <2>1. PICK res : To(q, [reqs[q] EXCEPT !.pc = "release", !.res = res])
    BY <1>3
  <2> DEFINE r == [reqs[q] EXCEPT !.pc = "release", !.res = res]
  <2>2. r.pc = "release" /\ r.sess = reqs[q].sess /\ r.kind = reqs[q].kind /\ IsRequest(r)
    BY <1>1 DEF IsRequest
  <2>3. reqs' = [reqs EXCEPT ![q] = r]
    BY <2>1 DEF To
  <2> HIDE DEF r
  <2>4. Changes(q, {"release"})
    BY <1>u, <2>2, <2>3, ToChanges DEF IInv
  <2> QED BY <1>1, <1>3, <1>u, <2>4, QuietStep DEF Before
<1> QED BY <1>2, <1>3 DEF Write

\* A commit that succeeds gives the blob its row, one that fails takes the blob back.
LEMMA CommitEnds ==
  ASSUME IInv, NEW q \in DOMAIN reqs, NEW S, Changes(q, S), S \cap (Before \cup {"remove"}) = {},
         reqs[q].pc = "commit", UNCHANGED <<client, other, left, torn, dirs>>,
         \/ /\ rows' = rows \cup {Row(q)} /\ blobs' = blobs
            /\ \/ sessions' = sessions
               \/ /\ sessions' = {x \in sessions : x.id # reqs[q].sess}
                  /\ reqs[q].sess \notin DOMAIN dirs
         \/ rows' = rows /\ blobs' = blobs \ {q} /\ sessions' = sessions
  PROVE  IInv'
<1>1. "commit" \notin S /\ q \notin Ids(rows) \cup other.ids
  BY DEF Before, IInv, Fresh
<1>2. Moved'
  BY <1>1 DEF IInv, Moved, Changes
<1>3. /\ DOMAIN dirs \subseteq {s.id : s \in sessions'} \cup left \cup other.sessions
                             \cup {reqs[x].sess : x \in {y \in DOMAIN reqs : reqs[y].pc = "remove"}}
  BY DEF IInv, BlobsHaveRows
<1>4. ASSUME NEW x \in DOMAIN reqs, reqs[x].pc = "remove"
      PROVE  x \in DOMAIN reqs' /\ reqs'[x].pc = "remove" /\ reqs'[x].sess = reqs[x].sess
  BY <1>4 DEF Changes
<1>5. ASSUME NEW x \in DOMAIN reqs \ {q}, reqs[x].pc = "commit"
      PROVE  x \in DOMAIN reqs' /\ reqs'[x].pc = "commit"
  BY <1>5 DEF Changes
<1>6. q \in blobs
  BY DEF IInv, Moved
<1>7. BlobsHaveRows'
  <2>1. CASE rows' = rows /\ blobs' = blobs \ {q} /\ sessions' = sessions
    <3>1. Ids(rows)' = Ids(rows) /\ Ids(rows) \subseteq blobs' \cup torn'
      BY <1>1, <2>1 DEF IInv, BlobsHaveRows, Ids
    <3>2. blobs' \subseteq Ids(rows) \cup left \cup other.ids \cup {x \in DOMAIN reqs' : reqs'[x].pc = "commit"}
      BY <1>5, <2>1 DEF IInv, BlobsHaveRows
    <3>3. DOMAIN dirs' \subseteq {s.id : s \in sessions'} \cup left \cup other.sessions
                               \cup {reqs'[x].sess : x \in {y \in DOMAIN reqs' : reqs'[y].pc = "remove"}}
      BY <1>3, <1>4
    <3> QED BY <3>1, <3>2, <3>3 DEF BlobsHaveRows
  <2>2. CASE rows' = rows \cup {Row(q)} /\ blobs' = blobs
    <3> DEFINE new == Row(q)
    <3>0. new.id = q /\ rows' = rows \cup {new}
      BY <2>2 DEF Row
    <3> HIDE DEF new
    <3>1. Ids(rows)' = Ids(rows) \cup {q}
      BY <3>0 DEF Ids
    <3>2. Ids(rows)' \subseteq blobs' \cup torn'
      BY <1>6, <2>2, <3>1 DEF IInv, BlobsHaveRows
    <3>3. blobs' \subseteq Ids(rows)' \cup left \cup other.ids \cup {x \in DOMAIN reqs' : reqs'[x].pc = "commit"}
      BY <1>5, <2>2, <3>1 DEF IInv, BlobsHaveRows
    <3>4. DOMAIN dirs' \subseteq {s.id : s \in sessions'} \cup left \cup other.sessions
                               \cup {reqs'[x].sess : x \in {y \in DOMAIN reqs' : reqs'[y].pc = "remove"}}
      BY <1>3, <1>4
    <3> QED BY <3>2, <3>3, <3>4 DEF BlobsHaveRows
  <2> QED BY <2>1, <2>2
<1>8. \A s \in sessions' : IsSession(s) /\ s \in sessions
  BY DEF IInv, Tables
<1> QED BY <1>1, <1>2, <1>7, <1>8, ServerInv

LEMMA CommitStep == ASSUME IInv, NEW q \in DOMAIN reqs, Commit(q) PROVE IInv'
<1>1. IsRequest(reqs[q]) /\ reqs[q].pc = "commit"
  BY DEF Commit, Is, IInv, Requests
<1>u. UNCHANGED <<client, other, left, torn, sessions, dirs>> /\ asked' = asked
  BY DEF Commit, rest, history
<1> DEFINE r == [reqs[q] EXCEPT !.pc = "release", !.res = "refused"]
<1>2. GoTo(q, "refresh") \/ reqs' = [reqs EXCEPT ![q] = r]
  BY DEF Commit, To
<1>3. r.pc = "release" /\ r.sess = reqs[q].sess /\ r.kind = reqs[q].kind /\ IsRequest(r)
  BY <1>1 DEF IsRequest
<1> HIDE DEF r
<1>4. Changes(q, {"refresh"}) \/ Changes(q, {"release"})
  BY <1>u, <1>2, <1>3, GoToChanges, ToChanges DEF IInv
<1>5. Changes(q, {"refresh", "release"})
  BY <1>4 DEF Changes
<1>6. \/ rows' = rows \cup {Row(q)} /\ blobs' = blobs
      \/ rows' = rows /\ blobs' = blobs \ {q}
  BY DEF Commit
<1> QED BY <1>1, <1>u, <1>5, <1>6, CommitEnds DEF Before

LEMMA CommitCompleteStep ==
  ASSUME IInv, NEW q \in DOMAIN reqs, CommitComplete(q) PROVE IInv'
<1>1. reqs[q].pc = "commit" /\ reqs[q].kind = "complete"
  BY DEF CommitComplete, Is
<1>2. reqs[q].sess \notin DOMAIN dirs
  BY <1>1 DEF IInv, Moved
<1>3. Changes(q, {"refresh"}) \/ Changes(q, {"answered"})
  BY GoToChanges, EndChanges DEF CommitComplete, IInv
<1>4. Changes(q, {"refresh", "answered"})
  BY <1>3 DEF Changes
<1>5. \/ /\ rows' = rows \cup {Row(q)} /\ blobs' = blobs
         /\ sessions' = {x \in sessions : x.id # reqs[q].sess}
      \/ rows' = rows /\ blobs' = blobs \ {q} /\ sessions' = sessions
  BY DEF CommitComplete
<1>6. UNCHANGED <<client, other, left, torn, dirs>>
  BY DEF CommitComplete, rest, history
<1> QED BY <1>1, <1>2, <1>4, <1>5, <1>6, CommitEnds DEF Before

\* A row that is not read back loses its blob, and no other row does.
LEMMA ReadEnds ==
  ASSUME IInv, NEW q \in DOMAIN reqs, NEW S, Changes(q, S),
         S \cap (Before \cup {"remove"}) = {}, reqs[q].pc = "refresh",
         UNCHANGED <<client, other, left, dirs, rows, sessions>>,
         ReadBack(q) \/ ReadBackFails(q)
  PROVE  IInv'
<1>1. /\ Ids(rows)' = Ids(rows) /\ blobs' \subseteq blobs /\ blobs \subseteq blobs' \cup {q}
      /\ torn \subseteq torn' /\ (q \in Ids(rows) => q \in blobs' \cup torn' \/ blobs' = blobs)
  BY DEF ReadBack, ReadBackFails, Ids
<1>2. ASSUME NEW x \in DOMAIN reqs, reqs[x].pc \in {"commit", "remove"}
      PROVE  /\ x \in DOMAIN reqs' /\ reqs'[x].pc = reqs[x].pc /\ reqs'[x].sess = reqs[x].sess
             /\ x # q
  BY <1>2 DEF Changes
<1>3. Moved'
  BY <1>1 DEF IInv, Moved, Changes, Before
<1>4. BlobsHaveRows'
  <2>1. Ids(rows)' \subseteq blobs' \cup torn'
    BY <1>1 DEF IInv, BlobsHaveRows
  <2>2. blobs' \subseteq Ids(rows)' \cup left \cup other.ids \cup {x \in DOMAIN reqs' : reqs'[x].pc = "commit"}
    BY <1>1, <1>2 DEF IInv, BlobsHaveRows
  <2>3. DOMAIN dirs' \subseteq {s.id : s \in sessions'} \cup left \cup other.sessions
                             \cup {reqs'[x].sess : x \in {y \in DOMAIN reqs' : reqs'[y].pc = "remove"}}
    BY <1>2 DEF IInv, BlobsHaveRows
  <2> QED BY <2>1, <2>2, <2>3 DEF BlobsHaveRows
<1>5. \A s \in sessions' : IsSession(s) /\ s \in sessions
  BY DEF IInv, Tables
<1> QED BY <1>3, <1>4, <1>5, ServerInv DEF Before

LEMMA RefreshSteps ==
  ASSUME IInv, NEW q \in DOMAIN reqs, Refresh(q) \/ RefreshComplete(q) PROVE IInv'
<1>1. IsRequest(reqs[q]) /\ reqs[q].pc = "refresh" /\ (ReadBack(q) \/ ReadBackFails(q))
  BY DEF Refresh, RefreshComplete, Is, IInv, Requests
<1>u. UNCHANGED <<client, other, left, dirs, rows, sessions>> /\ asked' = asked
  BY DEF Refresh, RefreshComplete, tables, rest
<1> DEFINE r(res) == [reqs[q] EXCEPT !.pc = "release", !.res = res]
<1>2. \E res : reqs' = [reqs EXCEPT ![q] = r(res)] \/ End(q, res)
  BY DEF Refresh, RefreshComplete, To
<1>3. ASSUME NEW res
      PROVE  /\ r(res).pc = "release" /\ r(res).sess = reqs[q].sess
             /\ r(res).kind = reqs[q].kind /\ IsRequest(r(res))
  BY <1>1 DEF IsRequest
<1> HIDE DEF r
<1>4. Changes(q, {"release"}) \/ Changes(q, {"answered"})
  BY <1>u, <1>2, <1>3, ToChanges, EndChanges DEF IInv
<1>5. Changes(q, {"release", "answered"})
  BY <1>4 DEF Changes
<1> QED BY <1>1, <1>u, <1>5, ReadEnds DEF Before

\* A new session, and its directory, have the id of a request that is under way, which
\* is no session that another request is about.
LEMMA StartStep == ASSUME IInv, NEW q \in DOMAIN reqs, Start(q) PROVE IInv'
<1>1. reqs[q].pc = "counted"
  BY DEF Start, Is
<1>2. Changes(q, {"answered"})
  BY EndChanges DEF Start, IInv
<1>u. UNCHANGED <<client, other, left, torn, rows, blobs>>
  BY DEF Start, rest
<1>3. CASE UNCHANGED <<sessions, dirs>>
  BY <1>1, <1>2, <1>3, <1>u, QuietStep DEF Before
<1>4. CASE /\ sessions' = sessions \cup {[id |-> q, up |-> reqs[q].up, vault |-> "old", old |-> FALSE]}
           /\ dirs' = With(dirs, q, {})
  <2> DEFINE new == [id |-> q, up |-> reqs[q].up, vault |-> "old", old |-> FALSE]
  <2>1. new.id = q /\ new.vault = "old" /\ IsSession(new)
    BY DEF IsSession
  <2>2. sessions' = sessions \cup {new} /\ DOMAIN dirs' = DOMAIN dirs \cup {q}
    BY <1>4 DEF With
  <2> HIDE DEF new
  <2>3. \A x \in DOMAIN reqs : reqs[x].sess # q
    <3>1. DOMAIN reqs \subseteq Uploads \X Nat
      BY DEF IInv, Requests, Used
    <3>2. q # None
      BY <3>1 DEF None
    <3> QED BY <3>2 DEF IInv, Requests, Over
  <2>4. Moved'
    BY <1>u, <1>2, <2>2, <2>3 DEF IInv, Moved, Changes
  <2>5. BlobsHaveRows'
    <3>1. {s.id : s \in sessions'} = {s.id : s \in sessions} \cup {q}
      BY <2>1, <2>2
    <3>2. ASSUME NEW x \in DOMAIN reqs, reqs[x].pc \in {"commit", "remove"}
          PROVE  x \in DOMAIN reqs' /\ reqs'[x].pc = reqs[x].pc /\ reqs'[x].sess = reqs[x].sess
      BY <1>1, <1>2, <3>2 DEF Changes
    <3> QED BY <1>u, <2>2, <3>1, <3>2 DEF IInv, BlobsHaveRows, Ids
  <2>6. \A s \in sessions' : IsSession(s) /\ (s \in sessions \/ s.vault = "old")
    BY <2>1, <2>2 DEF IInv, Tables
  <2> QED BY <1>u, <1>2, <2>4, <2>5, <2>6, ServerInv DEF Before
<1> QED BY <1>3, <1>4 DEF Start

\* The session's file leaves its directory as it becomes a blob.
LEMMA CompleteStep == ASSUME IInv, NEW q \in DOMAIN reqs, Complete(q) PROVE IInv'
<1>1. reqs[q].pc = "arrive"
  BY DEF Complete, Is
<1>u. UNCHANGED <<client, other, left, torn, rows, sessions>> /\ asked' = asked
  BY DEF Complete, tables, rest, history
<1>2. CASE End(q, "refused") /\ UNCHANGED disk
  <2>1. Changes(q, {"answered"})
    BY <1>2, <1>u, EndChanges DEF IInv
  <2> QED BY <1>1, <1>2, <1>u, <2>1, QuietStep DEF Before, disk
<1>3. CASE GoTo(q, "commit") /\ blobs' = blobs \cup {q} /\ dirs' = Without(dirs, reqs[q].sess)
  <2>1. Changes(q, {"commit"}) /\ DOMAIN reqs' = DOMAIN reqs
    BY <1>3, <1>u, GoToChanges DEF IInv
  <2>2. DOMAIN dirs' = DOMAIN dirs \ {reqs[q].sess}
    BY <1>3 DEF Without, Restrict
  <2>3. Moved'
    BY <1>3, <2>1, <2>2 DEF IInv, Moved, Changes
  <2>4. BlobsHaveRows'
    <3>1. ASSUME NEW x \in DOMAIN reqs, reqs[x].pc \in {"commit", "remove"}
          PROVE  x \in DOMAIN reqs' /\ reqs'[x].pc = reqs[x].pc /\ reqs'[x].sess = reqs[x].sess
      BY <1>1, <2>1, <3>1 DEF Changes
    <3>2. q \in DOMAIN reqs' /\ reqs'[q].pc = "commit"
      BY <2>1 DEF Changes
    <3> QED BY <1>u, <1>3, <2>2, <3>1, <3>2 DEF IInv, BlobsHaveRows, Ids
  <2>5. \A s \in sessions' : IsSession(s) /\ s \in sessions
    BY <1>u DEF IInv, Tables
  <2> QED BY <1>1, <1>u, <2>1, <2>3, <2>4, <2>5, ServerInv DEF Before
<1> QED BY <1>2, <1>3 DEF Complete

\* Between the two steps of an abort, the request is responsible for the directory.
LEMMA AbortSteps ==
  ASSUME IInv, NEW q \in DOMAIN reqs, AbortRow(q) \/ AbortDir(q) PROVE IInv'
<1>u. UNCHANGED <<client, other, left, torn, rows, blobs>> /\ asked' = asked
  BY DEF AbortRow, AbortDir, disk, tables, rest, history
<1>1. CASE AbortRow(q)
  <2>1. reqs[q].pc = "arrive" /\ UNCHANGED dirs
    BY <1>1 DEF AbortRow, Is, disk
  <2>2. CASE End(q, "refused") /\ UNCHANGED sessions
    <3>1. Changes(q, {"answered"})
      BY <2>2, <1>u, EndChanges DEF IInv
    <3> QED BY <1>u, <2>1, <2>2, <3>1, QuietStep DEF Before
  <2>3. CASE sessions' = {x \in sessions : x.id # reqs[q].sess} /\ GoTo(q, "remove")
    <3>1. Changes(q, {"remove"}) /\ DOMAIN reqs' = DOMAIN reqs
      BY <2>3, <1>u, GoToChanges DEF IInv
    <3>2. Moved'
      BY <1>u, <2>1, <3>1 DEF IInv, Moved, Changes
    <3>3. BlobsHaveRows'
      <4>1. ASSUME NEW x \in DOMAIN reqs, reqs[x].pc \in {"commit", "remove"}
            PROVE  x \in DOMAIN reqs' /\ reqs'[x].pc = reqs[x].pc /\ reqs'[x].sess = reqs[x].sess
        BY <2>1, <3>1, <4>1 DEF Changes
      <4>2. q \in DOMAIN reqs' /\ reqs'[q].pc = "remove" /\ reqs'[q].sess = reqs[q].sess
        BY <3>1 DEF Changes
      <4>3. {s.id : s \in sessions} \subseteq {s.id : s \in sessions'} \cup {reqs[q].sess}
        BY <2>3
      <4> QED BY <1>u, <2>1, <4>1, <4>2, <4>3 DEF IInv, BlobsHaveRows, Ids
    <3>4. \A s \in sessions' : IsSession(s) /\ s \in sessions
      BY <2>3 DEF IInv, Tables
    <3> QED BY <1>u, <2>1, <3>1, <3>2, <3>3, <3>4, ServerInv DEF Before
  <2> QED BY <1>1, <2>2, <2>3 DEF AbortRow
<1>2. CASE AbortDir(q)
  <2>1. reqs[q].pc = "remove" /\ sessions' = sessions
    BY <1>2 DEF AbortDir, Is, tables
  <2>2. DOMAIN dirs' = DOMAIN dirs \ {reqs[q].sess}
    BY <1>2 DEF AbortDir, Without, Restrict
  <2>3. Changes(q, {"answered"})
    BY <1>2, <1>u, EndChanges DEF AbortDir, IInv
  <2>4. Moved'
    BY <1>u, <2>1, <2>2, <2>3 DEF IInv, Moved, Changes
  <2>5. BlobsHaveRows'
    <3>1. ASSUME NEW x \in DOMAIN reqs \ {q}, reqs[x].pc \in {"commit", "remove"}
          PROVE  x \in DOMAIN reqs' /\ reqs'[x].pc = reqs[x].pc /\ reqs'[x].sess = reqs[x].sess
      BY <2>3, <3>1 DEF Changes
    <3> QED BY <1>u, <2>1, <2>2, <3>1 DEF IInv, BlobsHaveRows, Ids
  <2>6. \A s \in sessions' : IsSession(s) /\ s \in sessions
    BY <2>1 DEF IInv, Tables
  <2> QED BY <1>u, <2>3, <2>4, <2>5, <2>6, ServerInv DEF Before
<1> QED BY <1>1, <1>2
-----------------------------------------------------------------------------
(* The client's steps, one by one. *)

LEMMA PostSteps ==
  ASSUME IInv, NEW u \in Uploads, Send(u) \/ Abort(u) \/ \E i \in Parts : SendPart(u, i)
  PROVE  IInv'
<1>1. UNCHANGED server
  BY DEF Send, Abort, SendPart, server, disk, tables, rest, history
<1>2. DOMAIN client = Uploads /\ \A v \in Uploads : IsClient(client[v])
  BY DEF IInv, Clients
<1>3. CASE Send(u)
  <2>1. client' = [client EXCEPT ![u] = [client[u] EXCEPT !.pc = "wait", !.req = NextId(u)]]
    BY <1>3 DEF Send, Let
  <2>2. SameSessions
    BY <1>2, <2>1 DEF SameSessions, IsClient
  <2>3. \E kind : Post(u, kind, 0)
    BY <1>3 DEF Send
  <2> QED BY <1>1, <2>2, <2>3, PostStep
<1>4. CASE Abort(u)
  <2>1. client' = [client EXCEPT ![u] = [client[u] EXCEPT !.pc = "failed"]]
    BY <1>4 DEF Abort, Let
  <2>2. SameSessions
    BY <1>2, <2>1 DEF SameSessions, IsClient
  <2> QED BY <1>1, <1>4, <2>2, PostStep DEF Abort
<1>5. CASE \E i \in Parts : SendPart(u, i)
  <2>1. PICK i \in Parts : SendPart(u, i)
    BY <1>5
  <2>2. \E p : client' = [client EXCEPT ![u].part[i] = p]
    BY <2>1 DEF SendPart, PartWith
  <2>3. SameSessions
    BY <1>2, <2>2 DEF SameSessions, IsClient
  <2> QED BY <1>1, <2>1, <2>3, PostStep DEF SendPart
<1> QED BY <1>3, <1>4, <1>5

\* What becomes of an attempt leaves the session as it is.
LEMMA AgainProps ==
  ASSUME NEW u, NEW c, IsClient(c)
  PROVE  /\ IsClient(Again(u, c)) /\ Again(u, c).sess = c.sess
         /\ IsClient(GivenUp(c)) /\ GivenUp(c).sess = c.sess
<1>1. IsClient(GivenUp(c)) /\ GivenUp(c).sess = c.sess
  BY DEF IsClient, GivenUp
<1> QED BY <1>1 DEF IsClient, Again

LEMMA NoteSteps ==
  ASSUME IInv, NEW u \in Uploads,
         \/ Receive(u) \/ LoseAnswer(u)
         \/ \E i \in Parts : ReceivePart(u, i) \/ LosePart(u, i)
  PROVE  IInv'
<1>1. UNCHANGED server /\ asked' = asked
  BY DEF Receive, LoseAnswer, ReceivePart, LosePart, server, disk, tables, rest, history
<1>2. DOMAIN client = Uploads /\ \A v \in Uploads : IsClient(client[v])
  BY DEF IInv, Clients
<1>3. CASE Receive(u)
  <2> DEFINE c == client[u]
  <2>1. c.req \in DOMAIN reqs /\ reqs[c.req].pc = "answered" /\ reqs' = Without(reqs, c.req)
    BY <1>3 DEF Receive
  <2>2. DOMAIN reqs' = DOMAIN reqs \ {c.req}
    BY <2>1 DEF Without, Restrict
  <2>3. PICK d : client' = [client EXCEPT ![u] = d] /\ IsClient(d) /\ d.sess \in {c.sess, c.req}
    <3> DEFINE d == CASE reqs[c.req].res = "ok" /\ reqs[c.req].kind = "start" ->
                           [c EXCEPT !.pc = "parts", !.req = None, !.sess = c.req, !.tries = 0]
                      [] reqs[c.req].res = "ok" /\ reqs[c.req].kind # "start" ->
                           [c EXCEPT !.pc = "done", !.id = c.req]
                      [] reqs[c.req].res = "broken" -> Again(u, c)
                      [] OTHER -> GivenUp(c)
    <3>1. client' = [client EXCEPT ![u] = d]
      BY <1>3 DEF Receive, Let
    <3>2. IsClient(c)
      BY <1>2
    <3>3. /\ IsClient(Again(u, c)) /\ Again(u, c).sess = c.sess
          /\ IsClient(GivenUp(c)) /\ GivenUp(c).sess = c.sess
      BY <3>2, AgainProps
    <3>4. LET e == [c EXCEPT !.pc = "parts", !.req = None, !.sess = c.req, !.tries = 0] IN
            IsClient(e) /\ e.sess = c.req
      BY <3>2 DEF IsClient
    <3>5. LET e == [c EXCEPT !.pc = "done", !.id = c.req] IN IsClient(e) /\ e.sess = c.sess
      BY <3>2 DEF IsClient
    <3>6. IsClient(d) /\ d.sess \in {c.sess, c.req}
      BY <3>3, <3>4, <3>5
    <3> QED BY <3>1, <3>6
  <2>4. /\ DOMAIN client' = Uploads
        /\ \A v \in Uploads : /\ IsClient(client'[v])
                               /\ \/ client'[v].sess = client[v].sess
                                  \/ client'[v].sess \in DOMAIN reqs \ DOMAIN reqs'
    BY <1>2, <2>1, <2>2, <2>3
  <2>5. /\ Changes(c.req, {reqs[c.req].pc})
        /\ \A x \in DOMAIN reqs \ DOMAIN reqs' : reqs[x].pc = "answered"
    BY <1>1, <2>1, UnheardChanges DEF IInv
  <2> HIDE DEF c
  <2> QED BY <1>1, <2>4, <2>5, NoteStep
<1>4. CASE LoseAnswer(u)
  <2>1. client' = [client EXCEPT ![u] = Again(u, client[u])] /\ reqs' = Unheard(client[u].req)
    BY <1>4 DEF LoseAnswer, Let
  <2>2. /\ DOMAIN client' = Uploads
        /\ \A v \in Uploads : IsClient(client'[v]) /\ client'[v].sess = client[v].sess
    BY <1>2, <2>1, AgainProps
  <2>3. PICK q : reqs' = Unheard(q)
    BY <2>1
  <2>4. Changes(q, {reqs[q].pc}) /\ \A x \in DOMAIN reqs \ DOMAIN reqs' : reqs[x].pc = "answered"
    BY <1>1, <2>3, UnheardChanges DEF IInv
  <2> QED BY <1>1, <2>2, <2>4, NoteStep
<1>5. CASE \E i \in Parts : ReceivePart(u, i) \/ LosePart(u, i)
  <2>1. PICK i \in Parts : ReceivePart(u, i) \/ LosePart(u, i)
    BY <1>5
  <2>2. \E p : client' = [client EXCEPT ![u].part[i] = p]
    BY <2>1 DEF ReceivePart, LosePart, PartWith
  <2>3. /\ DOMAIN client' = Uploads
        /\ \A v \in Uploads : IsClient(client'[v]) /\ client'[v].sess = client[v].sess
    BY <1>2, <2>2 DEF IsClient
  <2>4. PICK q : \/ reqs' = Unheard(q)
                 \/ q \in DOMAIN reqs /\ reqs[q].pc = "answered" /\ reqs' = Without(reqs, q)
    BY <2>1 DEF ReceivePart, LosePart
  <2>5. Changes(q, {reqs[q].pc}) /\ \A x \in DOMAIN reqs \ DOMAIN reqs' : reqs[x].pc = "answered"
    BY <1>1, <2>4, UnheardChanges DEF IInv
  <2> QED BY <1>1, <2>3, <2>5, NoteStep
<1> QED BY <1>3, <1>4, <1>5

\* Steps of the client alone.
LEMMA OwnSteps ==
  ASSUME IInv, NEW u \in Uploads, Look(u) \/ PartsEnd(u)
  PROVE  IInv'
<1>1. UNCHANGED server /\ UNCHANGED <<asked, reqs>>
  BY DEF Look, PartsEnd, server, disk, tables, rest, history
<1>2. DOMAIN client = Uploads /\ \A v \in Uploads : IsClient(client[v])
  BY DEF IInv, Clients
<1>3. \/ \E p, id : client' = [client EXCEPT ![u] = [client[u] EXCEPT !.pc = p, !.id = id]]
      \/ \E p : client' = [client EXCEPT ![u] = [client[u] EXCEPT !.pc = p]]
  BY DEF Look, PartsEnd, Let
<1>4. /\ DOMAIN client' = Uploads
      /\ \A v \in Uploads : IsClient(client'[v]) /\ client'[v].sess = client[v].sess
  BY ZenonT(40), <1>2, <1>3 DEF IsClient
<1>5. Changes(None, {reqs[None].pc})
  BY <1>1 DEF Changes, IInv, Requests
<1> QED BY <1>1, <1>4, <1>5, NoteStep
-----------------------------------------------------------------------------
(* The other request, and the age of a session. *)

\* A step that changes no request.
LEMMA OtherInv ==
  ASSUME IInv, UNCHANGED <<client, asked, reqs>>, Fresh', Moved', Tables', Noted', BlobsHaveRows'
  PROVE  IInv'
<1>1. Used' = Used
  BY DEF Used
<1>2. \A x : Over(x) => Over(x)'
  BY <1>1 DEF Over
<1>3. Clients' /\ Requests'
  BY <1>1, <1>2 DEF IInv, Clients, Requests
<1> QED BY <1>3 DEF IInv

LEMMA ExpireStep == ASSUME IInv, NEW x \in sessions, Expire(x) PROVE IInv'
<1> DEFINE y == [x EXCEPT !.old = TRUE]
<1>1. UNCHANGED <<client, asked, reqs, rows, blobs, dirs, other, left, torn>>
  BY DEF Expire, disk, rest, history
<1>2. IsSession(x)
  BY DEF IInv, Tables
<1>3. IsSession(y) /\ y.id = x.id /\ y.vault = x.vault
  BY <1>2 DEF IsSession
<1>4. sessions' = (sessions \ {x}) \cup {y}
  BY DEF Expire
<1> HIDE DEF y
<1>5. {s.id : s \in sessions'} = {s.id : s \in sessions}
  BY <1>3, <1>4
<1>6. Fresh' /\ Moved'
  BY <1>1 DEF IInv, Fresh, Moved, Ids, Used
<1>7. Tables'
  BY <1>1, <1>3, <1>4 DEF IInv, Tables
<1>8. Noted'
  BY <1>1 DEF IInv, Noted, Ids
<1>9. BlobsHaveRows'
  BY <1>1, <1>5 DEF IInv, BlobsHaveRows, Ids
<1> QED BY <1>1, <1>6, <1>7, <1>8, <1>9, OtherInv

\* The id of a deleted row is no other row's.
LEMMA DeleteSteps ==
  ASSUME IInv, (\E r \in rows : DeleteRow(r)) \/ DeleteBlob
  PROVE  IInv'
<1>u. UNCHANGED <<client, asked, reqs, sessions, dirs, left, torn>>
  BY DEF DeleteRow, DeleteBlob, disk, tables, Frame
<1>1. CASE \E r \in rows : DeleteRow(r)
  <2>1. PICK r \in rows : DeleteRow(r)
    BY <1>1
  <2>2. /\ rows' = rows \ {r} /\ blobs' = blobs /\ other.pc = "delete"
        /\ other' = [other EXCEPT !.pc = "unlink", !.ids = {r.id}]
    BY <2>1 DEF DeleteRow, disk
  <2>3. /\ {"pc", "ids", "sessions"} \subseteq DOMAIN other'
        /\ other'.pc = "unlink" /\ other'.ids = {r.id} /\ other'.sessions = other.sessions
    BY <2>2 DEF IInv, Noted
  <2>4. Ids(rows)' = Ids(rows) \ {r.id} /\ r.id \in Ids(rows)
    BY <2>2 DEF IInv, Tables, Ids
  <2>5. other.ids = {} /\ other.sessions = {}
    BY <2>2 DEF IInv, Noted
  <2>6. Fresh' /\ Moved'
    BY ZenonT(40), <1>u, <2>2, <2>3, <2>4 DEF IInv, Fresh, Moved, Used
  <2>7. Tables'
    BY <1>u, <2>2 DEF IInv, Tables
  <2>8. Noted'
    BY <2>3, <2>4, <2>5 DEF Noted
  <2>9. BlobsHaveRows'
    <3>1. Ids(rows)' \subseteq blobs' \cup torn'
      BY <1>u, <2>2, <2>4 DEF IInv, BlobsHaveRows
    <3>2. blobs' \subseteq Ids(rows)' \cup left' \cup other'.ids \cup {q \in DOMAIN reqs' : reqs'[q].pc = "commit"}
      BY <1>u, <2>2, <2>3, <2>4, <2>5 DEF IInv, BlobsHaveRows
    <3>3. DOMAIN dirs' \subseteq {s.id : s \in sessions'} \cup left' \cup other'.sessions
                               \cup {reqs'[q].sess : q \in {x \in DOMAIN reqs' : reqs'[x].pc = "remove"}}
      BY <1>u, <2>3 DEF IInv, BlobsHaveRows
    <3> QED BY <3>1, <3>2, <3>3 DEF BlobsHaveRows
  <2> QED BY <1>u, <2>6, <2>7, <2>8, <2>9, OtherInv
<1>2. CASE DeleteBlob
  <2>2. /\ rows' = rows /\ blobs' = blobs \ other.ids /\ other.pc = "unlink"
        /\ other' = [other EXCEPT !.pc = "done", !.ids = {}]
    BY <1>2 DEF DeleteBlob, tables
  <2>3. /\ {"pc", "ids", "sessions"} \subseteq DOMAIN other'
        /\ other'.pc = "done" /\ other'.ids = {} /\ other'.sessions = other.sessions
    BY <2>2 DEF IInv, Noted
  <2>4. Ids(rows)' = Ids(rows) /\ other.ids \cap Ids(rows) = {} /\ other.sessions = {}
    BY <2>2 DEF IInv, Noted, Ids
  <2>6. Fresh' /\ Moved'
    BY <1>u, <2>2, <2>3, <2>4 DEF IInv, Fresh, Moved, Used, Before
  <2>7. Tables'
    BY <1>u, <2>2, <2>3 DEF IInv, Tables
  <2>8. Noted'
    BY <2>3, <2>4 DEF Noted
  <2>9. BlobsHaveRows'
    BY <1>u, <2>2, <2>3, <2>4 DEF IInv, BlobsHaveRows
  <2> QED BY <1>u, <2>6, <2>7, <2>8, <2>9, OtherInv
<1> QED BY <1>1, <1>2

\* What a wipe clears is what it has noted, or left.
LEMMA WipeSteps ==
  ASSUME IInv, WipeList \/ WipeTables \/ WipeBlobs \/ WipeDirs
  PROVE  IInv'
<1>u. UNCHANGED <<client, asked, reqs, torn>>
  BY DEF WipeList, WipeTables, WipeBlobs, WipeDirs, Frame
<1>o. {"pc", "ids", "sessions"} \subseteq DOMAIN other
  BY DEF IInv, Noted
<1>1. CASE WipeList
  <2>1. /\ UNCHANGED <<rows, blobs, sessions, dirs, left>> /\ other.pc = "wipe"
        /\ other'.pc = "clear" /\ other'.ids = Ids(In("old"))
        /\ {"pc", "ids", "sessions"} \subseteq DOMAIN other'
    BY <1>1 DEF WipeList, disk, tables, Frame
  <2>2. Ids(In("old")) \subseteq Ids(rows) /\ Ids(rows)' = Ids(rows)
    BY <2>1 DEF Ids, In
  <2>3. other.ids = {} /\ other.sessions = {}
    BY <2>1 DEF IInv, Noted
  <2>4. Fresh' /\ Moved'
    BY <1>u, <2>1, <2>2 DEF IInv, Fresh, Moved, Used
  <2>5. Tables'
    BY <2>1 DEF IInv, Tables
  <2>6. Noted'
    BY <2>1 DEF Noted
  <2>7. BlobsHaveRows'
    BY <1>u, <2>1, <2>2, <2>3 DEF IInv, BlobsHaveRows
  <2> QED BY <1>u, <2>4, <2>5, <2>6, <2>7, OtherInv
<1>2. CASE WipeTables
  <2> DEFINE cleared == IF other.ids = {} THEN {} ELSE In("old")
             closed  == IF other.sessions = {} THEN {} ELSE {s \in sessions : s.vault = "old"}
  <2>1. /\ UNCHANGED <<blobs, dirs>> /\ other.pc = "clear"
        /\ rows' = rows \ cleared /\ sessions' = sessions \ closed
        /\ left' = left \cup (Ids(cleared) \ other.ids) \cup ({s.id : s \in closed} \ other.sessions)
        /\ other' = [other EXCEPT !.pc = "blobs"]
    BY <1>2 DEF WipeTables, OtherTo, disk
  <2>2. /\ {"pc", "ids", "sessions"} \subseteq DOMAIN other'
        /\ other'.pc = "blobs" /\ other'.ids = other.ids /\ other'.sessions = other.sessions
    BY <1>o, <2>1
  <2>3. In("old") = rows
    BY <2>1 DEF IInv, Tables, In
  <2>4. other.ids # {} => rows' = {}
    BY <2>1, <2>3
  <2>5. Ids(rows)' \subseteq Ids(rows) /\ Ids(rows) \subseteq Ids(rows)' \cup Ids(cleared)
    BY <2>1 DEF Ids
  <2>6. {s.id : s \in sessions} \subseteq {s.id : s \in sessions'} \cup {s.id : s \in closed}
    BY <2>1
  <2>7. Fresh' /\ Moved'
    BY <1>u, <2>1, <2>2, <2>5 DEF IInv, Fresh, Moved, Used
  <2>8. Tables'
    BY <2>1, <2>2 DEF IInv, Tables
  <2>9. Noted'
    BY <2>2, <2>4 DEF Noted, Ids
  <2>10. BlobsHaveRows'
    <3> HIDE DEF cleared, closed
    <3>1. Ids(rows)' \subseteq blobs' \cup torn'
      BY <1>u, <2>1, <2>5 DEF IInv, BlobsHaveRows
    <3>2. blobs' \subseteq Ids(rows)' \cup left' \cup other'.ids \cup {q \in DOMAIN reqs' : reqs'[q].pc = "commit"}
      BY <1>u, <2>1, <2>2, <2>5 DEF IInv, BlobsHaveRows
    <3>3. DOMAIN dirs' \subseteq {s.id : s \in sessions'} \cup left' \cup other'.sessions
                               \cup {reqs'[q].sess : q \in {x \in DOMAIN reqs' : reqs'[x].pc = "remove"}}
      BY <1>u, <2>1, <2>2, <2>6 DEF IInv, BlobsHaveRows
    <3> QED BY <3>1, <3>2, <3>3 DEF BlobsHaveRows
  <2> QED BY <1>u, <2>7, <2>8, <2>9, <2>10, OtherInv
<1>3. CASE WipeBlobs
  <2>1. /\ UNCHANGED <<rows, sessions, dirs, left>> /\ other.pc = "blobs"
        /\ blobs' = blobs \ other.ids
        /\ other' = [other EXCEPT !.pc = "dirs", !.ids = {}]
    BY <1>3 DEF WipeBlobs, tables
  <2>2. /\ {"pc", "ids", "sessions"} \subseteq DOMAIN other'
        /\ other'.pc = "dirs" /\ other'.ids = {} /\ other'.sessions = other.sessions
    BY <1>o, <2>1
  <2>3. Ids(rows)' = Ids(rows) /\ other.ids \cap Ids(rows) = {}
    BY <2>1 DEF IInv, Noted, Ids
  <2>4. Fresh' /\ Moved'
    BY <1>u, <2>1, <2>2, <2>3 DEF IInv, Fresh, Moved, Used, Before
  <2>5. Tables'
    BY <2>1, <2>2 DEF IInv, Tables
  <2>6. Noted'
    BY <2>2 DEF Noted
  <2>7. BlobsHaveRows'
    BY <1>u, <2>1, <2>2, <2>3 DEF IInv, BlobsHaveRows
  <2> QED BY <1>u, <2>4, <2>5, <2>6, <2>7, OtherInv
<1>4. CASE WipeDirs
  <2>1. /\ UNCHANGED <<rows, sessions, blobs, left>> /\ other.pc = "dirs"
        /\ DOMAIN dirs' = DOMAIN dirs \ other.sessions
        /\ other' = [other EXCEPT !.pc = "done", !.sessions = {}]
    BY <1>4 DEF WipeDirs, tables, Restrict
  <2>2. /\ {"pc", "ids", "sessions"} \subseteq DOMAIN other'
        /\ other'.pc = "done" /\ other'.ids = other.ids /\ other'.sessions = {}
    BY <1>o, <2>1
  <2>3. Ids(rows)' = Ids(rows) /\ other.ids = {}
    BY <2>1 DEF IInv, Noted, Ids
  <2>4. Fresh' /\ Moved'
    BY <1>u, <2>1, <2>2, <2>3 DEF IInv, Fresh, Moved, Used
  <2>5. Tables'
    BY <2>1, <2>2 DEF IInv, Tables
  <2>6. Noted'
    BY <2>2, <2>3 DEF Noted
  <2>7. BlobsHaveRows'
    BY <1>u, <2>1, <2>2, <2>3 DEF IInv, BlobsHaveRows
  <2> QED BY <1>u, <2>4, <2>5, <2>6, <2>7, OtherInv
<1> QED BY <1>1, <1>2, <1>3, <1>4

\* A rotation moves rows and sessions, which keep their ids.
LEMMA RotateSteps ==
  ASSUME IInv, RotateCheck \/ RotateMove \/ Rebind
  PROVE  IInv'
<1>u. UNCHANGED <<client, asked, reqs, blobs, dirs, left, torn>>
  BY DEF RotateCheck, RotateMove, Rebind, Frame, disk
<1>o. {"pc", "ids", "sessions"} \subseteq DOMAIN other
  BY DEF IInv, Noted
<1>1. CASE RotateCheck
  <2>1. /\ UNCHANGED <<rows, sessions>> /\ other.pc = "rotate"
        /\ other' = [other EXCEPT !.pc = "move", !.ids = Ids(In("old"))]
    BY <1>1 DEF RotateCheck, tables
  <2>2. /\ {"pc", "ids", "sessions"} \subseteq DOMAIN other'
        /\ other'.pc = "move" /\ other'.ids = Ids(In("old")) /\ other'.sessions = other.sessions
    BY <1>o, <2>1
  <2>3. Ids(In("old")) \subseteq Ids(rows) /\ Ids(rows)' = Ids(rows)
    BY <2>1 DEF Ids, In
  <2>4. other.ids = {} /\ other.sessions = {}
    BY <2>1 DEF IInv, Noted
  <2>5. Fresh' /\ Moved'
    BY <1>u, <2>2, <2>3 DEF IInv, Fresh, Moved, Used
  <2>6. Tables'
    BY <2>1 DEF IInv, Tables
  <2>7. Noted'
    BY <2>2, <2>3, <2>4 DEF Noted
  <2>8. BlobsHaveRows'
    BY <1>u, <2>1, <2>2, <2>3, <2>4 DEF IInv, BlobsHaveRows
  <2> QED BY <1>u, <2>5, <2>6, <2>7, <2>8, OtherInv
<1>2. CASE RotateMove
  <2> DEFINE row(r)  == IF r.id \in other.ids THEN [r EXCEPT !.vault = "new"] ELSE r
             sess(s) == [s EXCEPT !.vault = "new"]
  <2>1. /\ other.pc = "move" /\ other' = [other EXCEPT !.pc = "rebind"]
        /\ rows' = {row(r) : r \in rows} /\ sessions' = {sess(s) : s \in sessions}
    BY <1>2 DEF RotateMove, OtherTo
  <2>2. /\ {"pc", "ids", "sessions"} \subseteq DOMAIN other'
        /\ other'.pc = "rebind" /\ other'.ids = other.ids /\ other'.sessions = other.sessions
    BY <1>o, <2>1
  <2>3. \A r \in rows : IsRow(row(r)) /\ row(r).id = r.id
    BY DEF IInv, Tables, IsRow
  <2>4. \A s \in sessions : IsSession(sess(s)) /\ sess(s).id = s.id
    BY DEF IInv, Tables, IsSession
  <2>5. \A r \in rows : \A x \in rows : x.id = r.id => x = r
    BY DEF IInv, Tables
  <2> HIDE DEF row, sess
  <2>6. Ids(rows)' = Ids(rows) /\ {s.id : s \in sessions'} = {s.id : s \in sessions}
    BY <2>1, <2>3, <2>4 DEF Ids
  <2>7. Fresh' /\ Moved'
    BY <1>u, <2>2, <2>6 DEF IInv, Fresh, Moved, Used
  <2>8. Tables'
    <3>1. \A s \in sessions' : IsSession(s)
      BY <2>1, <2>4
    <3>2. \A r \in rows' : IsRow(r) /\ (\A x \in rows' : x.id = r.id => x = r)
      BY <2>1, <2>3, <2>5
    <3> QED BY <2>2, <3>1, <3>2 DEF Tables
  <2>9. Noted'
    BY <2>1, <2>2, <2>6 DEF IInv, Noted
  <2>10. BlobsHaveRows'
    BY <1>u, <2>2, <2>6 DEF IInv, BlobsHaveRows
  <2> QED BY <1>u, <2>7, <2>8, <2>9, <2>10, OtherInv
<1>3. CASE Rebind
  <2>1. /\ UNCHANGED <<rows, sessions>> /\ other.pc = "rebind"
        /\ other' = [other EXCEPT !.pc = "done", !.ids = {}]
    BY <1>3 DEF Rebind, tables
  <2>2. /\ {"pc", "ids", "sessions"} \subseteq DOMAIN other'
        /\ other'.pc = "done" /\ other'.ids = {} /\ other'.sessions = other.sessions
    BY <1>o, <2>1
  <2>3. Ids(rows)' = Ids(rows) /\ other.ids \subseteq Ids(rows) /\ other.sessions = {}
    BY <2>1 DEF IInv, Noted, Ids
  <2>4. Fresh' /\ Moved'
    BY <1>u, <2>2, <2>3 DEF IInv, Fresh, Moved, Used
  <2>5. Tables'
    BY <2>1, <2>2 DEF IInv, Tables
  <2>6. Noted'
    BY <2>2, <2>3 DEF Noted
  <2>7. BlobsHaveRows'
    BY <1>u, <2>1, <2>2, <2>3 DEF IInv, BlobsHaveRows
  <2> QED BY <1>u, <2>4, <2>5, <2>6, <2>7, OtherInv
<1> QED BY <1>1, <1>2, <1>3
-----------------------------------------------------------------------------
LEMMA InitInv == Init => IInv
<1> SUFFICES ASSUME Init PROVE IInv
  OBVIOUS
<1>1. /\ rows = {} /\ blobs = {} /\ sessions = {} /\ DOMAIN dirs = {} /\ DOMAIN reqs = {}
      /\ other = [pc |-> world.other, ids |-> {}, sessions |-> {}]
      /\ left = {} /\ asked = [u \in Uploads |-> 0]
  BY DEF Init
<1>2. other.pc \in {"none", "delete", "wipe", "rotate"}
  BY <1>1, UploadsAssumption DEF Init
<1>3. Clients
  <2>1. DOMAIN client = Uploads /\ \A u \in Uploads : IsClient(client[u]) /\ client[u].sess = None
    BY DEF Init, IsClient
  <2> QED BY <1>1, <2>1 DEF Clients, Over
<1>4. Requests /\ Fresh /\ Moved
  BY <1>1 DEF Requests, Fresh, Moved, Ids
<1>5. Tables /\ Noted
  BY <1>1, <1>2 DEF Tables, Noted, Ids
<1>6. BlobsHaveRows
  BY <1>1 DEF BlobsHaveRows, Ids
<1> QED BY <1>3, <1>4, <1>5, <1>6 DEF IInv

LEMMA StepInv == IInv /\ [Next]_vars => IInv'
<1> SUFFICES ASSUME IInv, [Next]_vars PROVE IInv'
  OBVIOUS
<1>1. CASE \E u \in Uploads : ClientStep(u)
  BY <1>1, PostSteps, NoteSteps, OwnSteps DEF ClientStep
<1>2. CASE \E q \in DOMAIN reqs : ServerStep(q)
  BY <1>2, PurgeStep, CountStep, ReserveStep, WriteStep, CommitStep, ReleaseStep, StartStep,
     PartSteps, CompleteStep, CommitCompleteStep, RefreshSteps, AbortSteps DEF ServerStep
<1>3. CASE \E x \in sessions : Expire(x)
  BY <1>3, ExpireStep
<1>4. CASE (\E r \in rows : DeleteRow(r)) \/ DeleteBlob
  BY <1>4, DeleteSteps
<1>5. CASE WipeList \/ WipeTables \/ WipeBlobs \/ WipeDirs
  BY <1>5, WipeSteps
<1>6. CASE RotateCheck \/ RotateMove \/ Rebind
  BY <1>6, RotateSteps
<1>7. CASE UNCHANGED vars
  <2>1. UNCHANGED <<client, asked, reqs, rows, blobs, sessions, dirs, other, left, torn>>
    BY <1>7 DEF vars
  <2>2. Fresh' /\ Moved' /\ Tables' /\ Noted' /\ BlobsHaveRows'
    BY <2>1 DEF IInv, Fresh, Moved, Tables, Noted, BlobsHaveRows, Ids, Used
  <2> QED BY <2>1, <2>2, OtherInv
<1> QED BY <1>1, <1>2, <1>3, <1>4, <1>5, <1>6, <1>7 DEF Next

\* However uploads, aborts, a delete, a wipe and a rotation come between each other's
\* steps: a row keeps its blob, unless reading the row back after its commit failed and
\* the upload was refused; and a blob or a directory on the disk has a row, a session or
\* a request under way that accounts for it, or was left by a wipe (_finalize_upload,
\* complete_upload, abort_upload, delete_file, _wipe_vault).
THEOREM DiskMatchesTables == Spec => []BlobsHaveRows
<1>1. IInv => BlobsHaveRows
  BY DEF IInv
<1> QED BY <1>1, InitInv, StepInv, PTL DEF Spec

------------------------------------------------------------------------------

\* The bytes of what has the ids of a set.
Size    == [i \in Uploads \X Nat |-> world.size[i[1]]]
Sum(is) == SumFunctionOnSet(Size, is)

Of(u, i) == i = None \/ i[1] = u

IsBooking(q) == {"up", "seen", "usage", "limit"} \subseteq DOMAIN q

\* A request, a row and a session have the size of the upload that their id names.
Named ==
  /\ \A u \in Uploads : /\ "req" \in DOMAIN client[u] /\ Of(u, client[u].sess)
                        /\ client[u].pc = "wait" => client[u].req[1] = u
  /\ \A q \in DOMAIN reqs : /\ IsBooking(reqs[q]) /\ reqs[q].up = q[1] /\ Of(q[1], reqs[q].sess)
                            /\ reqs[q].pc \in Before => q \notin Ids(sessions)
  /\ \A r \in rows : r.up = r.id[1]
  /\ Ids(sessions) \subseteq Used
  /\ \A s \in sessions : "up" \in DOMAIN s /\ s.up = s.id[1] /\ (\A x \in sessions : x.id = s.id => x = s)

Finite == IsFiniteSet(rows) /\ IsFiniteSet(sessions) /\ IsFiniteSet(DOMAIN reqs)

\* The vault's lock lets one check at a time look, and none while an upload in parts ends.
Finishing == {q \in DOMAIN reqs : Is(q, "complete", "commit")}
Locking   == {q \in DOMAIN reqs : \/ reqs[q].pc = "counted"
                                  \/ reqs[q].kind = "complete" /\ reqs[q].pc \in {"commit", "refresh"}}
Locked    ==
  /\ \A q \in Locking : lock = q
  /\ \A q \in Finishing : reqs[q].sess # None

\* A check knows the bytes of the rows that it has seen.
Counted ==
  \A q \in DOMAIN reqs : reqs[q].pc = "counted" =>
    /\ reqs[q].seen \subseteq Used /\ IsFiniteSet(reqs[q].seen)
    /\ reqs[q].usage = Sum(reqs[q].seen)

\* What is reserved is what the requests with a reservation have booked, and whoever
\* has stored a file has booked its size.
Booked == {q \in DOMAIN reqs : reqs[q].kind = "file" /\ reqs[q].pc \in {"write", "commit", "refresh", "release"}}
Limits == [q \in DOMAIN reqs |-> reqs[q].limit]
Reserved ==
  /\ reserved = SumFunctionOnSet(Limits, Booked)
  /\ \A q \in Booked : /\ reqs[q].limit \in 0 .. Size[q]
                       /\ reqs[q].pc = "commit" \/ q \in Ids(rows) => reqs[q].limit = Size[q]

\* The sessions of a vault that count, and those whose file is becoming a row.
Open(v)  == Ids({s \in Alive : s.vault = v})
Leaving  == {reqs[q].sess : q \in Finishing}

\* The vault that uploads go to: whether a row's bytes are still reserved or not, they
\* are counted once.
OldQuota == Sum(Ids(In("old")) \ Ending) + Sum(Open("old") \cup Leaving) + reserved <= world.quota + slip
\* The vault that a rotation has moved: nothing is added to it.
NewQuota == Sum(Ids(In("new"))) + Sum(Open("new")) <= world.quota + slip

QInv == /\ world \in Worlds /\ slip \in Nat
        /\ Named /\ Finite /\ Locked /\ Counted /\ Reserved /\ OldQuota /\ NewQuota
-----------------------------------------------------------------------------
(* Bytes are sums over ids. *)

LEMMA SizeType ==
  ASSUME world \in Worlds
  PROVE  /\ \A i \in Uploads \X Nat : Size[i] \in Nat /\ Size[i] = world.size[i[1]]
         /\ world.quota \in Nat
BY UploadsAssumption DEF Size

LEMMA BytesAre ==
  ASSUME world \in Worlds, NEW rs, IsFiniteSet(rs),
         \A r \in rs : r.id \in Uploads \X Nat /\ r.up = r.id[1],
         \A r \in rs : \A x \in rs : x.id = r.id => x = r
  PROVE  Bytes(rs) = Sum(Ids(rs)) /\ IsFiniteSet(Ids(rs)) /\ Bytes(rs) \in Nat
<1> DEFINE F == [r \in rs |-> world.size[r.up]]
           H == [r \in rs |-> r.id]
<1>1. \A r \in rs : F[r] \in Int /\ Size[H[r]] = F[r]
  BY SizeType
<1>2. \A r \in rs : \A x \in rs : H[r] = H[x] => r = x
  OBVIOUS
<1>3. Bytes(rs) = SumFunctionOnSet(F, rs)
  <2>1. Bytes(rs) = SumFunction(F)
    BY DEF Bytes
  <2>2. DOMAIN F = rs
    OBVIOUS
  <2> HIDE DEF F
  <2>3. SumFunction(F) = SumFunctionOnSet(F, DOMAIN F)
    BY DEF SumFunction, FoldFunction, SumFunctionOnSet
  <2> QED BY <2>1, <2>2, <2>3
<1>4. (\A r \in rs : H[r] \in Ids(rs)) /\ \A i \in Ids(rs) : \E r \in rs : i = H[r]
  BY DEF Ids
<1>5. \A r \in rs : F[r] \in Nat
  BY SizeType
<1> HIDE DEF F, H
<1>6. SumFunctionOnSet(F, rs) = SumFunctionOnSet(Size, Ids(rs)) /\ IsFiniteSet(Ids(rs))
  BY SMTT(20), <1>1, <1>2, <1>4, SumNamed, ImageFinite
<1>7. SumFunctionOnSet(F, rs) \in Nat
  BY <1>5, SumNat
<1> QED BY <1>3, <1>6, <1>7 DEF Sum

\* The ids of rows and of sessions.
LEMMA IdsAre ==
  ASSUME IInv, QInv
  PROVE  /\ IsFiniteSet(Ids(rows)) /\ Ids(rows) \subseteq Uploads \X Nat
         /\ IsFiniteSet(Ids(sessions)) /\ Ids(sessions) \subseteq Uploads \X Nat
         /\ IsFiniteSet(Leaving) /\ Leaving \subseteq Uploads \X Nat
         /\ DOMAIN reqs \subseteq Uploads \X Nat
         /\ \A v : Ids(In(v)) \subseteq Ids(rows) /\ Open(v) \subseteq Ids(sessions)
<1>1. /\ Ids(rows) \subseteq Uploads \X Nat /\ Ids(sessions) \subseteq Uploads \X Nat
      /\ DOMAIN reqs \subseteq Uploads \X Nat
  BY DEF IInv, QInv, Fresh, Requests, Named, Used
<1>2. IsFiniteSet(rows) /\ IsFiniteSet(sessions) /\ IsFiniteSet(DOMAIN reqs)
  BY DEF QInv, Finite
<1>3. IsFiniteSet(Ids(rows)) /\ IsFiniteSet(Ids(sessions))
  <2>1. ASSUME NEW rs, IsFiniteSet(rs) PROVE IsFiniteSet(Ids(rs))
    <3> DEFINE H == [r \in rs |-> r.id]
    <3>1. (\A r \in rs : H[r] \in Ids(rs)) /\ \A i \in Ids(rs) : \E r \in rs : i = H[r]
      BY DEF Ids
    <3> HIDE DEF H
    <3> QED BY <2>1, <3>1, ImageFinite
  <2> QED BY <1>2, <2>1
<1>5. IsFiniteSet(Leaving)
  <2>1. IsFiniteSet(Finishing)
    BY <1>2, FS_Subset DEF Finishing
  <2> DEFINE H == [q \in Finishing |-> reqs[q].sess]
  <2>2. (\A q \in Finishing : H[q] \in Leaving) /\ \A s \in Leaving : \E q \in Finishing : s = H[q]
    BY DEF Leaving
  <2> HIDE DEF H
  <2> QED BY <2>1, <2>2, ImageFinite
<1>6. Leaving \subseteq Uploads \X Nat
  BY DEF Leaving, Finishing, IInv, QInv, Locked, Requests, Over, Used
<1>7. \A v : Ids(In(v)) \subseteq Ids(rows) /\ Open(v) \subseteq Ids(sessions)
  BY DEF Ids, In, Open, Alive
<1> QED BY <1>1, <1>3, <1>5, <1>6, <1>7

LEMMA SumIs ==
  ASSUME world \in Worlds, NEW is, IsFiniteSet(is), is \subseteq Uploads \X Nat
  PROVE  /\ Sum(is) \in Nat
         /\ \A part : part \subseteq is => Sum(part) <= Sum(is) /\ Sum(part) \in Nat
<1>1. \A i \in is : Size[i] \in Nat
  BY SizeType
<1>2. Sum(is) \in Nat
  BY <1>1, SumNat DEF Sum
<1>3. ASSUME NEW part, part \subseteq is PROVE Sum(part) <= Sum(is) /\ Sum(part) \in Nat
  <2>1. IsFiniteSet(part) /\ \A i \in part : Size[i] \in Nat
    BY <1>1, <1>3, FS_Subset
  <2>2. Sum(part) \in Nat
    BY <2>1, SumNat DEF Sum
  <2>3. Sum(part) <= Sum(is)
    BY <1>1, <1>3, SumPart DEF Sum
  <2> QED BY <2>2, <2>3
<1> QED BY <1>2, <1>3

LEMMA SumPlus ==
  ASSUME world \in Worlds, NEW is, IsFiniteSet(is), is \subseteq Uploads \X Nat,
         NEW i \in Uploads \X Nat
  PROVE  /\ i \notin is => Sum(is \cup {i}) = Sum(is) + Size[i]
         /\ i \in is => Sum(is) = Sum(is \ {i}) + Size[i]
         /\ Sum(is \cup {i}) <= Sum(is) + Size[i]
<1>1. \A x \in is \cup {i} : Size[x] \in Int /\ Size[x] \in Nat
  BY SizeType
<1>2. ASSUME i \notin is PROVE Sum(is \cup {i}) = Sum(is) + Size[i]
  BY <1>1, <1>2, SumPut, Zenon DEF Sum
<1>3. ASSUME i \in is PROVE Sum(is) = Sum(is \ {i}) + Size[i]
  <2> DEFINE r == is \ {i}
  <2>1. IsFiniteSet(r) /\ r \cup {i} = is /\ i \notin r
    BY <1>3, FS_RemoveElement
  <2>2. Sum(r \cup {i}) = Sum(r) + Size[i]
    <3>1. \A x \in r \cup {i} : Size[x] \in Int
      BY <1>1
    <3> HIDE DEF r
    <3> QED BY <2>1, <3>1, SumPut, Zenon DEF Sum
  <2> QED BY <2>1, <2>2, Zenon
<1>4. Sum(is \cup {i}) <= Sum(is) + Size[i]
  <2>1. CASE i \in is
    <3>1. is \cup {i} = is
      BY <2>1
    <3>2. Sum(is \cup {i}) = Sum(is) /\ Sum(is) \in Nat /\ Size[i] \in Nat
      BY <1>1, <3>1, SumIs
    <3> QED BY <3>2
  <2>2. CASE i \notin is
    <3>1. Sum(is \cup {i}) = Sum(is) + Size[i] /\ Sum(is) \in Nat /\ Size[i] \in Nat
      BY <1>1, <1>2, <2>2, SumIs
    <3> QED BY <3>1
  <2> QED BY <2>1, <2>2
<1> QED BY <1>2, <1>3, <1>4

\* The sum over two sets is no more than their sums.
LEMMA SumBoth ==
  ASSUME world \in Worlds, NEW a, IsFiniteSet(a), a \subseteq Uploads \X Nat,
         NEW b, IsFiniteSet(b), b \subseteq Uploads \X Nat, NEW c, c \subseteq a \cup b
  PROVE  Sum(c) <= Sum(a) + Sum(b) /\ Sum(c) \in Nat
<1>1. \A x \in a \cup b : Size[x] \in Nat
  BY SizeType
<1>2. Sum(c) <= Sum(a) + Sum(b)
  BY <1>1, SumCover DEF Sum
<1>3. IsFiniteSet(c)
  BY FS_Union, FS_Subset
<1>4. Sum(c) \in Nat
  BY <1>3, SumIs
<1> QED BY <1>2, <1>4

\* What the sums of the two quotas are about.
LEMMA SetsAre ==
  ASSUME IInv, QInv
  PROVE  /\ IsFiniteSet(Ids(In("old")) \ Ending) /\ Ids(In("old")) \ Ending \subseteq Uploads \X Nat
         /\ IsFiniteSet(Open("old") \cup Leaving) /\ Open("old") \cup Leaving \subseteq Uploads \X Nat
         /\ \A v : /\ IsFiniteSet(Ids(In(v))) /\ Ids(In(v)) \subseteq Uploads \X Nat
                   /\ IsFiniteSet(Open(v)) /\ Open(v) \subseteq Uploads \X Nat
<1>1. \A v : /\ IsFiniteSet(Ids(In(v))) /\ Ids(In(v)) \subseteq Uploads \X Nat
             /\ IsFiniteSet(Open(v)) /\ Open(v) \subseteq Uploads \X Nat
  <2> SUFFICES ASSUME NEW v PROVE /\ IsFiniteSet(Ids(In(v))) /\ Ids(In(v)) \subseteq Uploads \X Nat
                                  /\ IsFiniteSet(Open(v)) /\ Open(v) \subseteq Uploads \X Nat
    OBVIOUS
  <2>1. Ids(In(v)) \subseteq Ids(rows) /\ Open(v) \subseteq Ids(sessions)
    BY IdsAre
  <2> QED BY <2>1, IdsAre, FS_Subset
<1>2. IsFiniteSet(Ids(In("old")) \ Ending)
  BY <1>1, FS_Subset
<1>3. IsFiniteSet(Open("old") \cup Leaving)
  BY <1>1, IdsAre, FS_Union
<1> QED BY <1>1, <1>2, <1>3, IdsAre

\* The quota is kept when less is stored, promised and reserved.
LEMMA NewShrinks ==
  ASSUME IInv, QInv, world' = world, slip' \in Nat, slip <= slip',
         Ids(In("new"))' \subseteq Ids(In("new")), Open("new")' \subseteq Open("new")
  PROVE  NewQuota'
<1> DEFINE c == Ids(In("new"))
           d == Open("new")
<1>1. /\ IsFiniteSet(c) /\ c \subseteq Uploads \X Nat /\ IsFiniteSet(d) /\ d \subseteq Uploads \X Nat
  BY SetsAre
<1>2. world \in Worlds /\ slip \in Nat /\ world.quota \in Nat /\ Size' = Size
  BY SizeType DEF QInv, Size
<1>3. PICK z, w : z = Ids(In("new"))' /\ w = Open("new")'
  OBVIOUS
<1>4. z \subseteq c /\ w \subseteq d
  BY <1>3
<1>5. Sum(c) + Sum(d) <= world.quota + slip
  BY DEF QInv, NewQuota
<1> HIDE DEF c, d
<1>6. /\ Sum(z) <= Sum(c) /\ Sum(w) <= Sum(d) /\ Sum(c) \in Nat /\ Sum(d) \in Nat
      /\ Sum(z) \in Nat /\ Sum(w) \in Nat
  BY <1>1, <1>2, <1>4, SumIs
<1>7. Sum(z) + Sum(w) <= world.quota + slip'
  BY <1>2, <1>5, <1>6
<1>8. world' = world
  OBVIOUS
<1> QED BY <1>2, <1>3, <1>7, <1>8, Zenon DEF NewQuota, Sum

LEMMA Shrinks ==
  ASSUME IInv, QInv, world' = world, slip' \in Nat, slip <= slip',
         Ids(In("old"))' \ Ending' \subseteq Ids(In("old")) \ Ending,
         Open("old")' \cup Leaving' \subseteq Open("old") \cup Leaving,
         reserved \in Int, reserved' \in Int, reserved' <= reserved,
         Ids(In("new"))' \subseteq Ids(In("new")), Open("new")' \subseteq Open("new")
  PROVE  OldQuota' /\ NewQuota'
<1> DEFINE a == Ids(In("old")) \ Ending
           b == Open("old") \cup Leaving
<1>1. IsFiniteSet(a) /\ a \subseteq Uploads \X Nat /\ IsFiniteSet(b) /\ b \subseteq Uploads \X Nat
  BY SetsAre
<1>2. world \in Worlds /\ slip \in Nat /\ world.quota \in Nat /\ Size' = Size
  BY SizeType DEF QInv, Size
<1>3. PICK x, y : x = Ids(In("old"))' \ Ending' /\ y = Open("old")' \cup Leaving'
  OBVIOUS
<1>4. x \subseteq a /\ y \subseteq b
  BY <1>3
<1>5. Sum(a) + Sum(b) + reserved <= world.quota + slip
  BY DEF QInv, OldQuota
<1> HIDE DEF a, b
<1>6. /\ Sum(x) <= Sum(a) /\ Sum(y) <= Sum(b) /\ Sum(a) \in Nat /\ Sum(b) \in Nat
      /\ Sum(x) \in Nat /\ Sum(y) \in Nat
  BY <1>1, <1>2, <1>4, SumIs
<1>7. Sum(x) + Sum(y) + reserved' <= world.quota + slip'
  BY <1>2, <1>5, <1>6
<1>8. world' = world
  OBVIOUS
<1>9. OldQuota'
  BY <1>2, <1>3, <1>7, <1>8, Zenon DEF OldQuota, Sum
<1> QED BY <1>9, NewShrinks
-----------------------------------------------------------------------------
(* What a step does to the requests, as far as the quota is concerned. *)

\* Of the requests under way only q may have ended or gone on, and then to a step of S;
\* what the others have read and booked is the same.
Goes(q, S) ==
  /\ asked' = asked
  /\ DOMAIN reqs' \subseteq DOMAIN reqs /\ DOMAIN reqs \ DOMAIN reqs' \subseteq {q}
  /\ \A x \in DOMAIN reqs' :
       /\ IsRequest(reqs'[x]) /\ IsBooking(reqs'[x])
       /\ reqs'[x].sess = reqs[x].sess /\ reqs'[x].kind = reqs[x].kind /\ reqs'[x].up = reqs[x].up
       /\ IF x = q THEN reqs'[x].pc \in S
          ELSE /\ reqs'[x].pc = reqs[x].pc /\ reqs'[x].limit = reqs[x].limit
               /\ reqs'[x].seen = reqs[x].seen /\ reqs'[x].usage = reqs[x].usage

\* And what q has read and booked.
Keeps(q) ==
  q \in DOMAIN reqs' =>
    reqs'[q].limit = reqs[q].limit /\ reqs'[q].seen = reqs[q].seen /\ reqs'[q].usage = reqs[q].usage

LEMMA ToGoes ==
  ASSUME Requests, Named, asked' = asked, NEW q \in DOMAIN reqs, NEW r, IsRequest(r), IsBooking(r),
         r.sess = reqs[q].sess, r.kind = reqs[q].kind, r.up = reqs[q].up,
         reqs' = [reqs EXCEPT ![q] = r]
  PROVE  Goes(q, {r.pc}) /\ DOMAIN reqs' = DOMAIN reqs /\ reqs'[q] = r
<1>1. /\ DOMAIN reqs' = DOMAIN reqs
      /\ \A x \in DOMAIN reqs : reqs'[x] = IF x = q THEN r ELSE reqs[x]
  OBVIOUS
<1>2. \A x \in DOMAIN reqs : IsRequest(reqs[x]) /\ IsBooking(reqs[x])
  BY DEF Requests, Named
<1> QED BY <1>1, <1>2 DEF Goes

\* A request that goes on keeps what it has read and booked.
LEMMA GoToGoes ==
  ASSUME Requests, Named, asked' = asked, NEW q \in DOMAIN reqs, NEW p, GoTo(q, p)
  PROVE  Goes(q, {p}) /\ Keeps(q) /\ DOMAIN reqs' = DOMAIN reqs
<1> DEFINE r == [reqs[q] EXCEPT !.pc = p]
<1>1. IsRequest(reqs[q]) /\ IsBooking(reqs[q])
  BY DEF Requests, Named
<1>2. /\ r.pc = p /\ r.sess = reqs[q].sess /\ r.kind = reqs[q].kind /\ IsRequest(r)
      /\ r.up = reqs[q].up /\ IsBooking(r)
      /\ r.limit = reqs[q].limit /\ r.seen = reqs[q].seen /\ r.usage = reqs[q].usage
  BY <1>1 DEF IsRequest, IsBooking
<1>3. reqs' = [reqs EXCEPT ![q] = r]
  BY DEF GoTo
<1> HIDE DEF r
<1>4. Goes(q, {p}) /\ DOMAIN reqs' = DOMAIN reqs /\ reqs'[q] = r
  BY <1>2, <1>3, ToGoes
<1> QED BY <1>2, <1>4 DEF Keeps

\* A step to a result.
LEMMA ResultGoes ==
  ASSUME Requests, Named, asked' = asked, NEW q \in DOMAIN reqs, NEW p, NEW res,
         To(q, [reqs[q] EXCEPT !.pc = p, !.res = res])
  PROVE  Goes(q, {p}) /\ Keeps(q) /\ DOMAIN reqs' = DOMAIN reqs
<1> DEFINE r == [reqs[q] EXCEPT !.pc = p, !.res = res]
<1>1. IsRequest(reqs[q]) /\ IsBooking(reqs[q])
  BY DEF Requests, Named
<1>2. /\ r.pc = p /\ r.sess = reqs[q].sess /\ r.kind = reqs[q].kind /\ IsRequest(r)
      /\ r.up = reqs[q].up /\ IsBooking(r)
      /\ r.limit = reqs[q].limit /\ r.seen = reqs[q].seen /\ r.usage = reqs[q].usage
  BY <1>1 DEF IsRequest, IsBooking
<1>3. reqs' = [reqs EXCEPT ![q] = r]
  BY DEF To
<1> HIDE DEF r
<1>4. Goes(q, {p}) /\ DOMAIN reqs' = DOMAIN reqs /\ reqs'[q] = r
  BY <1>2, <1>3, ToGoes
<1> QED BY <1>2, <1>4 DEF Keeps

LEMMA WithoutGoes ==
  ASSUME Requests, Named, asked' = asked, NEW q, reqs' = Without(reqs, q), NEW S
  PROVE  Goes(q, S) /\ Keeps(q) /\ DOMAIN reqs' = DOMAIN reqs \ {q}
<1>1. DOMAIN reqs' = DOMAIN reqs \ {q} /\ \A x \in DOMAIN reqs' : reqs'[x] = reqs[x]
  BY DEF Without, Restrict
<1>2. \A x \in DOMAIN reqs : IsRequest(reqs[x]) /\ IsBooking(reqs[x])
  BY DEF Requests, Named
<1> QED BY <1>1, <1>2 DEF Goes, Keeps

LEMMA EndGoes ==
  ASSUME Requests, Named, asked' = asked, NEW q \in DOMAIN reqs, NEW res, End(q, res)
  PROVE  Goes(q, {"answered"}) /\ Keeps(q)
<1>1. CASE To(q, [reqs[q] EXCEPT !.pc = "answered", !.res = res])
  BY <1>1, ResultGoes
<1>2. CASE reqs' = Without(reqs, q)
  BY <1>2, WithoutGoes
<1> QED BY <1>1, <1>2 DEF End

LEMMA UnheardGoes ==
  ASSUME Requests, Named, asked' = asked, NEW q,
         \/ reqs' = Unheard(q)
         \/ q \in DOMAIN reqs /\ reqs[q].pc = "answered" /\ reqs' = Without(reqs, q)
  PROVE  Goes(q, {reqs[q].pc}) /\ Keeps(q)
<1>1. \A x \in DOMAIN reqs : IsRequest(reqs[x]) /\ IsBooking(reqs[x])
  BY DEF Requests, Named
<1>2. CASE reqs' = [reqs EXCEPT ![q].heard = FALSE]
  <2>1. ASSUME NEW x \in DOMAIN reqs
        PROVE  /\ IsRequest(reqs'[x]) /\ IsBooking(reqs'[x]) /\ reqs'[x].sess = reqs[x].sess
               /\ reqs'[x].kind = reqs[x].kind /\ reqs'[x].pc = reqs[x].pc
               /\ reqs'[x].up = reqs[x].up /\ reqs'[x].limit = reqs[x].limit
               /\ reqs'[x].seen = reqs[x].seen /\ reqs'[x].usage = reqs[x].usage
    <3>1. reqs'[x] = IF x = q THEN [reqs[x] EXCEPT !.heard = FALSE] ELSE reqs[x]
      BY <1>2
    <3> QED BY <1>1, <3>1 DEF IsRequest, IsBooking
  <2>2. DOMAIN reqs' = DOMAIN reqs
    BY <1>2
  <2> QED BY <2>1, <2>2 DEF Goes, Keeps
<1>3. CASE reqs' = Without(reqs, q)
  BY <1>3, WithoutGoes
<1> QED BY <1>2, <1>3 DEF Unheard

\* Requests that are under way stay named, as do the rows and sessions that they make.
LEMMA ServerNamed ==
  ASSUME IInv, QInv, NEW q \in DOMAIN reqs, NEW S, Goes(q, S), client' = client,
         S \cap Before = {} \/ reqs[q].pc \in Before,
         \A r \in rows' : r \in rows \/ r = Row(q),
         \/ sessions' \subseteq sessions
         \/ /\ reqs[q].pc \in Before /\ S \cap Before = {}
            /\ \E s : /\ sessions' = sessions \cup {s}
                      /\ "up" \in DOMAIN s /\ s.id = q /\ s.up = reqs[q].up
  PROVE  Named'
<1>0. /\ Used' = Used /\ DOMAIN reqs' \subseteq DOMAIN reqs /\ DOMAIN reqs \subseteq Used
      /\ \A x \in DOMAIN reqs' : /\ IsBooking(reqs'[x]) /\ reqs'[x].sess = reqs[x].sess
                                 /\ reqs'[x].up = reqs[x].up
                                 /\ IF x = q THEN reqs'[x].pc \in S ELSE reqs'[x].pc = reqs[x].pc
  BY DEF Goes, Used, IInv, Requests
<1>1. \A u \in Uploads : /\ "req" \in DOMAIN client[u] /\ Of(u, client[u].sess)
                         /\ client[u].pc = "wait" => client[u].req[1] = u
  BY DEF QInv, Named
<1>2. \A x \in DOMAIN reqs : /\ IsBooking(reqs[x]) /\ reqs[x].up = x[1] /\ Of(x[1], reqs[x].sess)
                             /\ reqs[x].pc \in Before => x \notin Ids(sessions)
  BY DEF QInv, Named
<1>3. \A r \in rows' : r.up = r.id[1]
  <2>1. \A r \in rows : r.up = r.id[1]
    BY DEF QInv, Named
  <2>2. Row(q).up = reqs[q].up /\ Row(q).id = q
    BY DEF Row
  <2> QED BY <1>2, <2>1, <2>2
<1>4. /\ Ids(sessions) \subseteq Used
      /\ \A s \in sessions : /\ "up" \in DOMAIN s /\ s.up = s.id[1]
                             /\ \A x \in sessions : x.id = s.id => x = s
  BY DEF QInv, Named
<1>5. CASE sessions' \subseteq sessions
  <2>1. Ids(sessions)' \subseteq Ids(sessions)
    BY <1>5 DEF Ids
  <2>2. \A x \in DOMAIN reqs' : reqs'[x].pc \in Before => x \notin Ids(sessions)'
    BY <1>0, <1>2, <2>1
  <2> QED BY <1>0, <1>1, <1>2, <1>3, <1>4, <1>5, <2>1, <2>2 DEF Named, Of
<1>6. CASE reqs[q].pc \in Before /\ S \cap Before = {} /\ \E s : sessions' = sessions \cup {s} /\ "up" \in DOMAIN s /\ s.id = q /\ s.up = reqs[q].up
  <2>1. PICK s : sessions' = sessions \cup {s} /\ "up" \in DOMAIN s /\ s.id = q /\ s.up = q[1]
    BY <1>2, <1>6
  <2>2. Ids(sessions)' = Ids(sessions) \cup {q} /\ q \notin Ids(sessions)
    BY <1>2, <1>6, <2>1 DEF Ids
  <2>3. \A x \in DOMAIN reqs' : reqs'[x].pc \in Before => x \notin Ids(sessions)'
    BY <1>0, <1>2, <1>6, <2>2
  <2>4. \A x \in sessions : x.id # q
    BY <2>2 DEF Ids
  <2>5. \A z \in sessions' : "up" \in DOMAIN z /\ z.up = z.id[1] /\ \A x \in sessions' : x.id = z.id => x = z
    BY <1>4, <2>1, <2>4
  <2> QED BY <1>0, <1>1, <1>2, <1>3, <1>4, <2>2, <2>3, <2>5 DEF Named, Of
<1> QED BY <1>5, <1>6

LEMMA LockStep ==
  ASSUME IInv, QInv, NEW q \in DOMAIN reqs, NEW S, Goes(q, S),
         \/ /\ lock' = lock /\ "counted" \notin S
            /\ \/ S \cap {"commit", "refresh"} = {} \/ reqs[q].kind # "complete"
               \/ lock = q /\ "commit" \notin S
         \/ /\ lock = q /\ lock' = None
            /\ S \cap {"counted", "commit", "refresh"} = {}
         \/ lock = None /\ lock' = q /\ (reqs[q].sess = None => "commit" \notin S)
  PROVE  Locked'
<1>0. /\ DOMAIN reqs' \subseteq DOMAIN reqs /\ DOMAIN reqs \subseteq Uploads \X Nat
      /\ \A x \in DOMAIN reqs' : /\ reqs'[x].sess = reqs[x].sess /\ reqs'[x].kind = reqs[x].kind
                                 /\ IF x = q THEN reqs'[x].pc \in S ELSE reqs'[x].pc = reqs[x].pc
  BY IdsAre DEF Goes
<1>1. \A x \in DOMAIN reqs : x # None
  BY <1>0 DEF None
<1>2. /\ \A x \in DOMAIN reqs : \/ reqs[x].pc = "counted"
                                \/ reqs[x].kind = "complete" /\ reqs[x].pc \in {"commit", "refresh"}
                                => lock = x
      /\ \A x \in DOMAIN reqs : reqs[x].kind = "complete" /\ reqs[x].pc = "commit" => reqs[x].sess # None
  BY DEF QInv, Locked, Locking, Finishing, Is
<1>3. \A x \in DOMAIN reqs' : \/ reqs'[x].pc = "counted"
                              \/ reqs'[x].kind = "complete" /\ reqs'[x].pc \in {"commit", "refresh"}
                              => lock' = x
  BY <1>0, <1>1, <1>2
<1>4. \A x \in DOMAIN reqs' : reqs'[x].kind = "complete" /\ reqs'[x].pc = "commit" => reqs'[x].sess # None
  BY <1>0, <1>1, <1>2
<1> QED BY <1>3, <1>4 DEF Locked, Locking, Finishing, Is

LEMMA CountedStep ==
  ASSUME QInv, NEW q, NEW S, Goes(q, S), "counted" \notin S \/ (reqs[q].pc = "counted" /\ Keeps(q)),
         world' = world
  PROVE  Counted'
<1>1. Size' = Size /\ Used' = Used
  BY DEF Size, Used, Goes
<1>2. \A x \in DOMAIN reqs : reqs[x].pc = "counted" =>
        reqs[x].seen \subseteq Used /\ IsFiniteSet(reqs[x].seen) /\ reqs[x].usage = Sum(reqs[x].seen)
  BY DEF QInv, Counted
<1>3. ASSUME NEW x \in DOMAIN reqs', reqs'[x].pc = "counted"
      PROVE  reqs'[x].seen \subseteq Used' /\ IsFiniteSet(reqs'[x].seen) /\ reqs'[x].usage = Sum(reqs'[x].seen)
  <2>1. x \in DOMAIN reqs /\ reqs[x].pc = "counted" /\ reqs'[x].seen = reqs[x].seen /\ reqs'[x].usage = reqs[x].usage
    BY <1>3 DEF Goes, Keeps
  <2> QED BY <1>1, <1>2, <2>1
<1> QED BY <1>1, <1>3, Zenon DEF Counted, Sum
\* What is reserved, when no booking starts or ends.
LEMMA ReservedStep ==
  ASSUME IInv, QInv, NEW q, NEW S, Goes(q, S), q \in Booked => Keeps(q), world' = world, reserved' = reserved,
         \/ /\ q \in Booked => reqs[q].pc \in S /\ q \in DOMAIN reqs' /\ S = {reqs[q].pc}
            /\ q \in DOMAIN reqs \ Booked => reqs[q].kind # "file" \/ S \cap {"write", "commit", "refresh", "release"} = {}
         \/ q \in Booked /\ q \in DOMAIN reqs' /\ S \subseteq {"commit", "refresh", "release"},
         Ids(rows)' \subseteq Ids(rows) \cup {q},
         q \in Booked /\ ("commit" \in S \/ q \in Ids(rows)') => reqs[q].limit = Size[q]
  PROVE  Reserved' /\ Booked' = Booked
<1>0. /\ DOMAIN reqs' \subseteq DOMAIN reqs /\ DOMAIN reqs \ DOMAIN reqs' \subseteq {q}
      /\ \A x \in DOMAIN reqs' : /\ reqs'[x].kind = reqs[x].kind
                                 /\ x \in Booked => reqs'[x].limit = reqs[x].limit
                                 /\ IF x = q THEN reqs'[x].pc \in S ELSE reqs'[x].pc = reqs[x].pc
  BY DEF Goes, Keeps
<1>1. Booked' = Booked
  <2>1. \A x \in DOMAIN reqs \ {q} : x \in Booked' <=> x \in Booked
    BY <1>0 DEF Booked
  <2>2. q \in Booked' <=> q \in Booked
    BY <1>0 DEF Booked
  <2>3. Booked \subseteq DOMAIN reqs /\ Booked' \subseteq DOMAIN reqs
    BY <1>0 DEF Booked
  <2> QED BY <2>1, <2>2, <2>3
<1>2. Booked \subseteq DOMAIN reqs /\ Booked \subseteq DOMAIN reqs'
  BY <1>1 DEF Booked
<1>3. /\ reserved = SumFunctionOnSet(Limits, Booked)
      /\ \A x \in Booked : /\ reqs[x].limit \in 0 .. Size[x]
                           /\ reqs[x].pc = "commit" \/ x \in Ids(rows) => reqs[x].limit = Size[x]
  BY DEF QInv, Reserved
<1>4. Size' = Size /\ world \in Worlds
  BY DEF Size, QInv
<1>5. IsFiniteSet(Booked)
  BY <1>2, FS_Subset DEF QInv, Finite
<1>6. \A x \in Booked : Limits[x] \in Int /\ Limits[x] = Limits'[x]
  <2> SUFFICES ASSUME NEW x \in Booked PROVE Limits[x] \in Int /\ Limits[x] = Limits'[x]
    OBVIOUS
  <2>1. Limits[x] = reqs[x].limit /\ Limits'[x] = reqs'[x].limit
    BY <1>2 DEF Limits
  <2>2. Size[x] \in Nat
    BY <1>2, <1>4, SizeType, IdsAre
  <2>3. reqs[x].limit \in Int
    BY <1>3, <2>2
  <2> QED BY <1>0, <1>2, <2>1, <2>3
<1>7. SumFunctionOnSet(Limits, Booked) = SumFunctionOnSet(Limits', Booked)
  BY <1>5, <1>6, SumSame
<1>8. \A x \in Booked : /\ reqs'[x].limit \in 0 .. Size[x]
                        /\ reqs'[x].pc = "commit" \/ x \in Ids(rows)' => reqs'[x].limit = Size[x]
  <2> SUFFICES ASSUME NEW x \in Booked
               PROVE  /\ reqs'[x].limit \in 0 .. Size[x]
                      /\ reqs'[x].pc = "commit" \/ x \in Ids(rows)' => reqs'[x].limit = Size[x]
    OBVIOUS
  <2>1. x \in DOMAIN reqs' /\ reqs'[x].limit = reqs[x].limit
    BY <1>0, <1>2
  <2>2. reqs'[x].limit \in 0 .. Size[x]
    BY <1>3, <2>1
  <2>3. CASE x = q
    BY <1>0, <2>1, <2>2, <2>3
  <2>4. CASE x # q
    BY <1>0, <1>3, <2>1, <2>2, <2>4
  <2> QED BY <2>3, <2>4
<1>9. Reserved'
  BY <1>1, <1>3, <1>4, <1>7, <1>8, Zenon DEF Reserved
<1> QED BY <1>1, <1>9

\* What the requests that finish, or whose row still counts as reserved, are after a step.
LEMMA EndingStep ==
  ASSUME NEW q, NEW S, Goes(q, S)
  PROVE  /\ Leaving' \subseteq Leaving
               \cup (IF q \in DOMAIN reqs /\ reqs[q].kind = "complete" /\ "commit" \in S THEN {reqs[q].sess} ELSE {})
         /\ Ending \subseteq Ending' \cup {q}
         /\ q \notin Ending \/ (S \subseteq {"refresh", "release"} /\ q \in DOMAIN reqs') =>
              Ending \subseteq Ending'
<1>0. /\ DOMAIN reqs' \subseteq DOMAIN reqs /\ DOMAIN reqs \ DOMAIN reqs' \subseteq {q}
      /\ \A x \in DOMAIN reqs' : /\ reqs'[x].kind = reqs[x].kind /\ reqs'[x].sess = reqs[x].sess
                                 /\ IF x = q THEN reqs'[x].pc \in S ELSE reqs'[x].pc = reqs[x].pc
  BY DEF Goes
<1>1. ASSUME NEW s \in Leaving' PROVE s \in Leaving \/ (q \in DOMAIN reqs /\ reqs[q].kind = "complete" /\ "commit" \in S /\ s = reqs[q].sess)
  <2>1. PICK x \in DOMAIN reqs' : reqs'[x].kind = "complete" /\ reqs'[x].pc = "commit" /\ s = reqs'[x].sess
    BY <1>1 DEF Leaving, Finishing, Is
  <2>2. CASE x = q
    BY <1>0, <2>1, <2>2
  <2>3. CASE x # q
    BY <1>0, <2>1, <2>3 DEF Leaving, Finishing, Is
  <2> QED BY <2>2, <2>3
<1>2. Ending \subseteq Ending' \cup {q}
  BY <1>0 DEF Ending, Is
<1>3. q \in DOMAIN reqs' /\ S \subseteq {"refresh", "release"} => Ending \subseteq Ending'
  BY <1>0 DEF Ending, Is
<1> QED BY <1>1, <1>2, <1>3
\* The reservations of the requests under way.
LEMMA ReservedIs ==
  ASSUME IInv, QInv
  PROVE  /\ IsFiniteSet(Booked) /\ Booked \subseteq DOMAIN reqs /\ Booked \subseteq Uploads \X Nat
         /\ \A q \in Booked : Limits[q] = reqs[q].limit /\ reqs[q].limit \in Nat /\ reqs[q].limit <= Size[q]
         /\ reserved = SumFunctionOnSet(Limits, Booked) /\ reserved \in Nat
<1>1. IsFiniteSet(Booked) /\ Booked \subseteq DOMAIN reqs
  BY FS_Subset DEF QInv, Finite, Booked
<1>2. Booked \subseteq Uploads \X Nat
  BY <1>1, IdsAre
<1>3. \A q \in Booked : Limits[q] = reqs[q].limit /\ reqs[q].limit \in Nat /\ reqs[q].limit <= Size[q]
  <2> SUFFICES ASSUME NEW q \in Booked
               PROVE  Limits[q] = reqs[q].limit /\ reqs[q].limit \in Nat /\ reqs[q].limit <= Size[q]
    OBVIOUS
  <2>1. Size[q] \in Nat
    BY <1>2, SizeType DEF QInv
  <2>2. Limits[q] = reqs[q].limit
    BY <1>1 DEF Limits
  <2> QED BY <2>1, <2>2 DEF QInv, Reserved
<1>4. reserved = SumFunctionOnSet(Limits, Booked)
  BY DEF QInv, Reserved
<1>5. SumFunctionOnSet(Limits, Booked) \in Nat
  BY <1>1, <1>3, SumNat
<1> QED BY <1>1, <1>2, <1>3, <1>4, <1>5
-----------------------------------------------------------------------------
(* The server's steps. *)

\* A step of a request that books nothing: sessions may go, and no row comes.
LEMMA ServerQuiet ==
  ASSUME IInv, QInv, NEW q \in DOMAIN reqs, NEW S, Goes(q, S),
         UNCHANGED <<world, client, reserved, rows>>, sessions' \subseteq sessions,
         slip' \in Nat, slip <= slip', Locked',
         S \cap Before = {} \/ reqs[q].pc \in Before, Counted',
         q \notin Booked, reqs[q].kind # "file" \/ S \cap {"write", "commit", "refresh", "release"} = {},
         reqs[q].kind = "complete" /\ "commit" \in S => reqs[q].sess \in Open("old")
  PROVE  QInv'
<1>1. Named'
  BY ServerNamed
<1>2. Finite'
  BY FS_Subset DEF QInv, Finite, Goes
<1>4. Ids(rows)' = Ids(rows) /\ \A v : Ids(In(v))' = Ids(In(v))
  BY DEF Ids, In
<1>5. Reserved' /\ Booked' = Booked
  BY <1>4, ReservedStep
<1>6. \A v : Open(v)' \subseteq Open(v)
  BY DEF Open, Alive, Ids
<1>7. q \notin Ending
  BY DEF Booked, Ending, Is
<1>8. Ending \subseteq Ending'
  BY <1>7, EndingStep
<1>9. Leaving' \subseteq Leaving \cup Open("old")
  BY EndingStep
<1>10. Ids(In("old"))' \ Ending' \subseteq Ids(In("old")) \ Ending
  BY <1>4, <1>8
<1>11. Open("old")' \cup Leaving' \subseteq Open("old") \cup Leaving
  BY <1>6, <1>9
<1>12. reserved \in Int
  BY ReservedIs
<1>13. OldQuota' /\ NewQuota'
  BY <1>4, <1>6, <1>10, <1>11, <1>12, Shrinks
<1> QED BY <1>1, <1>2, <1>5, <1>13 DEF QInv
\* The premises that every step has.
LEMMA Given ==
  ASSUME IInv, QInv
  PROVE  Requests /\ Named /\ world \in Worlds /\ slip \in Nat /\ \A q \in DOMAIN reqs : IsRequest(reqs[q])
BY DEF IInv, QInv, Requests

\* Steps that only read or write the directories of sessions, and those that end sessions.
LEMMA PurgeQuota == ASSUME IInv, QInv, NEW q \in DOMAIN reqs, Purge(q) PROVE QInv'
<1>1. /\ reqs[q].kind = "start" /\ reqs[q].pc = "arrive" /\ GoTo(q, "purged") /\ asked' = asked
      /\ UNCHANGED <<world, client, reserved, rows, lock, slip>> /\ sessions' \subseteq sessions
  BY DEF Purge, Is, Alive, rest, books, history
<1>2. Goes(q, {"purged"}) /\ Keeps(q)
  BY <1>1, Given, GoToGoes
<1>3. Locked'
  BY <1>1, <1>2, LockStep
<1>4. q \notin Booked
  BY <1>1 DEF Booked
<1> QED BY <1>1, <1>2, <1>3, <1>4, Given, CountedStep, ServerQuiet DEF Before

LEMMA PartQuota ==
  ASSUME IInv, QInv, NEW q \in DOMAIN reqs, BeginPart(q) \/ EndPart(q) PROVE QInv'
<1>1. /\ reqs[q].kind = "part" /\ asked' = asked
      /\ UNCHANGED <<world, client, reserved, rows, sessions, lock, slip>>
  BY DEF BeginPart, EndPart, Is, rest, books, tables, history
<1>4. q \notin Booked
  BY <1>1 DEF Booked
<1>2. ASSUME Goes(q, {"answered"}), Keeps(q) PROVE QInv'
  <2>1. Locked'
    BY <1>1, <1>2, LockStep
  <2> QED BY <1>1, <1>2, <1>4, <2>1, Given, CountedStep, ServerQuiet DEF Before
<1>3. CASE BeginPart(q)
  <2>1. reqs[q].pc = "arrive" /\ (GoTo(q, "write") \/ End(q, "refused"))
    BY <1>3 DEF BeginPart, Is
  <2>2. CASE End(q, "refused")
    BY <1>1, <1>2, <2>2, Given, EndGoes
  <2>3. CASE GoTo(q, "write")
    <3>1. Goes(q, {"write"}) /\ Keeps(q)
      BY <1>1, <2>3, Given, GoToGoes
    <3>2. Locked'
      BY <1>1, <3>1, LockStep
    <3> QED BY <1>1, <1>4, <2>1, <3>1, <3>2, Given, CountedStep, ServerQuiet DEF Before
  <2> QED BY <2>1, <2>2, <2>3
<1>5. CASE EndPart(q)
  <2>1. \E res : End(q, res)
    BY <1>5 DEF EndPart
  <2> QED BY <1>1, <1>2, <2>1, Given, EndGoes
<1> QED BY <1>3, <1>5

LEMMA AbortQuota ==
  ASSUME IInv, QInv, NEW q \in DOMAIN reqs, AbortRow(q) \/ AbortDir(q) PROVE QInv'
<1>1. /\ reqs[q].kind = "abort" /\ asked' = asked
      /\ UNCHANGED <<world, client, reserved, rows, lock, slip>> /\ sessions' \subseteq sessions
  BY DEF AbortRow, AbortDir, Is, rest, books, tables, disk, history
<1>2. PICK pc \in {"remove", "answered"} : Goes(q, {pc}) /\ Keeps(q)
  BY <1>1, Given, GoToGoes, EndGoes DEF AbortRow, AbortDir
<1>3. Locked'
  BY <1>1, <1>2, LockStep
<1>4. q \notin Booked
  BY <1>1 DEF Booked
<1> QED BY <1>1, <1>2, <1>3, <1>4, Given, CountedStep, ServerQuiet DEF Before

\* The session of an upload that ends still counts.
LEMMA CompleteQuota == ASSUME IInv, QInv, NEW q \in DOMAIN reqs, Complete(q) PROVE QInv'
<1>1. /\ reqs[q].kind = "complete" /\ reqs[q].pc = "arrive" /\ lock = None /\ asked' = asked
      /\ UNCHANGED <<world, client, reserved, rows, sessions, slip>>
  BY DEF Complete, Is, rest, tables, history
<1>4. q \notin Booked
  BY <1>1 DEF Booked
<1>2. CASE End(q, "refused") /\ lock' = lock
  <2>1. Goes(q, {"answered"}) /\ Keeps(q)
    BY <1>1, <1>2, Given, EndGoes
  <2>2. Locked'
    BY <1>2, <2>1, LockStep
  <2> QED BY <1>1, <1>4, <2>1, <2>2, Given, CountedStep, ServerQuiet DEF Before
<1>3. CASE Owned(reqs[q].sess) /\ lock' = q /\ GoTo(q, "commit")
  <2>1. Goes(q, {"commit"}) /\ Keeps(q)
    BY <1>1, <1>3, Given, GoToGoes
  <2>2. reqs[q].sess \in Open("old")
    BY <1>3 DEF Owned, Open, Ids
  <2>3. reqs[q].sess # None
    <3>1. PICK s : s = reqs[q].sess
      OBVIOUS
    <3>2. s \in Uploads \X Nat
      BY <2>2, <3>1, IdsAre
    <3>3. s # None
      BY <3>2 DEF None
    <3> QED BY <3>1, <3>3
  <2>4. Locked'
    BY <1>1, <1>3, <2>1, <2>3, LockStep
  <2> QED BY <1>1, <1>4, <2>1, <2>2, <2>4, Given, CountedStep, ServerQuiet DEF Before
<1> QED BY <1>2, <1>3 DEF Complete

\* Between the two checks of the bytes, the vault's lock is held.
LEMMA CountQuota == ASSUME IInv, QInv, NEW q \in DOMAIN reqs, Count(q) PROVE QInv'
<1> DEFINE r == [reqs[q] EXCEPT !.pc = "counted", !.seen = Ids(In("old")), !.usage = Bytes(In("old"))]
<1>1. /\ reqs[q].pc \in {"arrive", "purged"} /\ lock = None /\ lock' = q /\ asked' = asked
      /\ UNCHANGED <<world, client, reserved, rows, sessions, slip>> /\ reqs' = [reqs EXCEPT ![q] = r]
  BY DEF Count, Is, To, rest, tables, history
<1>2. IsRequest(reqs[q]) /\ IsBooking(reqs[q])
  BY Given DEF Named
<1>3. /\ r.pc = "counted" /\ r.sess = reqs[q].sess /\ r.kind = reqs[q].kind /\ IsRequest(r)
      /\ r.up = reqs[q].up /\ IsBooking(r) /\ r.limit = reqs[q].limit
      /\ r.seen = Ids(In("old")) /\ r.usage = Bytes(In("old"))
  BY <1>2 DEF IsRequest, IsBooking
<1> HIDE DEF r
<1>4. Goes(q, {"counted"}) /\ DOMAIN reqs' = DOMAIN reqs /\ reqs'[q] = r
  BY <1>1, <1>3, Given, ToGoes
<1>7. Locked'
  BY <1>1, <1>4, LockStep
<1>8. Size' = Size /\ Used' = Used /\ Ids(rows)' = Ids(rows) /\ \A v : Ids(In(v))' = Ids(In(v)) /\ Open(v)' = Open(v)
  BY <1>1 DEF Size, Used, Ids, In, Open, Alive
<1>9. Counted'
  <2>1. Bytes(In("old")) = Sum(Ids(In("old"))) /\ IsFiniteSet(Ids(In("old"))) /\ Ids(In("old")) \subseteq Used
    <3>1. In("old") \subseteq rows /\ IsFiniteSet(rows) /\ world \in Worlds
      BY DEF In, QInv, Finite
    <3>2. Ids(rows) \subseteq Used /\ Used \subseteq Uploads \X Nat
      BY DEF IInv, Fresh, Used
    <3>3. IsFiniteSet(In("old")) /\ \A x \in In("old") : x.id \in Uploads \X Nat /\ x.up = x.id[1]
      BY <3>1, <3>2, FS_Subset DEF QInv, Named, Ids
    <3>4. \A x \in In("old") : \A y \in In("old") : y.id = x.id => y = x
      BY <3>1 DEF IInv, Tables
    <3>5. Ids(In("old")) \subseteq Used
      BY <3>1, <3>2 DEF Ids
    <3> QED BY <3>1, <3>3, <3>4, <3>5, BytesAre
  <2>2. ASSUME NEW x \in DOMAIN reqs', reqs'[x].pc = "counted"
        PROVE  reqs'[x].seen \subseteq Used /\ IsFiniteSet(reqs'[x].seen) /\ reqs'[x].usage = Sum(reqs'[x].seen)
    <3>1. CASE x = q
      BY <1>3, <1>4, <2>1, <3>1
    <3>2. CASE x # q
      <4>1. reqs[x].pc = "counted" /\ reqs'[x].seen = reqs[x].seen /\ reqs'[x].usage = reqs[x].usage
        BY <1>4, <2>2, <3>2 DEF Goes
      <4> QED BY <1>4, <4>1 DEF QInv, Counted
    <3> QED BY <3>1, <3>2
  <2> QED BY <1>8, <2>2, Zenon DEF Counted, Sum
<1>10. q \notin Booked
  BY <1>1 DEF Booked
<1> QED BY <1>1, <1>4, <1>7, <1>9, <1>10, Given, ServerQuiet DEF Before
\* What a check misses of what is stored, it lets slip; and it knows the rest.
LEMMA Promise ==
  ASSUME IInv, QInv, NEW q \in DOMAIN reqs, reqs[q].pc = "counted"
  PROVE  /\ Sum(Ids(In("old")) \ Ending) + Sum(Open("old") \cup Leaving) + reserved
              <= Promised(q) + Bytes(Missed(q))
         /\ Promised(q) \in Nat /\ Bytes(Missed(q)) \in Nat /\ lock = q /\ Leaving = {}
<1> DEFINE a == Ids(In("old")) \ Ending
           m == Missed(q)
           o == {s \in Alive : s.vault = "old"}
<1>1. lock = q /\ Leaving = {}
  <2>1. lock = q /\ \A x \in Finishing : lock = x
    BY DEF QInv, Locked, Locking, Finishing, Is
  <2>2. q \notin Finishing
    BY DEF Finishing, Is
  <2> QED BY <2>1, <2>2 DEF Leaving
<1>2. /\ reqs[q].seen \subseteq Uploads \X Nat /\ IsFiniteSet(reqs[q].seen)
      /\ reqs[q].usage = Sum(reqs[q].seen)
  BY DEF QInv, Counted, Used
<1>3. world \in Worlds /\ IsFiniteSet(rows) /\ IsFiniteSet(sessions)
  BY DEF QInv, Finite
<1>4. Bytes(m) = Sum(Ids(m)) /\ IsFiniteSet(Ids(m)) /\ Bytes(m) \in Nat /\ Ids(m) \subseteq Uploads \X Nat
  <2>1. m \subseteq rows
    BY DEF Missed, In
  <2>2. IsFiniteSet(m) /\ Ids(m) \subseteq Ids(rows)
    BY <1>3, <2>1, FS_Subset DEF Ids
  <2>3. \A r \in rows : r.up = r.id[1] /\ r.id \in Ids(rows) /\ \A x \in rows : x.id = r.id => x = r
    BY DEF IInv, Tables, QInv, Named, Ids
  <2>4. Ids(rows) \subseteq Uploads \X Nat
    BY IdsAre
  <2>5. \A r \in m : r.id \in Uploads \X Nat /\ r.up = r.id[1]
    BY <2>1, <2>3, <2>4
  <2>6. \A r \in m : \A x \in m : x.id = r.id => x = r
    BY <2>1, <2>3
  <2> HIDE DEF m
  <2> QED BY <1>3, <2>2, <2>4, <2>5, <2>6, BytesAre
<1>5. Bytes(o) = Sum(Open("old"))
  <2>1. o \subseteq sessions
    BY DEF Alive
  <2>2. IsFiniteSet(o)
    BY <1>3, <2>1, FS_Subset
  <2>3. \A s \in sessions : s.up = s.id[1] /\ s.id \in Ids(sessions) /\ \A x \in sessions : x.id = s.id => x = s
    BY DEF QInv, Named, Ids
  <2>4. Ids(sessions) \subseteq Uploads \X Nat
    BY IdsAre
  <2>5. \A r \in o : r.id \in Uploads \X Nat /\ r.up = r.id[1]
    BY <2>1, <2>3, <2>4
  <2>6. \A r \in o : \A x \in o : x.id = r.id => x = r
    BY <2>1, <2>3
  <2>7. Open("old") = Ids(o)
    BY DEF Open
  <2> HIDE DEF o
  <2> QED BY <1>3, <2>2, <2>5, <2>6, <2>7, BytesAre
<1>6. a \subseteq reqs[q].seen \cup Ids(m)
  BY DEF Missed, Ids
<1>7. Promised(q) = reqs[q].usage + reserved + Sum(Open("old"))
  BY <1>5 DEF Promised
<1>8. Sum(Open("old")) \in Nat /\ Sum(reqs[q].seen) \in Nat /\ reserved \in Nat
  BY <1>2, <1>3, SetsAre, SumIs, ReservedIs
<1>9. Open("old") \cup Leaving = Open("old")
  BY <1>1
<1> HIDE DEF a, m, o
<1>10. Sum(a) <= Sum(reqs[q].seen) + Sum(Ids(m)) /\ Sum(a) \in Nat
  BY <1>2, <1>3, <1>4, <1>6, SumBoth
<1>11. Sum(a) + Sum(Open("old") \cup Leaving) + reserved <= Promised(q) + Bytes(m)
  <2>1. Sum(Open("old") \cup Leaving) = Sum(Open("old"))
    BY <1>9, Zenon
  <2>2. Bytes(m) = Sum(Ids(m)) /\ Promised(q) = Sum(reqs[q].seen) + reserved + Sum(Open("old"))
    BY <1>2, <1>4, <1>7, Zenon
  <2>3. Bytes(m) \in Nat
    BY <1>4
  <2> QED BY <1>8, <1>10, <2>1, <2>2, <2>3
<1>12. Promised(q) \in Nat
  BY <1>2, <1>7, <1>8
<1> QED BY <1>1, <1>4, <1>11, <1>12 DEF a, m

\* A booking: what is left of the quota, or the size.
LEMMA ReserveQuota == ASSUME IInv, QInv, NEW q \in DOMAIN reqs, Reserve(q) PROVE QInv'
<1> DEFINE remaining == world.quota - Promised(q)
           limit == IF remaining < world.size[reqs[q].up] THEN remaining ELSE world.size[reqs[q].up]
<1>1. /\ reqs[q].kind = "file" /\ reqs[q].pc = "counted" /\ lock' = None /\ asked' = asked
      /\ UNCHANGED <<world, client, rows, sessions>> /\ slip' = slip + Bytes(Missed(q))
      /\ IF remaining <= 0 THEN End(q, "refused") /\ reserved' = reserved
         ELSE /\ To(q, [reqs[q] EXCEPT !.pc = "write", !.limit = limit])
              /\ reserved' = reserved + limit
  BY DEF Reserve, Is, rest, tables
<1>2. /\ Sum(Ids(In("old")) \ Ending) + Sum(Open("old") \cup Leaving) + reserved <= Promised(q) + Bytes(Missed(q))
      /\ Promised(q) \in Nat /\ Bytes(Missed(q)) \in Nat /\ lock = q /\ Leaving = {}
  BY <1>1, Promise
<1>3. slip \in Nat /\ slip' \in Nat /\ slip <= slip' /\ world.quota \in Nat /\ world \in Worlds
  BY <1>1, <1>2, Given, SizeType
<1>4. q \notin Booked
  BY <1>1 DEF Booked
<1>5. CASE End(q, "refused") /\ reserved' = reserved
  <2>1. Goes(q, {"answered"}) /\ Keeps(q)
    BY <1>1, <1>5, Given, EndGoes
  <2>2. Locked'
    BY <1>1, <1>2, <2>1, LockStep
  <2> QED BY <1>1, <1>3, <1>4, <1>5, <2>1, <2>2, CountedStep, ServerQuiet DEF Before
<1>6. CASE /\ remaining > 0 /\ reserved' = reserved + limit
           /\ To(q, [reqs[q] EXCEPT !.pc = "write", !.limit = limit])
  <2>1. PICK n : n = limit
    OBVIOUS
  <2>2. q \in Uploads \X Nat /\ reqs[q].up = q[1]
    BY IdsAre DEF QInv, Named
  <2>3. Size[q] \in Nat /\ Size[q] = world.size[reqs[q].up]
    BY <1>3, <2>2, SizeType
  <2>4. n \in 0 .. Size[q] /\ n <= world.quota - Promised(q)
    BY <1>2, <1>3, <1>6, <2>1, <2>3
  <2> DEFINE r == [reqs[q] EXCEPT !.pc = "write", !.limit = n]
  <2>5. IsRequest(reqs[q]) /\ IsBooking(reqs[q])
    BY Given DEF Named
  <2>6. /\ r.pc = "write" /\ r.sess = reqs[q].sess /\ r.kind = reqs[q].kind /\ IsRequest(r)
        /\ r.up = reqs[q].up /\ IsBooking(r) /\ r.limit = n
    BY <2>5 DEF IsRequest, IsBooking
  <2>7. reqs' = [reqs EXCEPT ![q] = r]
    BY <1>6, <2>1 DEF To
  <2> HIDE DEF r, limit, remaining
  <2>8. Goes(q, {"write"}) /\ DOMAIN reqs' = DOMAIN reqs /\ reqs'[q] = r
    BY <1>1, <2>6, <2>7, Given, ToGoes
  <2>9. Named'
    BY <1>1, <2>8, ServerNamed DEF Before
  <2>10. Finite'
    BY <1>1, <2>8 DEF QInv, Finite
  <2>11. Locked'
    BY <1>1, <1>2, <2>8, LockStep
  <2>12. Counted'
    BY <1>1, <2>8, CountedStep
  <2>13. Size' = Size /\ Ids(rows)' = Ids(rows) /\ \A v : Ids(In(v))' = Ids(In(v)) /\ Open(v)' = Open(v)
    BY <1>1 DEF Size, Ids, In, Open, Alive
  <2>14. Ending' = Ending /\ Leaving' = {}
    <3>1. \A x \in DOMAIN reqs : /\ reqs'[x].kind = reqs[x].kind
                                 /\ IF x = q THEN reqs'[x].pc = "write" ELSE reqs'[x].pc = reqs[x].pc
      BY <2>8 DEF Goes
    <3>2. Leaving' \subseteq Leaving
      BY <2>8, EndingStep
    <3> QED BY <1>1, <1>2, <2>8, <3>1, <3>2 DEF Ending, Is
  <2>15. Booked' = Booked \cup {q} /\ q \in DOMAIN reqs'
    <3>1. \A x \in DOMAIN reqs : /\ reqs'[x].kind = reqs[x].kind
                                 /\ IF x = q THEN reqs'[x].pc = "write" ELSE reqs'[x].pc = reqs[x].pc
      BY <2>8 DEF Goes
    <3> QED BY <1>1, <2>8, <3>1 DEF Booked
  <2>16. Reserved'
    <3>1. \A x \in Booked : Limits[x] \in Int /\ Limits[x] = Limits'[x]
      <4>1. \A x \in Booked : x \in DOMAIN reqs /\ x # q
        BY <1>4, ReservedIs
      <4>2. \A x \in Booked : Limits'[x] = reqs'[x].limit /\ reqs'[x].limit = reqs[x].limit
        BY <2>8, <4>1 DEF Limits, Goes
      <4> QED BY <4>1, <4>2, ReservedIs
    <3>2. Limits'[q] = n /\ n \in Int
      BY <2>4, <2>3, <2>6, <2>8 DEF Limits
    <3>3. IsFiniteSet(Booked) /\ reserved = SumFunctionOnSet(Limits, Booked)
      BY ReservedIs
    <3>4. SumFunctionOnSet(Limits, Booked) = SumFunctionOnSet(Limits', Booked)
      BY <3>1, <3>3, SumSame
    <3>5. \A x \in Booked \cup {q} : Limits'[x] \in Int
      BY <3>1, <3>2
    <3>6. SumFunctionOnSet(Limits', Booked \cup {q}) = SumFunctionOnSet(Limits', Booked) + Limits'[q]
      BY <1>4, <3>3, <3>5, SumPut
    <3>7. reserved' = SumFunctionOnSet(Limits', Booked')
      BY <1>6, <2>1, <2>15, <3>2, <3>3, <3>4, <3>6, Zenon
    <3>8. \A x \in Booked' : /\ reqs'[x].limit \in 0 .. Size[x]
                             /\ reqs'[x].pc = "commit" \/ x \in Ids(rows) => reqs'[x].limit = Size[x]
      <4> SUFFICES ASSUME NEW x \in Booked'
                   PROVE  /\ reqs'[x].limit \in 0 .. Size[x]
                          /\ reqs'[x].pc = "commit" \/ x \in Ids(rows) => reqs'[x].limit = Size[x]
        OBVIOUS
      <4>1. CASE x = q
        <5>1. q \notin Ids(rows)
          BY <1>1 DEF IInv, Fresh, Before
        <5> QED BY <2>4, <2>6, <2>8, <4>1, <5>1
      <4>2. CASE x # q
        <5>1. x \in Booked /\ x \in DOMAIN reqs
          BY <2>15, <4>2, ReservedIs
        <5>2. reqs'[x].pc = reqs[x].pc /\ reqs'[x].limit = reqs[x].limit
          BY <2>8, <4>2, <5>1 DEF Goes
        <5> QED BY <5>1, <5>2 DEF QInv, Reserved
      <4> QED BY <4>1, <4>2
    <3> QED BY <2>13, <3>7, <3>8, Zenon DEF Reserved
  <2>17. NewQuota'
    BY <1>1, <1>3, <2>13, NewShrinks
  <2>18. OldQuota'
    <3> DEFINE a == Ids(In("old")) \ Ending
               b == Open("old") \cup Leaving
    <3>1. Sum(a) \in Nat /\ Sum(b) \in Nat /\ reserved \in Nat
      BY <1>3, SetsAre, SumIs, ReservedIs
    <3>2. Sum(a) + Sum(b) + reserved <= Promised(q) + Bytes(Missed(q))
      BY <1>2
    <3>3. a = Ids(In("old"))' \ Ending' /\ b = Open("old")' \cup Leaving'
      BY <1>2, <2>13, <2>14
    <3> HIDE DEF a, b
    <3>4. Sum(a) + Sum(b) + reserved' <= world.quota + slip'
      BY <1>1, <1>2, <1>3, <1>6, <2>1, <2>4, <3>1, <3>2
    <3>5. world' = world
      BY <1>1
    <3> QED BY <2>13, <3>3, <3>4, <3>5, Zenon DEF OldQuota, Sum
  <2> QED BY <1>1, <1>3, <2>9, <2>10, <2>11, <2>12, <2>16, <2>17, <2>18 DEF QInv
<1>7. remaining \in Int
  BY <1>2, <1>3
<1> QED BY <1>1, <1>5, <1>6, <1>7
\* A session is opened when its whole size is left of the quota.
LEMMA StartQuota == ASSUME IInv, QInv, NEW q \in DOMAIN reqs, Start(q) PROVE QInv'
<1> DEFINE new == [id |-> q, up |-> reqs[q].up, vault |-> "old", old |-> FALSE]
<1>1. /\ reqs[q].kind = "start" /\ reqs[q].pc = "counted" /\ lock' = None /\ asked' = asked
      /\ UNCHANGED <<world, client, rows, reserved>> /\ slip' = slip + Bytes(Missed(q))
      /\ \/ /\ Promised(q) + world.size[reqs[q].up] <= world.quota
            /\ sessions' = sessions \cup {new}
         \/ sessions' = sessions
      /\ \E res : End(q, res)
  BY DEF Start, Is, rest
<1>2. /\ Sum(Ids(In("old")) \ Ending) + Sum(Open("old") \cup Leaving) + reserved <= Promised(q) + Bytes(Missed(q))
      /\ Promised(q) \in Nat /\ Bytes(Missed(q)) \in Nat /\ lock = q /\ Leaving = {}
  BY <1>1, Promise
<1>3. slip \in Nat /\ slip' \in Nat /\ slip <= slip' /\ world.quota \in Nat /\ world \in Worlds
  BY <1>1, <1>2, Given, SizeType
<1>4. q \notin Booked
  BY <1>1 DEF Booked
<1>5. Goes(q, {"answered"}) /\ Keeps(q)
  BY <1>1, Given, EndGoes
<1>6. Locked'
  BY <1>1, <1>2, <1>5, LockStep
<1>7. Counted'
  BY <1>1, <1>5, CountedStep
<1>8. CASE sessions' = sessions
  BY <1>1, <1>3, <1>4, <1>5, <1>6, <1>7, <1>8, ServerQuiet DEF Before
<1>9. CASE Promised(q) + world.size[reqs[q].up] <= world.quota /\ sessions' = sessions \cup {new}
  <2>1. "up" \in DOMAIN new /\ new.id = q /\ new.up = reqs[q].up /\ new.vault = "old" /\ new.old = FALSE
    OBVIOUS
  <2> HIDE DEF new
  <2>2. Named'
    BY <1>1, <1>5, <1>9, <2>1, ServerNamed DEF Before
  <2>3. Finite'
    BY <1>1, <1>5, <1>9, FS_Subset, FS_AddElement DEF QInv, Finite, Goes
  <2>4. Size' = Size /\ Ids(rows)' = Ids(rows) /\ \A v : Ids(In(v))' = Ids(In(v))
    BY <1>1 DEF Size, Ids, In
  <2>5. Open("old")' = Open("old") \cup {q} /\ Open("new")' = Open("new")
    BY <1>9, <2>1 DEF Open, Alive, Ids
  <2>6. Reserved'
    BY <1>1, <1>4, <1>5, <2>4, ReservedStep
  <2>7. Ending \subseteq Ending' /\ Leaving' = {}
    <3>1. q \notin Ending
      BY <1>1 DEF Ending, Is
    <3> QED BY <1>1, <1>2, <1>5, <3>1, EndingStep
  <2>8. NewQuota'
    BY <1>1, <1>3, <2>4, <2>5, NewShrinks
  <2>9. OldQuota'
    <3> DEFINE a == Ids(In("old")) \ Ending
               b == Open("old") \cup Leaving
    <3>1. IsFiniteSet(a) /\ a \subseteq Uploads \X Nat /\ IsFiniteSet(b) /\ b \subseteq Uploads \X Nat
      BY SetsAre
    <3>2. q \in Uploads \X Nat /\ reqs[q].up = q[1]
      BY IdsAre DEF QInv, Named
    <3>3. Size[q] \in Nat /\ Size[q] = world.size[reqs[q].up]
      BY <1>3, <3>2, SizeType
    <3>4. Sum(a) + Sum(b) + reserved <= Promised(q) + Bytes(Missed(q))
      BY <1>2
    <3>5. PICK x : x = Ids(In("old"))' \ Ending'
      OBVIOUS
    <3>6. x \subseteq a /\ b \cup {q} = Open("old")' \cup Leaving'
      BY <1>2, <2>4, <2>5, <2>7, <3>5
    <3> HIDE DEF a, b
    <3>7. Sum(a) \in Nat /\ Sum(b) \in Nat /\ reserved \in Nat /\ Sum(x) \in Nat /\ Sum(x) <= Sum(a)
      BY <1>3, <3>1, <3>6, SumIs, ReservedIs
    <3>8. Sum(b \cup {q}) <= Sum(b) + Size[q]
      BY <1>3, <3>1, <3>2, SumPlus
    <3>9. Sum(b \cup {q}) \in Nat
      <4>1. IsFiniteSet(b \cup {q}) /\ b \cup {q} \subseteq Uploads \X Nat
        BY <3>1, <3>2, FS_AddElement
      <4> QED BY <1>3, <4>1, SumIs
    <3>10. Promised(q) + Size[q] <= world.quota
      BY <1>9, <3>3
    <3>11. Sum(x) + Sum(b \cup {q}) + reserved' <= world.quota + slip'
      BY <1>1, <1>2, <1>3, <3>3, <3>4, <3>7, <3>8, <3>9, <3>10
    <3>12. world' = world
      BY <1>1
    <3> QED BY <2>4, <3>5, <3>6, <3>11, <3>12, Zenon DEF OldQuota, Sum
  <2> QED BY <1>1, <1>3, <1>6, <1>7, <2>2, <2>3, <2>6, <2>8, <2>9 DEF QInv
<1> QED BY <1>1, <1>8, <1>9

\* A step of an upload in a single request that leaves what is reserved and stored, but
\* for the row of its file.
LEMMA FileQuiet ==
  ASSUME IInv, QInv, NEW q \in Booked, NEW S, Goes(q, S), Keeps(q), q \in DOMAIN reqs',
         UNCHANGED <<world, client, reserved, sessions, lock, slip>>,
         \/ rows' = rows
         \/ rows' = rows \cup {Row(q)} /\ S = {"refresh"} /\ reqs[q].limit = Size[q],
         \/ S = {"commit"} /\ reqs[q].pc \in Before /\ reqs[q].limit = Size[q]
         \/ S = {"refresh"} \/ S = {"release"}
  PROVE  QInv'
<1>0. reqs[q].kind = "file" /\ q \in DOMAIN reqs /\ (q \in Ids(rows) => reqs[q].limit = Size[q])
  BY DEF Booked, QInv, Reserved
<1>1. Named'
  BY <1>0, ServerNamed DEF Before
<1>2. Finite'
  <2>1. IsFiniteSet(rows')
    BY FS_AddElement DEF QInv, Finite
  <2> QED BY <2>1, FS_Subset DEF QInv, Finite, Goes
<1>3. Locked'
  BY <1>0, LockStep
<1>4. Counted'
  BY CountedStep
<1>r. \/ /\ Ids(rows)' = Ids(rows) /\ Ids(In("old"))' = Ids(In("old"))
         /\ Ids(In("new"))' = Ids(In("new"))
      \/ /\ Ids(rows)' = Ids(rows) \cup {q} /\ Ids(In("old"))' = Ids(In("old")) \cup {q}
         /\ Ids(In("new"))' = Ids(In("new")) /\ S = {"refresh"} /\ reqs[q].limit = Size[q]
  <2>1. CASE rows' = rows
    BY <1>0, <2>1 DEF Ids, In
  <2>2. CASE rows' = rows \cup {Row(q)} /\ S = {"refresh"} /\ reqs[q].limit = Size[q]
    <3>1. PICK r : r = Row(q)
      OBVIOUS
    <3>2. r.id = q /\ r.vault = "old"
      BY <3>1 DEF Row
    <3> QED BY <2>2, <3>1, <3>2 DEF Ids, In
  <2> QED BY <2>1, <2>2
<1>5. Ids(In("new"))' \subseteq Ids(In("new"))
  BY <1>r
<1>6. Reserved'
  <2>1. S \subseteq {"commit", "refresh", "release"} /\ world' = world /\ reserved' = reserved
    OBVIOUS
  <2>2. q \in Booked /\ ("commit" \in S \/ q \in Ids(rows)') => reqs[q].limit = Size[q]
    BY <1>0, <1>r
  <2>3. Ids(rows)' \subseteq Ids(rows) \cup {q}
    BY <1>r
  <2> QED BY <2>1, <2>2, <2>3, ReservedStep
<1>7. /\ Ending \subseteq Ending' /\ (S \in {{"refresh"}, {"release"}} => q \in Ending')
      /\ Leaving' \subseteq Leaving
  <2>1. S = {"commit"} => q \notin Ending
    BY DEF Ending, Before
  <2>2. reqs'[q].kind = "file" /\ reqs'[q].pc \in S
    BY <1>0 DEF Goes
  <2>3. S \in {{"refresh"}, {"release"}} => q \in Ending'
    BY <2>2 DEF Ending
  <2> QED BY <1>0, <2>1, <2>3, EndingStep
<1>8. \A v : Open(v)' = Open(v)
  BY DEF Open, Alive, Ids
<1>9. slip' \in Nat /\ slip <= slip' /\ reserved \in Int
  BY Given, ReservedIs
<1>10. OldQuota' /\ NewQuota'
  <2>1. Ids(In("old"))' \ Ending' \subseteq Ids(In("old")) \ Ending
    BY <1>r, <1>7
  <2>2. Open("old")' \cup Leaving' \subseteq Open("old") \cup Leaving
    BY <1>7, <1>8
  <2>3. world' = world /\ reserved' = reserved /\ reserved' <= reserved
    BY <1>9
  <2> QED BY <1>5, <1>8, <1>9, <2>1, <2>2, <2>3, Shrinks
<1> QED BY <1>1, <1>2, <1>3, <1>4, <1>6, <1>10, Given DEF QInv

\* A file that is written has had its size booked.
LEMMA WriteQuota == ASSUME IInv, QInv, NEW q \in DOMAIN reqs, Write(q) PROVE QInv'
<1>1. /\ reqs[q].kind = "file" /\ reqs[q].pc = "write" /\ asked' = asked
      /\ UNCHANGED <<world, client, rows, sessions, reserved, lock, slip>>
      /\ \/ world.size[reqs[q].up] <= reqs[q].limit /\ GoTo(q, "commit")
         \/ \E res : To(q, [reqs[q] EXCEPT !.pc = "release", !.res = res])
  BY DEF Write, Is, rest, tables, books, history
<1>2. q \in Booked
  BY <1>1 DEF Booked
<1>3. CASE world.size[reqs[q].up] <= reqs[q].limit /\ GoTo(q, "commit")
  <2>1. Goes(q, {"commit"}) /\ Keeps(q) /\ DOMAIN reqs' = DOMAIN reqs
    BY <1>1, <1>3, Given, GoToGoes
  <2>2. reqs[q].limit = Size[q]
    <3>1. q \in Uploads \X Nat /\ reqs[q].up = q[1]
      BY IdsAre DEF QInv, Named
    <3>2. Size[q] \in Nat /\ Size[q] = world.size[reqs[q].up]
      BY <3>1, SizeType, Given
    <3>3. reqs[q].limit \in Nat /\ reqs[q].limit <= Size[q]
      BY <1>2, ReservedIs
    <3> QED BY <1>3, <3>2, <3>3
  <2> QED BY <1>1, <1>2, <2>1, <2>2, FileQuiet DEF Before
<1>4. CASE \E res : To(q, [reqs[q] EXCEPT !.pc = "release", !.res = res])
  <2>1. Goes(q, {"release"}) /\ Keeps(q) /\ DOMAIN reqs' = DOMAIN reqs
    BY <1>1, <1>4, Given, ResultGoes
  <2> QED BY <1>1, <1>2, <2>1, FileQuiet DEF Before
<1> QED BY <1>1, <1>3, <1>4

\* A row that comes is counted as reserved until the release.
LEMMA CommitQuota == ASSUME IInv, QInv, NEW q \in DOMAIN reqs, Commit(q) PROVE QInv'
<1>1. /\ reqs[q].kind = "file" /\ reqs[q].pc = "commit" /\ asked' = asked
      /\ UNCHANGED <<world, client, sessions, reserved, lock, slip>>
      /\ \/ rows' = rows \cup {Row(q)} /\ GoTo(q, "refresh")
         \/ rows' = rows /\ \E res : To(q, [reqs[q] EXCEPT !.pc = "release", !.res = res])
  BY DEF Commit, Is, rest, books, history
<1>2. q \in Booked
  BY <1>1 DEF Booked
<1>3. reqs[q].limit = Size[q]
  BY <1>1, <1>2 DEF QInv, Reserved
<1>4. CASE rows' = rows \cup {Row(q)} /\ GoTo(q, "refresh")
  <2>1. Goes(q, {"refresh"}) /\ Keeps(q) /\ DOMAIN reqs' = DOMAIN reqs
    BY <1>1, <1>4, Given, GoToGoes
  <2> QED BY <1>1, <1>2, <1>3, <1>4, <2>1, FileQuiet
<1>5. CASE rows' = rows /\ \E res : To(q, [reqs[q] EXCEPT !.pc = "release", !.res = res])
  <2>1. Goes(q, {"release"}) /\ Keeps(q) /\ DOMAIN reqs' = DOMAIN reqs
    BY <1>1, <1>5, Given, ResultGoes
  <2> QED BY <1>1, <1>2, <1>5, <2>1, FileQuiet
<1> QED BY <1>1, <1>4, <1>5

\* Whether it is read back or not, the row stays.
LEMMA RefreshQuota == ASSUME IInv, QInv, NEW q \in DOMAIN reqs, Refresh(q) PROVE QInv'
<1>1. /\ reqs[q].kind = "file" /\ reqs[q].pc = "refresh" /\ asked' = asked
      /\ UNCHANGED <<world, client, rows, sessions, reserved, lock, slip>>
      /\ \E res : To(q, [reqs[q] EXCEPT !.pc = "release", !.res = res])
  BY DEF Refresh, Is, rest, tables, books
<1>2. q \in Booked
  BY <1>1 DEF Booked
<1>3. Goes(q, {"release"}) /\ Keeps(q) /\ DOMAIN reqs' = DOMAIN reqs
  BY <1>1, Given, ResultGoes
<1> QED BY <1>1, <1>2, <1>3, FileQuiet
\* With the release the row counts as stored, and no longer as reserved.
LEMMA ReleaseQuota == ASSUME IInv, QInv, NEW q \in DOMAIN reqs, Release(q) PROVE QInv'
<1>1. /\ reqs[q].kind = "file" /\ reqs[q].pc = "release" /\ asked' = asked
      /\ UNCHANGED <<world, client, rows, sessions, lock, slip>>
      /\ reserved' = IF reserved > reqs[q].limit THEN reserved - reqs[q].limit ELSE 0
      /\ \E res : End(q, res)
  BY DEF Release, Is, rest, disk, tables, history
<1>2. Goes(q, {"answered"}) /\ Keeps(q)
  BY <1>1, Given, EndGoes
<1>3. Named' /\ Finite'
  <2>1. Named'
    BY <1>1, <1>2, ServerNamed DEF Before
  <2>2. Finite'
    BY <1>1, <1>2, FS_Subset DEF QInv, Finite, Goes
  <2> QED BY <2>1, <2>2
<1>4. Locked' /\ Counted'
  BY <1>1, <1>2, LockStep, CountedStep
<1>5. q \in Booked /\ q \in Uploads \X Nat
  BY <1>1, IdsAre DEF Booked
<1>6. /\ IsFiniteSet(Booked) /\ Booked \subseteq DOMAIN reqs
      /\ \A x \in Booked : Limits[x] = reqs[x].limit /\ reqs[x].limit \in Nat /\ reqs[x].limit <= Size[x]
      /\ reserved = SumFunctionOnSet(Limits, Booked) /\ reserved \in Nat
  BY ReservedIs
<1> DEFINE others == Booked \ {q}
<1>7. /\ reserved = reqs[q].limit + SumFunctionOnSet(Limits, others)
      /\ SumFunctionOnSet(Limits, others) \in Nat /\ IsFiniteSet(others)
  <2>1. IsFiniteSet(others)
    BY <1>6, FS_RemoveElement
  <2>2. SumFunctionOnSet(Limits, others) \in Nat
    BY <1>6, <2>1, SumNat
  <2>3. SumFunctionOnSet(Limits, Booked) = Limits[q] + SumFunctionOnSet(Limits, others)
    BY <1>5, <1>6, SumTake
  <2> QED BY <1>5, <1>6, <2>1, <2>2, <2>3
<1>8. reserved' = SumFunctionOnSet(Limits, others) /\ reserved' + reqs[q].limit = reserved /\ reserved' \in Nat
  BY <1>1, <1>5, <1>6, <1>7
<1>9. Booked' = others
  <2>1. /\ DOMAIN reqs' \subseteq DOMAIN reqs /\ DOMAIN reqs \ DOMAIN reqs' \subseteq {q}
        /\ \A x \in DOMAIN reqs' : /\ reqs'[x].kind = reqs[x].kind
                                   /\ IF x = q THEN reqs'[x].pc = "answered" ELSE reqs'[x].pc = reqs[x].pc
    BY <1>2 DEF Goes
  <2>2. \A x \in DOMAIN reqs \ {q} : x \in Booked' <=> x \in Booked
    BY <2>1 DEF Booked
  <2>3. q \notin Booked' /\ Booked' \subseteq DOMAIN reqs /\ Booked \subseteq DOMAIN reqs
    BY <2>1 DEF Booked
  <2> QED BY <2>2, <2>3
<1>10. /\ Size' = Size /\ Ids(rows)' = Ids(rows)
       /\ \A v : Ids(In(v))' = Ids(In(v)) /\ Open(v)' = Open(v)
  BY <1>1 DEF Size, Ids, In, Open, Alive
<1>11. Reserved'
  <2>1. \A x \in others : x \in DOMAIN reqs' /\ reqs'[x].limit = reqs[x].limit /\ reqs'[x].pc = reqs[x].pc
    BY <1>2, <1>6 DEF Goes
  <2>2. \A x \in others : Limits[x] \in Int /\ Limits[x] = Limits'[x]
    BY <1>6, <2>1 DEF Limits
  <2>3. SumFunctionOnSet(Limits, others) = SumFunctionOnSet(Limits', others)
    BY <1>7, <2>2, SumSame
  <2>4. \A x \in others : /\ reqs'[x].limit \in 0 .. Size[x]
                          /\ reqs'[x].pc = "commit" \/ x \in Ids(rows) => reqs'[x].limit = Size[x]
    BY <2>1 DEF QInv, Reserved
  <2> QED BY <1>8, <1>9, <1>10, <2>3, <2>4, Zenon DEF Reserved
<1>12. Leaving' \subseteq Leaving /\ Ending \subseteq Ending' \cup {q}
  BY <1>1, <1>2, EndingStep
<1>13. slip' \in Nat /\ slip <= slip' /\ world \in Worlds /\ world.quota \in Nat
  BY <1>1, Given, SizeType
<1>14. NewQuota'
  BY <1>1, <1>10, <1>13, NewShrinks
<1>15. OldQuota'
  <2> DEFINE a == Ids(In("old")) \ Ending
             b == Open("old") \cup Leaving
  <2>1. IsFiniteSet(a) /\ a \subseteq Uploads \X Nat /\ IsFiniteSet(b) /\ b \subseteq Uploads \X Nat
    BY SetsAre
  <2>2. PICK x, y : x = Ids(In("old"))' \ Ending' /\ y = Open("old")' \cup Leaving'
    OBVIOUS
  <2>3. y \subseteq b
    BY <1>10, <1>12, <2>2
  <2>4. x \subseteq a \cup {q} /\ (x \subseteq a \/ reqs[q].limit = Size[q])
    <3>1. q \in Ids(In("old")) => reqs[q].limit = Size[q]
      <4>1. Ids(In("old")) \subseteq Ids(rows)
        BY IdsAre
      <4> QED BY <1>5, <4>1 DEF QInv, Reserved
    <3>2. x \subseteq a \cup ({q} \cap Ids(In("old")))
      BY <1>10, <1>12, <2>2
    <3> QED BY <3>1, <3>2
  <2>5. Sum(a) + Sum(b) + reserved <= world.quota + slip
    BY DEF QInv, OldQuota
  <2> HIDE DEF a, b
  <2>6. /\ Sum(a) \in Nat /\ Sum(b) \in Nat /\ Sum(y) \in Nat /\ Sum(y) <= Sum(b)
    BY <1>13, <2>1, <2>3, SumIs
  <2>7. Sum(x) <= Sum(a) + reqs[q].limit /\ Sum(x) \in Nat
    <3>1. reqs[q].limit \in Nat
      BY <1>5, <1>6
    <3>2. CASE x \subseteq a
      <4>1. Sum(x) <= Sum(a) /\ Sum(x) \in Nat
        BY <1>13, <2>1, <3>2, SumIs
      <4> QED BY <2>6, <3>1, <4>1
    <3>3. CASE reqs[q].limit = Size[q]
      <4>1. IsFiniteSet(a \cup {q}) /\ a \cup {q} \subseteq Uploads \X Nat
        BY <1>5, <2>1, FS_AddElement
      <4>2. Sum(x) <= Sum(a \cup {q}) /\ Sum(x) \in Nat /\ Sum(a \cup {q}) \in Nat
        BY <1>13, <2>4, <4>1, SumIs
      <4>3. Sum(a \cup {q}) <= Sum(a) + Size[q]
        BY <1>5, <1>13, <2>1, SumPlus
      <4> QED BY <2>6, <3>1, <3>3, <4>2, <4>3
    <3> QED BY <2>4, <3>2, <3>3
  <2>8. Sum(x) + Sum(y) + reserved' <= world.quota + slip'
    <3>1. reqs[q].limit \in Nat
      BY <1>5, <1>6
    <3> QED BY <1>1, <1>6, <1>8, <1>13, <2>5, <2>6, <2>7, <3>1
  <2>9. world' = world
    BY <1>1
  <2> QED BY <1>10, <2>2, <2>8, <2>9, Zenon DEF OldQuota, Sum
<1> QED BY <1>1, <1>3, <1>4, <1>11, <1>13, <1>14, <1>15 DEF QInv

\* An upload in parts that ends has its session's size, and the session is closed.
LEMMA CommitCompleteQuota == ASSUME IInv, QInv, NEW q \in DOMAIN reqs, CommitComplete(q) PROVE QInv'
<1> DEFINE s == reqs[q].sess
<1>1. /\ reqs[q].kind = "complete" /\ reqs[q].pc = "commit" /\ asked' = asked
      /\ UNCHANGED <<world, client, reserved, slip>>
      /\ \/ /\ rows' = rows \cup {Row(q)} /\ sessions' = {x \in sessions : x.id # s}
            /\ GoTo(q, "refresh") /\ lock' = lock
         \/ rows' = rows /\ sessions' = sessions /\ End(q, "refused") /\ lock' = None
  BY DEF CommitComplete, Is, rest, history
<1>2. PICK pc \in {"refresh", "answered"} :
        /\ Goes(q, {pc}) /\ Keeps(q)
        /\ \/ pc = "refresh" /\ lock' = lock
           \/ pc = "answered" /\ lock' = None
  <2>1. CASE GoTo(q, "refresh") /\ lock' = lock
    <3>1. Goes(q, {"refresh"}) /\ Keeps(q)
      BY <1>1, <2>1, Given, GoToGoes
    <3> QED BY <2>1, <3>1
  <2>2. CASE End(q, "refused") /\ lock' = None
    BY <1>1, <2>2, Given, EndGoes
  <2> QED BY <1>1, <2>1, <2>2
<1>3. lock = q /\ s # None /\ q \in Finishing /\ \A x \in Finishing : x = q
  <2>1. q \in Finishing
    BY <1>1 DEF Finishing, Is
  <2> QED BY <1>1, <2>1 DEF QInv, Locked, Locking, Finishing, Is
<1>4. Locked' /\ Counted'
  BY <1>1, <1>2, <1>3, LockStep, CountedStep
<1>5. q \notin Booked
  BY <1>1 DEF Booked
<1>6. CASE rows' = rows /\ sessions' = sessions
  <2>1. slip' \in Nat /\ slip <= slip'
    BY <1>1, Given
  <2> QED BY <1>1, <1>2, <1>4, <1>5, <1>6, <2>1, ServerQuiet DEF Before
<1>7. CASE rows' = rows \cup {Row(q)} /\ sessions' = {x \in sessions : x.id # s}
  <2>1. Named'
    BY <1>1, <1>2, <1>7, ServerNamed DEF Before
  <2>2. Finite'
    <3>1. IsFiniteSet(rows')
      BY <1>7, FS_AddElement DEF QInv, Finite
    <3>2. IsFiniteSet(sessions') /\ IsFiniteSet(DOMAIN reqs')
      BY <1>2, <1>7, FS_Subset DEF QInv, Finite, Goes
    <3> QED BY <3>1, <3>2 DEF Finite
  <2>3. /\ Size' = Size /\ Ids(rows)' = Ids(rows) \cup {q}
        /\ Ids(In("old"))' = Ids(In("old")) \cup {q} /\ Ids(In("new"))' = Ids(In("new"))
    <3>1. PICK r : r = Row(q)
      OBVIOUS
    <3>2. r.id = q /\ r.vault = "old"
      BY <3>1 DEF Row
    <3>3. rows' = rows \cup {r} /\ Size' = Size
      BY <1>1, <1>7, <3>1 DEF Size
    <3> QED BY <3>2, <3>3 DEF Ids, In
  <2>4. Reserved'
    BY <1>1, <1>2, <1>5, <2>3, ReservedStep
  <2>5. Ending \subseteq Ending'
    <3>1. q \notin Ending
      BY <1>1 DEF Ending, Is
    <3> QED BY <1>2, <3>1, EndingStep
  <2>6. Leaving = {s} /\ Leaving' = {}
    <3>1. Leaving = {s}
      BY <1>3 DEF Leaving
    <3>2. \A x \in DOMAIN reqs' : x # q => reqs'[x].kind = reqs[x].kind /\ reqs'[x].pc = reqs[x].pc /\ x \in DOMAIN reqs
      BY <1>2 DEF Goes
    <3>3. q \in DOMAIN reqs' => reqs'[q].pc # "commit"
      BY <1>2 DEF Goes
    <3>4. Finishing' = {}
      BY <1>3, <3>2, <3>3 DEF Finishing, Is
    <3> QED BY <3>1, <3>4 DEF Leaving
  <2>7. /\ Open("old")' \subseteq Open("old") \ {s} /\ Open("new")' \subseteq Open("new")
    BY <1>7 DEF Open, Alive, Ids
  <2>8. slip' \in Nat /\ slip <= slip' /\ world \in Worlds /\ world.quota \in Nat
    BY <1>1, Given, SizeType
  <2>9. NewQuota'
    BY <1>1, <2>3, <2>7, <2>8, NewShrinks
  <2>10. Size[q] = Size[s] /\ q \in Uploads \X Nat /\ s \in Uploads \X Nat
    <3>1. q \in Uploads \X Nat /\ s \in Uploads \X Nat
      <4>1. s \in Leaving
        BY <2>6
      <4> QED BY <4>1, IdsAre
    <3>2. s[1] = q[1]
      BY <1>3 DEF QInv, Named, Of
    <3> QED BY <3>1, <3>2, <2>8, SizeType
  <2>11. OldQuota'
    <3> DEFINE a == Ids(In("old")) \ Ending
               b == Open("old") \cup Leaving
               c == b \ {s}
    <3>1. IsFiniteSet(a) /\ a \subseteq Uploads \X Nat /\ IsFiniteSet(b) /\ b \subseteq Uploads \X Nat
      BY SetsAre
    <3>2. PICK x, y : x = Ids(In("old"))' \ Ending' /\ y = Open("old")' \cup Leaving'
      OBVIOUS
    <3>3. y \subseteq c /\ s \in b
      BY <2>6, <2>7, <3>2
    <3>4. x \subseteq a \cup {q}
      BY <2>3, <2>5, <3>2
    <3>5. Sum(a) + Sum(b) + reserved <= world.quota + slip
      BY DEF QInv, OldQuota
    <3>6. c \subseteq b
      OBVIOUS
    <3>7. Sum(b) = Sum(c) + Size[s]
      <4> HIDE DEF b
      <4> QED BY <2>8, <2>10, <3>1, <3>3, SumPlus
    <3> HIDE DEF a, b, c, s
    <3>8. IsFiniteSet(c) /\ c \subseteq Uploads \X Nat
      BY <3>1, <3>6, FS_Subset
    <3>9. Sum(a) \in Nat /\ Sum(c) \in Nat /\ Sum(y) \in Nat /\ Sum(y) <= Sum(c)
      BY <2>8, <3>1, <3>3, <3>8, SumIs
    <3>10. IsFiniteSet(a \cup {q}) /\ a \cup {q} \subseteq Uploads \X Nat
      BY <2>10, <3>1, FS_AddElement
    <3>11. Sum(x) <= Sum(a \cup {q}) /\ Sum(x) \in Nat /\ Sum(a \cup {q}) \in Nat
      BY <2>8, <3>4, <3>10, SumIs
    <3>12. Sum(a \cup {q}) <= Sum(a) + Size[q] /\ Size[q] \in Nat
      BY <2>8, <2>10, <3>1, SumPlus, SizeType
    <3>13. reserved \in Nat
      BY ReservedIs
    <3>14. Sum(x) + Sum(y) + reserved' <= world.quota + slip'
      BY <1>1, <2>8, <2>10, <3>5, <3>7, <3>9, <3>11, <3>12, <3>13
    <3>15. world' = world
      BY <1>1
    <3> QED BY <2>3, <3>2, <3>14, <3>15, Zenon DEF OldQuota, Sum
  <2> QED BY <1>1, <1>4, <2>1, <2>2, <2>4, <2>8, <2>9, <2>11 DEF QInv
<1> QED BY <1>1, <1>6, <1>7

LEMMA RefreshCompleteQuota ==
  ASSUME IInv, QInv, NEW q \in DOMAIN reqs, RefreshComplete(q) PROVE QInv'
<1>1. /\ reqs[q].kind = "complete" /\ reqs[q].pc = "refresh" /\ asked' = asked /\ lock' = None
      /\ UNCHANGED <<world, client, reserved, rows, sessions, slip>> /\ \E res : End(q, res)
  BY DEF RefreshComplete, Is, tables, rest
<1>2. Goes(q, {"answered"}) /\ Keeps(q)
  BY <1>1, Given, EndGoes
<1>3. lock = q
  BY <1>1 DEF QInv, Locked, Locking
<1>4. Locked' /\ Counted'
  BY <1>1, <1>2, <1>3, LockStep, CountedStep
<1>5. q \notin Booked
  BY <1>1 DEF Booked
<1> QED BY <1>1, <1>2, <1>4, <1>5, Given, ServerQuiet DEF Before
-----------------------------------------------------------------------------
(* The client's steps. *)

\* A client knows its own requests and sessions.
ClientsNamed ==
  \A u \in Uploads : /\ "req" \in DOMAIN client'[u] /\ Of(u, client'[u].sess)
                     /\ client'[u].pc = "wait" => client'[u].req[1] = u

\* What has no part in a client's step.
stored == <<world, rows, sessions, reserved, lock, slip>>

\* A new request has booked nothing, and nothing that is stored has its id.
LEMMA PostQuota ==
  ASSUME IInv, QInv, NEW u \in Uploads, NEW kind, NEW part, Post(u, kind, part),
         ClientsNamed, UNCHANGED stored
  PROVE  QInv'
<1> DEFINE n == NextId(u)
<1>1. /\ Used \subseteq Used' /\ n \notin Used /\ DOMAIN reqs' = DOMAIN reqs \cup {n}
      /\ \A q \in DOMAIN reqs : reqs'[q] = reqs[q]
      /\ reqs'[n].sess = client[u].sess /\ reqs'[n].pc \in {"arrive", "answered"}
  BY PostProps DEF IInv
<1>2. n \notin DOMAIN reqs /\ n[1] = u /\ DOMAIN reqs \subseteq Used
  BY <1>1 DEF IInv, Requests, NextId
<1>3. IsBooking(reqs'[n]) /\ reqs'[n].up = u
  <2>1. reqs'[n] = Request(u, kind, part)
    BY <1>2 DEF Post, With
  <2> QED BY <2>1 DEF Request, IsBooking
<1>4. Of(u, client[u].sess)
  BY DEF QInv, Named
<1>u. world' = world /\ rows' = rows /\ sessions' = sessions /\ reserved' = reserved /\ lock' = lock /\ slip' = slip
  BY DEF stored
<1> HIDE DEF n
<1>5. /\ Size' = Size /\ \A v : Ids(In(v))' = Ids(In(v)) /\ Open(v)' = Open(v)
      /\ Ids(rows)' = Ids(rows) /\ Ids(sessions)' = Ids(sessions)
  BY <1>u DEF Size, Ids, In, Open, Alive
<1>6. Named'
  <2>1. Ids(sessions) \subseteq Used
    BY DEF QInv, Named
  <2>2. \A q \in DOMAIN reqs' : /\ IsBooking(reqs'[q]) /\ reqs'[q].up = q[1] /\ Of(q[1], reqs'[q].sess)
                                /\ reqs'[q].pc \in Before => q \notin Ids(sessions)
    BY <1>1, <1>2, <1>3, <1>4, <2>1 DEF QInv, Named
  <2>3. Ids(sessions)' \subseteq Used' /\ Ids(sessions)' = Ids(sessions)
    BY <1>1, <1>5, <2>1
  <2> QED BY <1>u, <2>2, <2>3 DEF QInv, Named, ClientsNamed, Of
<1>7. Finite'
  BY <1>1, <1>u, FS_AddElement DEF QInv, Finite
<1>8. Finishing' = Finishing /\ Leaving' = Leaving /\ Ending' = Ending /\ Booked' = Booked
  BY <1>1, <1>2 DEF Finishing, Leaving, Ending, Booked, Is
<1>9. Locked'
  BY <1>1, <1>2, <1>8, <1>u DEF QInv, Locked, Locking, Finishing, Is
<1>10. Counted'
  <2>1. \A q \in DOMAIN reqs' : reqs'[q].pc = "counted" =>
          reqs'[q].seen \subseteq Used' /\ IsFiniteSet(reqs'[q].seen) /\ reqs'[q].usage = Sum(reqs'[q].seen)
    BY <1>1, <1>2 DEF QInv, Counted
  <2> QED BY <1>5, <2>1, Zenon DEF Counted, Sum
<1>11. Reserved'
  <2>1. \A q \in Booked : Limits[q] \in Int /\ Limits[q] = Limits'[q]
    <3>1. \A q \in Booked : q \in DOMAIN reqs /\ Limits[q] = reqs[q].limit /\ reqs[q].limit \in Int
      BY ReservedIs
    <3> QED BY <1>1, <3>1 DEF Limits
  <2>2. SumFunctionOnSet(Limits, Booked) = SumFunctionOnSet(Limits', Booked)
    BY <2>1, ReservedIs, SumSame
  <2>3. \A q \in Booked : /\ reqs'[q].limit \in 0 .. Size[q]
                          /\ reqs'[q].pc = "commit" \/ q \in Ids(rows) => reqs'[q].limit = Size[q]
    <3>1. \A q \in Booked : reqs'[q] = reqs[q]
      BY <1>1 DEF Booked
    <3> QED BY <3>1 DEF QInv, Reserved
  <2>4. reserved' = SumFunctionOnSet(Limits', Booked)
    BY <1>u, <2>2, ReservedIs
  <2> QED BY <1>5, <1>8, <2>3, <2>4, Zenon DEF Reserved
<1>12. OldQuota' /\ NewQuota'
  BY <1>5, <1>8, <1>u, Given, ReservedIs, Shrinks
<1> QED BY <1>6, <1>7, <1>9, <1>10, <1>11, <1>12, <1>u, Given DEF QInv

\* An answer that is taken, or not waited for any more.
LEMMA NoteQuota ==
  ASSUME IInv, QInv, NEW q, Goes(q, {reqs[q].pc}), Keeps(q), ClientsNamed, UNCHANGED stored,
         \A x \in DOMAIN reqs \ DOMAIN reqs' : reqs[x].pc = "answered"
  PROVE  QInv'
<1>u. world' = world /\ rows' = rows /\ sessions' = sessions /\ reserved' = reserved /\ lock' = lock /\ slip' = slip
  BY DEF stored
<1>1. /\ Used' = Used /\ DOMAIN reqs' \subseteq DOMAIN reqs
      /\ \A x \in DOMAIN reqs' : /\ IsBooking(reqs'[x]) /\ reqs'[x].sess = reqs[x].sess
                                 /\ reqs'[x].kind = reqs[x].kind /\ reqs'[x].up = reqs[x].up
                                 /\ reqs'[x].pc = reqs[x].pc
  BY DEF Goes, Used
<1>2. /\ Size' = Size /\ \A v : Ids(In(v))' = Ids(In(v)) /\ Open(v)' = Open(v)
      /\ Ids(rows)' = Ids(rows) /\ Ids(sessions)' = Ids(sessions)
  BY <1>u DEF Size, Ids, In, Open, Alive
<1>3. Named'
  <2>1. \A x \in DOMAIN reqs' : /\ IsBooking(reqs'[x]) /\ reqs'[x].up = x[1] /\ Of(x[1], reqs'[x].sess)
                                /\ reqs'[x].pc \in Before => x \notin Ids(sessions)
    BY <1>1 DEF QInv, Named
  <2> QED BY <1>1, <1>2, <1>u, <2>1 DEF QInv, Named, ClientsNamed, Of
<1>4. Finite'
  BY <1>1, <1>u, FS_Subset DEF QInv, Finite
<1>5. Finishing' = Finishing /\ Leaving' = Leaving /\ Ending' = Ending
  <2>1. \A x \in DOMAIN reqs : reqs[x].pc # "answered" => x \in DOMAIN reqs'
    OBVIOUS
  <2>2. Finishing' = Finishing /\ Ending' = Ending
    BY <1>1, <2>1 DEF Finishing, Ending, Is
  <2>3. \A x \in Finishing : reqs'[x].sess = reqs[x].sess
    BY <1>1, <2>1 DEF Finishing, Is
  <2> QED BY <2>2, <2>3 DEF Leaving
<1>6. Locked'
  BY <1>1, <1>5, <1>u DEF QInv, Locked, Locking, Finishing, Is
<1>7. Counted'
  BY <1>u, CountedStep
<1>8. Reserved'
  <2>1. q \in Booked => q \in DOMAIN reqs'
    BY DEF Booked
  <2>2. q \in DOMAIN reqs \ Booked => reqs[q].kind # "file" \/ {reqs[q].pc} \cap {"write", "commit", "refresh", "release"} = {}
    BY DEF Booked
  <2>3. q \in Booked /\ ("commit" \in {reqs[q].pc} \/ q \in Ids(rows)') => reqs[q].limit = Size[q]
    BY <1>2 DEF QInv, Reserved
  <2> QED BY <1>2, <1>u, <2>1, <2>2, <2>3, ReservedStep
<1>9. OldQuota' /\ NewQuota'
  BY <1>2, <1>5, <1>u, Given, ReservedIs, Shrinks
<1> QED BY <1>3, <1>4, <1>6, <1>7, <1>8, <1>9, <1>u, Given DEF QInv

LEMMA PostsQuota ==
  ASSUME IInv, QInv, NEW u \in Uploads, Send(u) \/ Abort(u) \/ \E i \in Parts : SendPart(u, i)
  PROVE  QInv'
<1>1. UNCHANGED stored
  BY DEF Send, Abort, SendPart, stored, disk, tables, books, rest, history
<1>2. /\ DOMAIN client = Uploads
      /\ \A v \in Uploads : /\ IsClient(client[v]) /\ "req" \in DOMAIN client[v] /\ Of(v, client[v].sess)
                            /\ client[v].pc = "wait" => client[v].req[1] = v
  BY DEF IInv, Clients, QInv, Named
<1>3. CASE Send(u)
  <2>1. client' = [client EXCEPT ![u] = [client[u] EXCEPT !.pc = "wait", !.req = NextId(u)]]
    BY <1>3 DEF Send, Let
  <2>2. ClientsNamed
    BY <1>2, <2>1 DEF ClientsNamed, IsClient, NextId
  <2>3. \E kind : Post(u, kind, 0)
    BY <1>3 DEF Send
  <2> QED BY <1>1, <2>2, <2>3, PostQuota
<1>4. CASE Abort(u)
  <2>1. client' = [client EXCEPT ![u] = [client[u] EXCEPT !.pc = "failed"]]
    BY <1>4 DEF Abort, Let
  <2>2. ClientsNamed
    BY <1>2, <2>1 DEF ClientsNamed, IsClient
  <2> QED BY <1>1, <1>4, <2>2, PostQuota DEF Abort
<1>5. CASE \E i \in Parts : SendPart(u, i)
  <2>1. PICK i \in Parts : SendPart(u, i)
    BY <1>5
  <2>2. \E p : client' = [client EXCEPT ![u].part[i] = p]
    BY <2>1 DEF SendPart, PartWith
  <2>3. ClientsNamed
    BY <1>2, <2>2 DEF ClientsNamed, IsClient
  <2> QED BY <1>1, <2>1, <2>3, PostQuota DEF SendPart
<1> QED BY <1>3, <1>4, <1>5

\* Whatever follows an attempt, the client does not wait.
LEMMA AgainNamed ==
  ASSUME NEW u, NEW c, IsClient(c), "req" \in DOMAIN c
  PROVE  /\ "req" \in DOMAIN Again(u, c) /\ Again(u, c).sess = c.sess /\ Again(u, c).pc # "wait"
         /\ "req" \in DOMAIN GivenUp(c) /\ GivenUp(c).sess = c.sess /\ GivenUp(c).pc # "wait"
<1>1. "req" \in DOMAIN GivenUp(c) /\ GivenUp(c).sess = c.sess /\ GivenUp(c).pc # "wait"
  BY DEF IsClient, GivenUp
<1> QED BY <1>1 DEF IsClient, Again

LEMMA NotesQuota ==
  ASSUME IInv, QInv, NEW u \in Uploads,
         \/ Receive(u) \/ LoseAnswer(u) \/ Look(u) \/ PartsEnd(u)
         \/ \E i \in Parts : ReceivePart(u, i) \/ LosePart(u, i)
  PROVE  QInv'
<1>1. UNCHANGED stored /\ asked' = asked
  BY DEF Receive, LoseAnswer, Look, PartsEnd, ReceivePart, LosePart, stored, disk, tables, books, rest, history
<1>2. /\ DOMAIN client = Uploads
      /\ \A v \in Uploads : /\ IsClient(client[v]) /\ "req" \in DOMAIN client[v] /\ Of(v, client[v].sess)
                            /\ client[v].pc = "wait" => client[v].req[1] = v
  BY DEF IInv, Clients, QInv, Named
<1>3. CASE Receive(u)
  <2> DEFINE c == client[u]
  <2>1. /\ c.pc = "wait" /\ c.req \in DOMAIN reqs /\ reqs[c.req].pc = "answered"
        /\ reqs' = Without(reqs, c.req)
    BY <1>3 DEF Receive
  <2>2. PICK d : client' = [client EXCEPT ![u] = d] /\ "req" \in DOMAIN d /\ d.pc # "wait" /\ Of(u, d.sess)
    <3> DEFINE d == CASE reqs[c.req].res = "ok" /\ reqs[c.req].kind = "start" ->
                           [c EXCEPT !.pc = "parts", !.req = None, !.sess = c.req, !.tries = 0]
                      [] reqs[c.req].res = "ok" /\ reqs[c.req].kind # "start" ->
                           [c EXCEPT !.pc = "done", !.id = c.req]
                      [] reqs[c.req].res = "broken" -> Again(u, c)
                      [] OTHER -> GivenUp(c)
    <3>1. client' = [client EXCEPT ![u] = d]
      BY <1>3 DEF Receive, Let
    <3>2. IsClient(c) /\ "req" \in DOMAIN c /\ Of(u, c.sess) /\ Of(u, c.req)
      BY <1>2, <2>1 DEF Of
    <3>3. /\ "req" \in DOMAIN Again(u, c) /\ Again(u, c).sess = c.sess /\ Again(u, c).pc # "wait"
          /\ "req" \in DOMAIN GivenUp(c) /\ GivenUp(c).sess = c.sess /\ GivenUp(c).pc # "wait"
      BY <3>2, AgainNamed
    <3>4. LET e == [c EXCEPT !.pc = "parts", !.req = None, !.sess = c.req, !.tries = 0] IN
            "req" \in DOMAIN e /\ e.sess = c.req /\ e.pc = "parts"
      BY <3>2 DEF IsClient
    <3>5. LET e == [c EXCEPT !.pc = "done", !.id = c.req] IN
            "req" \in DOMAIN e /\ e.sess = c.sess /\ e.pc = "done"
      BY <3>2 DEF IsClient
    <3>6. "req" \in DOMAIN d /\ d.sess \in {c.sess, c.req} /\ d.pc # "wait"
      BY <3>3, <3>4, <3>5
    <3> QED BY <3>1, <3>2, <3>6
  <2>3. ClientsNamed
    BY <1>2, <2>2 DEF ClientsNamed
  <2>4. /\ Goes(c.req, {reqs[c.req].pc}) /\ Keeps(c.req)
        /\ \A x \in DOMAIN reqs \ DOMAIN reqs' : reqs[x].pc = "answered"
    BY <1>1, <2>1, UnheardGoes, UnheardChanges, Given
  <2> HIDE DEF c
  <2> QED BY <1>1, <2>3, <2>4, NoteQuota
<1>4. CASE LoseAnswer(u)
  <2>1. client' = [client EXCEPT ![u] = Again(u, client[u])] /\ reqs' = Unheard(client[u].req)
    BY <1>4 DEF LoseAnswer, Let
  <2>2. ClientsNamed
    BY <1>2, <2>1, AgainNamed DEF ClientsNamed
  <2>3. PICK q : reqs' = Unheard(q)
    BY <2>1
  <2>4. /\ Goes(q, {reqs[q].pc}) /\ Keeps(q)
        /\ \A x \in DOMAIN reqs \ DOMAIN reqs' : reqs[x].pc = "answered"
    BY <1>1, <2>3, UnheardGoes, UnheardChanges, Given
  <2> QED BY <1>1, <2>2, <2>4, NoteQuota
<1>5. CASE \E i \in Parts : ReceivePart(u, i) \/ LosePart(u, i)
  <2>1. PICK i \in Parts : ReceivePart(u, i) \/ LosePart(u, i)
    BY <1>5
  <2>2. \E p : client' = [client EXCEPT ![u].part[i] = p]
    BY <2>1 DEF ReceivePart, LosePart, PartWith
  <2>3. ClientsNamed
    BY <1>2, <2>2 DEF ClientsNamed, IsClient
  <2>4. PICK q : \/ reqs' = Unheard(q)
                 \/ q \in DOMAIN reqs /\ reqs[q].pc = "answered" /\ reqs' = Without(reqs, q)
    BY <2>1 DEF ReceivePart, LosePart
  <2>5. /\ Goes(q, {reqs[q].pc}) /\ Keeps(q)
        /\ \A x \in DOMAIN reqs \ DOMAIN reqs' : reqs[x].pc = "answered"
    BY <1>1, <2>4, UnheardGoes, UnheardChanges, Given
  <2> QED BY <1>1, <2>3, <2>5, NoteQuota
<1>6. CASE Look(u) \/ PartsEnd(u)
  <2>1. reqs' = reqs
    BY <1>6 DEF Look, PartsEnd
  <2>2. \E p, id : p # "wait" /\ \/ client' = [client EXCEPT ![u] = [client[u] EXCEPT !.pc = p, !.id = id]]
                                 \/ client' = [client EXCEPT ![u] = [client[u] EXCEPT !.pc = p]]
    <3>1. CASE Look(u)
      <4>1. \/ client' = [client EXCEPT ![u] = [client[u] EXCEPT !.pc = IF InParts(u) THEN "complete" ELSE "send"]]
            \/ \E id : client' = [client EXCEPT ![u] = [client[u] EXCEPT !.pc = "done", !.id = id]]
        BY <3>1 DEF Look, Let
      <4>2. "complete" # "wait" /\ "send" # "wait" /\ "done" # "wait"
        OBVIOUS
      <4> QED BY <4>1, <4>2
    <3>2. CASE PartsEnd(u)
      <4>1. \/ client' = [client EXCEPT ![u] = [client[u] EXCEPT !.pc = "abort"]]
            \/ client' = [client EXCEPT ![u] = [client[u] EXCEPT !.pc = "complete"]]
        BY <3>2 DEF PartsEnd, Let
      <4>2. "complete" # "wait" /\ "abort" # "wait"
        OBVIOUS
      <4> QED BY <4>1, <4>2
    <3> QED BY <1>6, <3>1, <3>2
  <2>3. ClientsNamed
    BY ZenonT(40), <1>2, <2>2 DEF ClientsNamed, IsClient
  <2>4. Goes(None, {reqs[None].pc}) /\ Keeps(None)
    <3>1. \A x \in DOMAIN reqs : IsRequest(reqs[x]) /\ IsBooking(reqs[x]) /\ x # None
      <4>1. \A x \in Uploads \X Nat : x # None
        BY DEF None
      <4> QED BY <4>1, IdsAre, Given DEF Named
    <3> QED BY <1>1, <2>1, <3>1 DEF Goes, Keeps
  <2> QED BY <1>1, <2>1, <2>3, <2>4, NoteQuota
<1> QED BY <1>3, <1>4, <1>5, <1>6
-----------------------------------------------------------------------------
(* The other request, and the age of a session. *)

\* A step that changes no request, and adds no row.
LEMMA OtherQuota ==
  ASSUME IInv, QInv, UNCHANGED <<world, client, asked, reqs, reserved, lock, slip>>,
         Finite', Ids(rows)' \subseteq Ids(rows), \A r \in rows' : r.up = r.id[1],
         Ids(sessions)' \subseteq Ids(sessions),
         \A s \in sessions' : "up" \in DOMAIN s /\ s.up = s.id[1] /\ (\A x \in sessions' : x.id = s.id => x = s),
         OldQuota', NewQuota'
  PROVE  QInv'
<1>1. Size' = Size /\ Used' = Used /\ Finishing' = Finishing /\ Booked' = Booked /\ Limits' = Limits
  BY DEF Size, Used, Finishing, Booked, Limits, Is
<1>2. Named'
  <2>1. \A q \in DOMAIN reqs : /\ IsBooking(reqs[q]) /\ reqs[q].up = q[1] /\ Of(q[1], reqs[q].sess)
                               /\ reqs[q].pc \in Before => q \notin Ids(sessions)'
    BY DEF QInv, Named
  <2>2. Ids(sessions)' \subseteq Used'
    BY <1>1 DEF QInv, Named
  <2>3. \A u \in Uploads : /\ "req" \in DOMAIN client[u] /\ Of(u, client[u].sess)
                           /\ client[u].pc = "wait" => client[u].req[1] = u
    BY DEF QInv, Named
  <2> QED BY <2>1, <2>2, <2>3 DEF Named, Of
<1>3. Locked'
  BY <1>1 DEF QInv, Locked, Locking, Finishing, Is
<1>4. Counted'
  <2>1. \A q \in DOMAIN reqs' : reqs'[q].pc = "counted" =>
          reqs'[q].seen \subseteq Used' /\ IsFiniteSet(reqs'[q].seen) /\ reqs'[q].usage = Sum(reqs'[q].seen)
    BY <1>1 DEF QInv, Counted
  <2> QED BY <1>1, <2>1, Zenon DEF Counted, Sum
<1>5. Reserved'
  <2>1. \A q \in Booked : /\ reqs[q].limit \in 0 .. Size[q]
                          /\ reqs[q].pc = "commit" \/ q \in Ids(rows)' => reqs[q].limit = Size[q]
    BY DEF QInv, Reserved
  <2>2. reserved' = SumFunctionOnSet(Limits, Booked) /\ reqs' = reqs
    BY DEF QInv, Reserved
  <2> QED BY <1>1, <2>1, <2>2, Zenon DEF Reserved
<1> QED BY <1>2, <1>3, <1>4, <1>5, Given DEF QInv

\* Rows and sessions that go.
LEMMA LessQuota ==
  ASSUME IInv, QInv, UNCHANGED <<world, client, asked, reqs, reserved, lock, slip>>,
         rows' \subseteq rows, sessions' \subseteq sessions
  PROVE  QInv'
<1>1. Finite'
  BY FS_Subset DEF QInv, Finite
<1>2. /\ Ids(rows)' \subseteq Ids(rows) /\ Ids(sessions)' \subseteq Ids(sessions)
      /\ \A v : Ids(In(v))' \subseteq Ids(In(v)) /\ Open(v)' \subseteq Open(v)
  BY DEF Ids, In, Open, Alive
<1>3. Ending' = Ending /\ Leaving' = Leaving
  BY DEF Ending, Leaving, Finishing, Is
<1>4. Ids(In("old"))' \ Ending' \subseteq Ids(In("old")) \ Ending
  BY <1>2, <1>3
<1>5. Open("old")' \cup Leaving' \subseteq Open("old") \cup Leaving
  BY <1>2, <1>3
<1>6. slip' \in Nat /\ slip <= slip' /\ reserved \in Int /\ reserved' \in Int /\ reserved' <= reserved
  BY Given, ReservedIs
<1>7. OldQuota' /\ NewQuota'
  BY <1>2, <1>4, <1>5, <1>6, Shrinks
<1>8. \A r \in rows' : r.up = r.id[1]
  BY DEF QInv, Named
<1>9. \A s \in sessions' : "up" \in DOMAIN s /\ s.up = s.id[1] /\ (\A x \in sessions' : x.id = s.id => x = s)
  BY DEF QInv, Named
<1> QED BY <1>1, <1>2, <1>7, <1>8, <1>9, OtherQuota
\* A session that has become old does not count any more.
LEMMA ExpireQuota == ASSUME IInv, QInv, NEW x \in sessions, Expire(x) PROVE QInv'
<1> DEFINE y == [x EXCEPT !.old = TRUE]
<1>1. UNCHANGED <<world, client, asked, reqs, reserved, lock, slip>> /\ rows' = rows
  BY DEF Expire, rest, books, history
<1>2. IsSession(x) /\ "up" \in DOMAIN x /\ x.up = x.id[1] /\ \A z \in sessions : z.id = x.id => z = x
  BY DEF IInv, Tables, QInv, Named
<1>3. /\ y.id = x.id /\ y.up = x.up /\ y.vault = x.vault /\ y.old = TRUE /\ "up" \in DOMAIN y
      /\ sessions' = (sessions \ {x}) \cup {y}
  BY <1>2 DEF Expire, IsSession
<1> HIDE DEF y
<1>4. Finite'
  BY <1>1, <1>3, FS_RemoveElement, FS_AddElement DEF QInv, Finite
<1>5. Ids(rows)' = Ids(rows) /\ \A v : Ids(In(v))' = Ids(In(v))
  BY <1>1 DEF Ids, In
<1>6. Ids(sessions)' \subseteq Ids(sessions) /\ \A v : Open(v)' \subseteq Open(v)
  BY <1>3 DEF Ids, Open, Alive
<1>7. Ending' = Ending /\ Leaving' = Leaving
  BY <1>1 DEF Ending, Leaving, Finishing, Is
<1>8. slip' \in Nat /\ slip <= slip' /\ reserved \in Int /\ reserved' \in Int /\ reserved' <= reserved
  BY <1>1, Given, ReservedIs
<1>9. OldQuota' /\ NewQuota'
  <2>1. Open("old")' \cup Leaving' \subseteq Open("old") \cup Leaving
    BY <1>6, <1>7
  <2>2. Ids(In("old"))' \ Ending' \subseteq Ids(In("old")) \ Ending
    BY <1>5, <1>7
  <2> QED BY <1>1, <1>5, <1>6, <1>8, <2>1, <2>2, Shrinks
<1>10. \A r \in rows' : r.up = r.id[1]
  BY <1>1 DEF QInv, Named
<1>11. \A s \in sessions' : "up" \in DOMAIN s /\ s.up = s.id[1] /\ (\A z \in sessions' : z.id = s.id => z = s)
  <2>1. \A s \in sessions : "up" \in DOMAIN s /\ s.up = s.id[1] /\ (\A z \in sessions : z.id = s.id => z = s)
    BY DEF QInv, Named
  <2> QED BY <1>2, <1>3, <2>1
<1> QED BY <1>1, <1>4, <1>5, <1>6, <1>9, <1>10, <1>11, OtherQuota

\* A delete and a wipe take rows and sessions away.
LEMMA TakenQuota ==
  ASSUME IInv, QInv,
         \/ (\E r \in rows : DeleteRow(r)) \/ DeleteBlob
         \/ WipeList \/ WipeTables \/ WipeBlobs \/ WipeDirs \/ RotateCheck \/ Rebind
  PROVE  QInv'
<1>1. UNCHANGED <<world, client, asked, reqs, reserved, lock, slip>>
  BY DEF DeleteRow, DeleteBlob, WipeList, WipeTables, WipeBlobs, WipeDirs, RotateCheck, Rebind, Frame, books
<1>2. rows' \subseteq rows /\ sessions' \subseteq sessions
  BY DEF DeleteRow, DeleteBlob, WipeList, WipeTables, WipeBlobs, WipeDirs, RotateCheck, Rebind, tables
<1> QED BY <1>1, <1>2, LessQuota

\* Rows that move take the bytes of their files along, and those that are reserved too
\* were in the quota as reserved.
LEMMA MoveQuota == ASSUME IInv, QInv, RotateMove PROVE QInv'
<1> DEFINE row(r)  == IF r.id \in other.ids THEN [r EXCEPT !.vault = "new"] ELSE r
           sess(s) == [s EXCEPT !.vault = "new"]
<1>1. /\ other.pc = "move" /\ lock = None
      /\ UNCHANGED <<world, client, asked, reqs, reserved, lock, slip>>
      /\ rows' = {row(r) : r \in rows} /\ sessions' = {sess(s) : s \in sessions}
  BY DEF RotateMove, Frame, books
<1>2. /\ \A r \in rows : r.vault = "old" /\ IsRow(r)
      /\ \A s \in sessions : s.vault = "old" /\ IsSession(s)
  BY <1>1 DEF IInv, Tables
<1>3. \A r \in rows : /\ row(r).id = r.id /\ row(r).up = r.up
                      /\ row(r).vault \in {"old", "new"}
  BY <1>2 DEF IsRow
<1>4. \A s \in sessions : "up" \in DOMAIN s /\ s.up = s.id[1] /\ (\A x \in sessions : x.id = s.id => x = s)
  BY DEF QInv, Named
<1>5. \A s \in sessions : /\ sess(s).id = s.id /\ sess(s).up = s.up /\ sess(s).vault = "new"
                          /\ sess(s).old = s.old /\ "up" \in DOMAIN sess(s)
  BY <1>2, <1>4 DEF IsSession
<1>6. Finite'
  <2> DEFINE f == [r \in rows |-> row(r)]
             g == [s \in sessions |-> sess(s)]
  <2>1. (\A r \in rows : f[r] \in rows') /\ \A x \in rows' : \E r \in rows : x = f[r]
    BY <1>1
  <2>2. (\A s \in sessions : g[s] \in sessions') /\ \A x \in sessions' : \E s \in sessions : x = g[s]
    BY <1>1
  <2>3. IsFiniteSet(rows) /\ IsFiniteSet(sessions) /\ IsFiniteSet(DOMAIN reqs)
    BY DEF QInv, Finite
  <2> HIDE DEF f, g
  <2>4. IsFiniteSet(rows') /\ IsFiniteSet(sessions')
    BY <2>1, <2>2, <2>3, ImageFinite
  <2> QED BY <1>1, <2>3, <2>4 DEF Finite
<1> HIDE DEF row, sess
<1>7. /\ Ids(rows)' = Ids(rows) /\ Ids(sessions)' = Ids(sessions)
      /\ Ids(In("old")) = Ids(rows) /\ Ids(In("new")) = {} /\ Open("new") = {}
  <2>1. (\A x \in rows' : \E r \in rows : x.id = r.id) /\ (\A r \in rows : \E x \in rows' : x.id = r.id)
    BY <1>1, <1>3
  <2>2. /\ \A x \in sessions' : \E s \in sessions : x.id = s.id
        /\ \A s \in sessions : \E x \in sessions' : x.id = s.id
    BY <1>1, <1>5
  <2>3. Ids(rows') = Ids(rows)
    BY <2>1 DEF Ids
  <2>4. Ids(sessions') = Ids(sessions)
    BY <2>2 DEF Ids
  <2>5. In("old") = rows /\ In("new") = {}
    BY <1>2 DEF In
  <2>6. {s \in Alive : s.vault = "new"} = {}
    BY <1>2 DEF Alive
  <2>7. Ids({}) = {}
    BY DEF Ids
  <2> QED BY <2>3, <2>4, <2>5, <2>6, <2>7 DEF Ids, Open
<1>8. /\ Ids(In("old"))' \subseteq Ids(In("old")) /\ Ids(In("new"))' \subseteq Ids(In("old"))
  <2>1. \A v : Ids(In(v))' \subseteq Ids(rows)'
    BY DEF Ids, In
  <2> QED BY <1>7, <2>1
<1>9. Open("old")' = {} /\ Open("new")' \subseteq Open("old")
  <2>1. \A s \in sessions' : s.vault = "new"
    BY <1>1, <1>5
  <2>2. Open("old")' = {}
    BY <2>1 DEF Open, Ids, Alive
  <2>3. \A s \in sessions' : \E x \in sessions : s.id = x.id /\ s.old = x.old /\ x.vault = "old"
    BY <1>1, <1>2, <1>5
  <2>4. Open("new")' \subseteq Open("old")
    BY <2>3 DEF Open, Ids, Alive
  <2> QED BY <2>2, <2>4
<1>10. Leaving = {} /\ Leaving' = {} /\ Ending' = Ending /\ Size' = Size
  <2>1. \A x \in Uploads \X Nat : x # None
    BY DEF None
  <2>2. Finishing = {}
    BY <1>1, <2>1, IdsAre DEF QInv, Locked, Locking, Finishing, Is
  <2>3. Finishing' = Finishing /\ Ending' = Ending /\ Size' = Size
    BY <1>1 DEF Finishing, Ending, Is, Size
  <2> QED BY <2>2, <2>3 DEF Leaving
<1>11. world \in Worlds /\ world.quota \in Nat /\ slip \in Nat /\ world' = world /\ slip' = slip /\ reserved' = reserved
  BY <1>1, Given, SizeType
<1> DEFINE a == Ids(In("old")) \ Ending
           e == Ids(In("old")) \cap Ending
           b == Open("old") \cup Leaving
<1>12. /\ IsFiniteSet(a) /\ a \subseteq Uploads \X Nat /\ IsFiniteSet(b) /\ b \subseteq Uploads \X Nat
       /\ IsFiniteSet(e) /\ e \subseteq Uploads \X Nat
  BY SetsAre, FS_Subset
<1>13. Sum(e) <= reserved /\ Sum(e) \in Nat /\ reserved \in Nat
  <2>1. e \subseteq Booked
    BY DEF Ending, Booked, Is
  <2>2. \A q \in e : Size[q] = Limits[q] /\ Size[q] \in Int
    <3>1. \A q \in e : q \in Booked /\ q \in Ids(rows)
      BY <1>7, <2>1
    <3>2. \A q \in e : Size[q] = reqs[q].limit
      BY <3>1 DEF QInv, Reserved
    <3> HIDE DEF e
    <3> QED BY <1>12, <3>1, <3>2, <1>11, ReservedIs, SizeType
  <2> HIDE DEF e
  <2>3. SumFunctionOnSet(Size, e) = SumFunctionOnSet(Limits, e)
    BY <1>12, <2>2, SumSame
  <2>4. \A q \in Booked : Limits[q] \in Nat
    BY ReservedIs
  <2>5. SumFunctionOnSet(Limits, e) <= SumFunctionOnSet(Limits, Booked)
    BY <2>1, <2>4, ReservedIs, SumPart
  <2>6. Sum(e) \in Nat
    BY <1>11, <1>12, SumIs
  <2> QED BY <2>3, <2>5, <2>6, ReservedIs DEF Sum
<1>14. Sum(a) + Sum(b) + reserved <= world.quota + slip
  BY DEF QInv, OldQuota
<1>15. Sum(a) \in Nat /\ Sum(b) \in Nat
  BY <1>11, <1>12, SumIs
<1>16. NewQuota'
  <2>1. PICK z, w : z = Ids(In("new"))' /\ w = Open("new")'
    OBVIOUS
  <2>2. z \subseteq a \cup e /\ w \subseteq b
    BY <1>8, <1>9, <2>1
  <2> HIDE DEF a, b, e
  <2>3. Sum(z) <= Sum(a) + Sum(e) /\ Sum(z) \in Nat
    BY <1>11, <1>12, <2>2, SumBoth
  <2>4. Sum(w) <= Sum(b) /\ Sum(w) \in Nat
    BY <1>11, <1>12, <2>2, SumIs
  <2>5. Sum(z) + Sum(w) <= world.quota + slip'
    BY <1>11, <1>13, <1>14, <1>15, <2>3, <2>4
  <2> QED BY <1>10, <1>11, <2>1, <2>5, Zenon DEF NewQuota, Sum
<1>17. OldQuota'
  <2>1. PICK x, y : x = Ids(In("old"))' \ Ending' /\ y = Open("old")' \cup Leaving'
    OBVIOUS
  <2>2. x \subseteq a /\ y \subseteq b
    BY <1>8, <1>9, <1>10, <2>1
  <2> HIDE DEF a, b, e
  <2>3. Sum(x) <= Sum(a) /\ Sum(x) \in Nat /\ Sum(y) <= Sum(b) /\ Sum(y) \in Nat
    BY <1>11, <1>12, <2>2, SumIs
  <2>4. Sum(x) + Sum(y) + reserved' <= world.quota + slip'
    BY <1>11, <1>13, <1>14, <1>15, <2>3
  <2> QED BY <1>10, <1>11, <2>1, <2>4, Zenon DEF OldQuota, Sum
<1>18. \A r \in rows' : r.up = r.id[1]
  BY <1>1, <1>3 DEF QInv, Named
<1>19. \A s \in sessions' : "up" \in DOMAIN s /\ s.up = s.id[1] /\ (\A x \in sessions' : x.id = s.id => x = s)
  BY <1>1, <1>4, <1>5
<1> QED BY <1>1, <1>6, <1>7, <1>16, <1>17, <1>18, <1>19, OtherQuota
-----------------------------------------------------------------------------
LEMMA InitQuota == Init => QInv
<1> SUFFICES ASSUME Init PROVE QInv
  OBVIOUS
<1>1. /\ world \in Worlds /\ rows = {} /\ sessions = {} /\ DOMAIN reqs = {} /\ reserved = 0 /\ slip = 0
  BY DEF Init
<1>2. world.quota \in Nat
  BY <1>1, SizeType
<1>3. Named
  <2>1. \A u \in Uploads : "req" \in DOMAIN client[u] /\ client[u].sess = None /\ client[u].pc # "wait"
    <3>1. \A u \in Uploads : client[u].pc \in {"failed", "start", "send"}
      BY DEF Init
    <3>2. \A u \in Uploads : "req" \in DOMAIN client[u] /\ client[u].sess = None
      BY DEF Init
    <3> QED BY <3>1, <3>2
  <2> QED BY <1>1, <2>1 DEF Named, Of, Ids
<1>4. Finite
  BY <1>1, FS_EmptySet DEF Finite
<1>5. Finishing = {} /\ Booked = {} /\ Leaving = {} /\ \A v : Ids(In(v)) = {} /\ Open(v) = {}
  BY <1>1 DEF Finishing, Booked, Leaving, Ids, In, Open, Alive
<1>6. Locked /\ Counted
  BY <1>1, <1>5 DEF Locked, Locking, Counted
<1>7. Reserved
  BY <1>1, <1>5, SumEmpty DEF Reserved
<1>8. Sum({}) = 0
  BY SumEmpty DEF Sum
<1>9. OldQuota /\ NewQuota
  <2>1. Ids(In("old")) \ Ending = {} /\ Open("old") \cup Leaving = {}
    BY <1>5
  <2>2. 0 + 0 + 0 <= world.quota + 0 /\ 0 + 0 <= world.quota + 0
    BY <1>2
  <2>3. OldQuota
    BY <1>1, <1>8, <2>1, <2>2, Zenon DEF OldQuota
  <2>4. NewQuota
    BY <1>1, <1>5, <1>8, <2>2, Zenon DEF NewQuota
  <2> QED BY <2>3, <2>4
<1> QED BY <1>1, <1>3, <1>4, <1>6, <1>7, <1>9 DEF QInv

LEMMA StepQuota == IInv /\ QInv /\ [Next]_vars => QInv'
<1> SUFFICES ASSUME IInv, QInv, [Next]_vars PROVE QInv'
  OBVIOUS
<1>1. CASE \E u \in Uploads : ClientStep(u)
  BY <1>1, PostsQuota, NotesQuota DEF ClientStep
<1>2. CASE \E q \in DOMAIN reqs : ServerStep(q)
  BY <1>2, PurgeQuota, CountQuota, ReserveQuota, WriteQuota, CommitQuota, ReleaseQuota, StartQuota,
     PartQuota, CompleteQuota, CommitCompleteQuota, RefreshQuota, RefreshCompleteQuota, AbortQuota DEF ServerStep
<1>3. CASE \E x \in sessions : Expire(x)
  BY <1>3, ExpireQuota
<1>4. CASE \/ (\E r \in rows : DeleteRow(r)) \/ DeleteBlob
           \/ WipeList \/ WipeTables \/ WipeBlobs \/ WipeDirs \/ RotateCheck \/ Rebind
  BY <1>4, TakenQuota
<1>5. CASE RotateMove
  BY <1>5, MoveQuota
<1>6. CASE UNCHANGED vars
  BY <1>6, LessQuota DEF vars
<1> QED BY <1>1, <1>2, <1>3, <1>4, <1>5, <1>6 DEF Next

\* What the ids say of the bytes.
LEMMA QuotaFollows == IInv /\ QInv => QuotaHolds
<1> SUFFICES ASSUME IInv, QInv PROVE QuotaHolds
  OBVIOUS
<1>1. world \in Worlds /\ world.quota \in Nat /\ slip \in Nat /\ reserved \in Nat
  BY Given, SizeType, ReservedIs
<1>2. ASSUME NEW v PROVE Bytes({s \in Alive : s.vault = v}) = Sum(Open(v))
  <2> DEFINE o == {s \in Alive : s.vault = v}
  <2>1. o \subseteq sessions
    BY DEF Alive
  <2>2. IsFiniteSet(o)
    BY <2>1, FS_Subset DEF QInv, Finite
  <2>3. \A s \in sessions : s.up = s.id[1] /\ s.id \in Ids(sessions) /\ \A x \in sessions : x.id = s.id => x = s
    BY DEF QInv, Named, Ids
  <2>4. Ids(sessions) \subseteq Uploads \X Nat
    BY IdsAre
  <2>5. \A r \in o : r.id \in Uploads \X Nat /\ r.up = r.id[1]
    BY <2>1, <2>3, <2>4
  <2>6. \A r \in o : \A x \in o : x.id = r.id => x = r
    BY <2>1, <2>3
  <2>7. Open(v) = Ids(o)
    BY DEF Open
  <2> HIDE DEF o
  <2>8. Bytes(o) = Sum(Open(v))
    BY <1>1, <2>2, <2>5, <2>6, <2>7, BytesAre
  <2> QED BY <2>8 DEF o
<1>3. ASSUME NEW v PROVE Bytes({r \in In(v) : r.id \notin Ending}) = Sum(Ids(In(v)) \ Ending)
  <2> DEFINE o == {r \in In(v) : r.id \notin Ending}
  <2>1. o \subseteq rows
    BY DEF In
  <2>2. IsFiniteSet(o)
    BY <2>1, FS_Subset DEF QInv, Finite
  <2>3. \A r \in rows : r.up = r.id[1] /\ r.id \in Ids(rows) /\ \A x \in rows : x.id = r.id => x = r
    BY DEF IInv, Tables, QInv, Named, Ids
  <2>4. Ids(rows) \subseteq Uploads \X Nat
    BY IdsAre
  <2>5. \A r \in o : r.id \in Uploads \X Nat /\ r.up = r.id[1]
    BY <2>1, <2>3, <2>4
  <2>6. \A r \in o : \A x \in o : x.id = r.id => x = r
    BY <2>1, <2>3
  <2>7. Ids(In(v)) \ Ending = Ids(o)
    BY DEF Ids
  <2> HIDE DEF o
  <2>8. Bytes(o) = Sum(Ids(In(v)) \ Ending)
    BY <1>1, <2>2, <2>5, <2>6, <2>7, BytesAre
  <2> QED BY <2>8 DEF o
<1>4. Bytes({r \in In("old") : r.id \notin Ending}) + Bytes({s \in Alive : s.vault = "old"}) + reserved
        <= world.quota + slip
  <2>1. Sum(Open("old")) <= Sum(Open("old") \cup Leaving) /\ Sum(Open("old")) \in Nat /\ Sum(Open("old") \cup Leaving) \in Nat
    BY <1>1, SetsAre, SumIs
  <2>2. Sum(Ids(In("old")) \ Ending) \in Nat
    BY <1>1, SetsAre, SumIs
  <2>3. Sum(Ids(In("old")) \ Ending) + Sum(Open("old") \cup Leaving) + reserved <= world.quota + slip
    BY DEF QInv, OldQuota
  <2>4. Sum(Ids(In("old")) \ Ending) + Sum(Open("old")) + reserved <= world.quota + slip
    BY <1>1, <2>1, <2>2, <2>3
  <2> QED BY <1>2, <1>3, <2>4, Zenon
<1>5. Bytes({r \in In("new") : r.id \notin Ending}) + Bytes({s \in Alive : s.vault = "new"}) + 0
        <= world.quota + slip
  <2>1. Ids(In("new")) \ Ending \subseteq Ids(In("new"))
    OBVIOUS
  <2>2. /\ Sum(Ids(In("new")) \ Ending) <= Sum(Ids(In("new"))) /\ Sum(Ids(In("new")) \ Ending) \in Nat
        /\ Sum(Ids(In("new"))) \in Nat /\ Sum(Open("new")) \in Nat
    BY <1>1, <2>1, SetsAre, SumIs
  <2>3. Sum(Ids(In("new"))) + Sum(Open("new")) <= world.quota + slip
    BY DEF QInv, NewQuota
  <2>4. Sum(Ids(In("new")) \ Ending) + Sum(Open("new")) + 0 <= world.quota + slip
    BY <1>1, <2>2, <2>3
  <2> QED BY <1>2, <1>3, <2>4, Zenon
<1> QED BY <1>4, <1>5 DEF QuotaHolds

\* Whatever checks, uploads, aborts, deletes, wipes and rotations come between each
\* other's steps, a vault holds, has promised and has reserved no more bytes than its
\* quota, but for the rows that a check could not see: those stored after it had read
\* the bytes stored and released before it read the bytes reserved
\* (_reserve_upload_slot, start_upload, _finalize_upload, complete_upload).
THEOREM QuotaIsKept == Spec => []QuotaHolds
<1>1. Init => IInv /\ QInv
  BY InitInv, InitQuota
<1>2. (IInv /\ QInv) /\ [Next]_vars => (IInv /\ QInv)'
  BY StepInv, StepQuota
<1> QED BY <1>1, <1>2, QuotaFollows, PTL DEF Spec

------------------------------------------------------------------------------
(* An upload lands once.                                                   *)

\* The file of request q was stored, whether it still is or not.
Kept(q) == q \in gone \/ q \in Ids(rows)

\* Requests that store a file, unless they fail: from the first step of one that sends
\* it, and from the end of the session's directory for one in parts.
Ends  == {"file", "complete"}
Lands(q) == \/ reqs[q].kind = "file" /\ reqs[q].pc \in Before
            \/ reqs[q].kind = "complete" /\ reqs[q].pc = "commit"

\* The files that an upload has, or may get from the requests made so far.
Files(u) == {q \in DOMAIN reqs : reqs[q].up = u /\ Lands(q)} \cup Ids({r \in rows : r.up = u})

\* An upload in parts has one session, and what ends it has that one; another has none.
\* A client that takes its upload for done had the answer of a request that stored it.
Shape(u) ==
  LET c == client[u] IN
  /\ "id" \in DOMAIN c
  /\ c.pc = "start" => c.sess = None
  /\ InParts(u) => c.pc # "send" /\ (c.pc \in {"parts", "complete", "look"} => c.sess # None)
  /\ ~InParts(u) => c.sess = None /\ c.pc \in {"send", "wait", "look", "done", "failed"}
  /\ c.pc = "done" => c.id[1] = u /\ Kept(c.id)

Awaited(u) ==
  client[u].pc = "wait" /\ client[u].req \in DOMAIN reqs =>
    reqs[client[u].req].kind = IF ~InParts(u) THEN "file"
                               ELSE IF client[u].sess = None THEN "start" ELSE "complete"

Answers(q) ==
  /\ "res" \in DOMAIN reqs[q]
  /\ reqs[q].kind = "file" => ~InParts(q[1])
  /\ reqs[q].kind = "complete" => /\ InParts(q[1]) /\ reqs[q].sess # None
                                  /\ reqs[q].sess = client[q[1]].sess
  /\ reqs[q].kind \in Ends /\ reqs[q].res = "ok" => Kept(q)

Kinds == /\ unsure \in [Uploads -> Nat]
         /\ \A u \in Uploads : Shape(u) /\ Awaited(u)
         /\ \A q \in DOMAIN reqs : Answers(q)

\* One file is made of a session's directory, which does not come back; and another
\* upload has a file more than attempts that were made in doubt only while it has none.
Once ==
  \A u \in Uploads :
    /\ InParts(u) =>
         /\ \A x, y \in Files(u) : x = y
         /\ Files(u) # {} => client[u].sess # None /\ client[u].sess \notin DOMAIN dirs
    /\ ~InParts(u) =>
         Cardinality(Files(u)) + (IF client[u].pc = "send" THEN 1 ELSE 0) <= 1 + unsure[u]

\* What a rotation leaves in the old vault, or finds under way, is overlapped by it.
Rotating == other.pc \in {"move", "rebind"} \/ binding = "new"
Placed ==
  /\ binding = "old" \/ (binding = "new" /\ other.pc = "done")
  /\ \A r \in rows : r.vault \in {"old", "new"} /\ (r.vault = Home \/ r.up \in overlapped)
  /\ other.pc = "move" => \A r \in rows : r.id \in other.ids \/ r.up \in overlapped
  /\ Rotating => \A q \in DOMAIN reqs : reqs[q].kind \in Ends /\ reqs[q].pc \in Before =>
                                          reqs[q].up \in overlapped

LInv == Kinds /\ Once /\ Placed
-----------------------------------------------------------------------------
(* What a step does to the files of an upload. *)

LEMMA FilesFinite ==
  ASSUME IInv, QInv, NEW u
  PROVE  IsFiniteSet(Files(u)) /\ Cardinality(Files(u)) \in Nat
<1> DEFINE a == {q \in DOMAIN reqs : reqs[q].up = u /\ Lands(q)}
           b == Ids({r \in rows : r.up = u})
<1>1. IsFiniteSet(a)
  BY FS_Subset DEF QInv, Finite
<1>2. IsFiniteSet(b)
  <2>1. b \subseteq Ids(rows)
    BY DEF Ids
  <2> QED BY <2>1, IdsAre, FS_Subset
<1>3. Files(u) = a \cup b
  BY DEF Files
<1> QED BY <1>1, <1>2, <1>3, FS_Union, FS_CardinalityType

\* A client whose upload gets no file goes on as before, or makes another attempt in
\* doubt.
LEMMA OnceShrinks ==
  ASSUME IInv, QInv, LInv, world' = world, unsure' \in [Uploads -> Nat],
         DOMAIN dirs' \subseteq DOMAIN dirs,
         \A u \in Uploads :
           /\ Files(u)' \subseteq Files(u)
           /\ Files(u) # {} => client'[u].sess = client[u].sess
           /\ \/ unsure'[u] = unsure[u] /\ (client'[u].pc = "send" => client[u].pc = "send")
              \/ unsure'[u] = unsure[u] + 1
              \/ Files(u) = {}
  PROVE  Once'
<1>1. SUFFICES ASSUME NEW u \in Uploads
               PROVE  /\ InParts(u) =>
                           /\ \A x, y \in Files(u)' : x = y
                           /\ Files(u)' # {} => client'[u].sess # None /\ client'[u].sess \notin DOMAIN dirs'
                      /\ ~InParts(u) =>
                           Cardinality(Files(u)') + (IF client'[u].pc = "send" THEN 1 ELSE 0) <= 1 + unsure'[u]
  <2>1. \A u \in Uploads : InParts(u)' = InParts(u) /\ Cardinality(Files(u))' = Cardinality(Files(u)')
    BY DEF InParts
  <2> QED BY <1>1, <2>1 DEF Once
<1>2. InParts(u) =>
        /\ \A x, y \in Files(u)' : x = y
        /\ Files(u)' # {} => client'[u].sess # None /\ client'[u].sess \notin DOMAIN dirs'
  BY DEF LInv, Once
<1>3. ASSUME ~InParts(u)
      PROVE  Cardinality(Files(u)') + (IF client'[u].pc = "send" THEN 1 ELSE 0) <= 1 + unsure'[u]
  <2>1. unsure[u] \in Nat /\ unsure'[u] \in Nat
    BY DEF LInv, Kinds
  <2>2. Cardinality(Files(u)) + (IF client[u].pc = "send" THEN 1 ELSE 0) <= 1 + unsure[u]
    BY <1>3 DEF LInv, Once
  <2>3. /\ Cardinality(Files(u)) \in Nat /\ Cardinality(Files(u)') \in Nat
        /\ Cardinality(Files(u)') <= Cardinality(Files(u))
    BY FilesFinite, FS_Subset, FS_CardinalityType
  <2>4. Files(u) = {} => Cardinality(Files(u)') = 0
    BY FS_EmptySet
  <2> QED BY <2>1, <2>2, <2>3, <2>4
<1> QED BY <1>2, <1>3
-----------------------------------------------------------------------------
(* The server's steps. *)

\* A request keeps its answer, or gets one of R.
Results(q, R) ==
  \A x \in DOMAIN reqs' : /\ "res" \in DOMAIN reqs'[x]
                          /\ reqs'[x].res = reqs[x].res \/ (x = q /\ reqs'[x].res \in R)

LEMMA GoToResults ==
  ASSUME Kinds, NEW q \in DOMAIN reqs, NEW p, GoTo(q, p), NEW R PROVE Results(q, R)
<1>1. \A x \in DOMAIN reqs : "res" \in DOMAIN reqs[x]
  BY DEF Kinds, Answers
<1>2. /\ DOMAIN reqs' = DOMAIN reqs
      /\ \A x \in DOMAIN reqs : reqs'[x] = IF x = q THEN [reqs[q] EXCEPT !.pc = p] ELSE reqs[x]
  BY DEF GoTo
<1> QED BY <1>1, <1>2 DEF Results

LEMMA ResultResults ==
  ASSUME Kinds, NEW q \in DOMAIN reqs, NEW p, NEW res,
         To(q, [reqs[q] EXCEPT !.pc = p, !.res = res])
  PROVE  Results(q, {res})
<1>1. \A x \in DOMAIN reqs : "res" \in DOMAIN reqs[x]
  BY DEF Kinds, Answers
<1>2. /\ DOMAIN reqs' = DOMAIN reqs
      /\ \A x \in DOMAIN reqs : reqs'[x] = IF x = q THEN [reqs[q] EXCEPT !.pc = p, !.res = res] ELSE reqs[x]
  BY DEF To
<1> QED BY <1>1, <1>2 DEF Results

LEMMA WithoutResults ==
  ASSUME Kinds, NEW q, reqs' = Without(reqs, q), NEW R PROVE Results(q, R)
<1>1. DOMAIN reqs' \subseteq DOMAIN reqs /\ \A x \in DOMAIN reqs' : reqs'[x] = reqs[x]
  BY DEF Without, Restrict
<1> QED BY <1>1 DEF Results, Kinds, Answers

LEMMA EndResults ==
  ASSUME Kinds, NEW q \in DOMAIN reqs, NEW res, End(q, res) PROVE Results(q, {res})
BY ResultResults, WithoutResults DEF End

LEMMA UnheardResults ==
  ASSUME Kinds, NEW q, reqs' = Unheard(q) \/ reqs' = Without(reqs, q) PROVE Results(q, {})
<1>1. CASE reqs' = [reqs EXCEPT ![q].heard = FALSE]
  <2>1. /\ DOMAIN reqs' = DOMAIN reqs
        /\ \A x \in DOMAIN reqs : reqs'[x] = IF x = q THEN [reqs[x] EXCEPT !.heard = FALSE] ELSE reqs[x]
    BY <1>1
  <2>2. \A x \in DOMAIN reqs : "res" \in DOMAIN reqs[x]
    BY DEF Kinds, Answers
  <2> QED BY <2>1, <2>2 DEF Results
<1> QED BY <1>1, WithoutResults DEF Unheard

\* What no step of a request changes.
aside == <<world, client, asked, binding, other, gone, unsure, overlapped>>

\* A step of request q, to one of S: the row that it may store is its own, and the answer
\* of R that it may get says no more than that.
Serves(q, S, R) ==
  /\ UNCHANGED aside
  /\ Goes(q, S) /\ Results(q, R)
  /\ S \cap Before = {} \/ reqs[q].pc \in Before
  /\ \/ rows' = rows
     \/ rows' = rows \cup {Row(q)} /\ reqs[q].kind \in Ends /\ reqs[q].pc = "commit"
  /\ reqs[q].kind \in Ends /\ "ok" \in R => Kept(q)'

\* The requests and the clients keep to their kinds.
LEMMA ServerKinds ==
  ASSUME IInv, QInv, LInv, NEW q \in DOMAIN reqs, NEW S, NEW R, Serves(q, S, R)
  PROVE  Kinds'
<1>1. /\ world' = world /\ client' = client /\ gone' = gone /\ unsure' = unsure
      /\ DOMAIN reqs' \subseteq DOMAIN reqs
      /\ \A x \in DOMAIN reqs' : reqs'[x].sess = reqs[x].sess /\ reqs'[x].kind = reqs[x].kind
  BY DEF Serves, aside, Goes
<1>2. Ids(rows) \subseteq Ids(rows)' /\ \A x : Kept(x) => Kept(x)'
  BY DEF Serves, aside, Ids, Kept
<1>3. "ok" \in R /\ reqs[q].kind \in Ends => Kept(q)'
  BY DEF Serves
<1>4. ASSUME NEW u \in Uploads PROVE Shape(u)' /\ Awaited(u)'
  BY <1>1, <1>2 DEF LInv, Kinds, Shape, Awaited, InParts
<1>5. ASSUME NEW x \in DOMAIN reqs' PROVE Answers(x)'
  <2>1. Answers(x)
    BY <1>1 DEF LInv, Kinds
  <2>2. "res" \in DOMAIN reqs'[x] /\ (reqs'[x].res = reqs[x].res \/ (x = q /\ reqs'[x].res \in R))
    BY DEF Serves, Results
  <2> QED BY <1>1, <1>2, <1>3, <2>1, <2>2 DEF Answers, InParts
<1> QED BY <1>1, <1>4, <1>5 DEF LInv, Kinds

\* A file stored while a rotation moves the others is one that it overlaps.
LEMMA ServerPlaced ==
  ASSUME IInv, QInv, LInv, NEW q \in DOMAIN reqs, NEW S, NEW R, Serves(q, S, R)
  PROVE  Placed'
<1>1. /\ binding' = binding /\ other' = other /\ overlapped' = overlapped
      /\ DOMAIN reqs' \subseteq DOMAIN reqs
      /\ \A x \in DOMAIN reqs' : /\ reqs'[x].up = reqs[x].up /\ reqs'[x].kind = reqs[x].kind
                                 /\ reqs'[x].pc \in Before => reqs[x].pc \in Before
  BY DEF Serves, aside, Goes
<1>2. Home' = Home /\ Rotating' = Rotating
  BY <1>1 DEF Home, Rotating
<1>3. \/ rows' = rows
      \/ rows' = rows \cup {Row(q)} /\ reqs[q].kind \in Ends /\ reqs[q].pc \in Before
  BY DEF Serves, Before
<1>4. Row(q).up = reqs[q].up /\ Row(q).vault = "old"
  BY DEF Row
<1>5. ~Rotating => Home = "old"
  BY DEF LInv, Placed, Rotating, Home
<1>6. \A r \in rows' : r.vault \in {"old", "new"} /\ (r.vault = Home \/ r.up \in overlapped)
  BY <1>3, <1>4, <1>5 DEF LInv, Placed
<1>7. other.pc = "move" => \A r \in rows' : r.id \in other.ids \/ r.up \in overlapped
  <2>1. other.pc = "move" => Rotating
    BY DEF Rotating
  <2> QED BY <1>3, <1>4, <2>1 DEF LInv, Placed
<1>8. Rotating => \A x \in DOMAIN reqs' : reqs'[x].kind \in Ends /\ reqs'[x].pc \in Before =>
                                            reqs'[x].up \in overlapped
  BY <1>1 DEF LInv, Placed
<1> QED BY <1>1, <1>2, <1>6, <1>7, <1>8 DEF LInv, Placed

\* No upload gets a file that it did not have or was not about to get.
LEMMA ServerOnce ==
  ASSUME IInv, QInv, LInv, NEW q \in DOMAIN reqs, NEW S, NEW R, Serves(q, S, R),
         DOMAIN dirs' \subseteq DOMAIN dirs,
         reqs[q].kind # "complete" \/ "commit" \notin S
  PROVE  Once'
<1>1. world' = world /\ client' = client /\ unsure' = unsure
  BY DEF Serves, aside
<1>2. DOMAIN reqs' \subseteq DOMAIN reqs /\ \A x \in DOMAIN reqs' :
        /\ reqs'[x].up = reqs[x].up /\ reqs'[x].kind = reqs[x].kind
        /\ reqs'[x].pc \in Before => reqs[x].pc \in Before
        /\ reqs'[x].kind = "complete" /\ reqs'[x].pc = "commit" => reqs[x].pc = "commit"
  BY DEF Serves, aside, Goes
<1>3. \A x \in DOMAIN reqs' : Lands(x)' => Lands(x)
  BY <1>2 DEF Lands
<1>4. ASSUME NEW u PROVE Files(u)' \subseteq Files(u)
  <2>1. CASE rows' = rows
    BY <1>2, <1>3, <2>1 DEF Files
  <2>2. CASE rows' = rows \cup {Row(q)} /\ reqs[q].kind \in Ends /\ reqs[q].pc = "commit"
    <3>1. Lands(q)
      BY <2>2 DEF Lands, Ends, Before
    <3>2. Row(q).up = u => Row(q).id \in Files(u)
      BY <3>1 DEF Files, Row
    <3> HIDE DEF Row
    <3> QED BY <1>2, <1>3, <2>2, <3>2 DEF Files, Ids
  <2> QED BY <2>1, <2>2 DEF Serves
<1>5. unsure \in [Uploads -> Nat]
  BY DEF LInv, Kinds
<1> QED BY <1>1, <1>4, <1>5, OnceShrinks

LEMMA ServerLands ==
  ASSUME IInv, QInv, LInv, NEW q \in DOMAIN reqs, NEW S, NEW R, Serves(q, S, R),
         DOMAIN dirs' \subseteq DOMAIN dirs,
         reqs[q].kind # "complete" \/ "commit" \notin S
  PROVE  LInv'
BY ServerKinds, ServerOnce, ServerPlaced DEF LInv

\* The three ways for a request to go on.
LEMMA GoToServes ==
  ASSUME IInv, QInv, LInv, NEW q \in DOMAIN reqs, NEW p, GoTo(q, p),
         UNCHANGED aside, p \notin Before \/ reqs[q].pc \in Before,
         \/ rows' = rows
         \/ /\ rows' = rows \cup {Row(q)} /\ reqs[q].kind \in Ends /\ reqs[q].pc = "commit"
            /\ p \notin Before
  PROVE  Serves(q, {p}, {})
<1>1. Goes(q, {p})
  BY GoToGoes, Given DEF aside
<1>2. Results(q, {})
  BY GoToResults DEF LInv
<1> QED BY <1>1, <1>2 DEF Serves

LEMMA ResultServes ==
  ASSUME IInv, QInv, LInv, NEW q \in DOMAIN reqs, NEW p, NEW res,
         To(q, [reqs[q] EXCEPT !.pc = p, !.res = res]) \/ (p = "answered" /\ End(q, res)),
         UNCHANGED aside, p \notin Before,
         \/ rows' = rows
         \/ rows' = rows \cup {Row(q)} /\ reqs[q].kind \in Ends /\ reqs[q].pc = "commit",
         reqs[q].kind \in Ends /\ res = "ok" => Row(q) \in rows' \/ Kept(q)
  PROVE  Serves(q, {p}, {res})
<1>1. Goes(q, {p})
  BY ResultGoes, EndGoes, Given DEF aside
<1>2. Results(q, {res})
  BY ResultResults, EndResults DEF LInv
<1>3. Row(q) \in rows' \/ Kept(q) => Kept(q)'
  BY DEF Kept, Ids, Row, aside
<1> QED BY <1>1, <1>2, <1>3 DEF Serves

\* Uploads in one request.
LEMMA FileLands ==
  ASSUME IInv, QInv, LInv, NEW q \in DOMAIN reqs,
         Count(q) \/ Reserve(q) \/ Write(q) \/ Commit(q) \/ Refresh(q) \/ Release(q)
  PROVE  LInv'
<1>1. UNCHANGED aside /\ DOMAIN dirs' \subseteq DOMAIN dirs
  BY DEF Count, Reserve, Write, Commit, Refresh, Release, aside, rest, disk, history
<1>2. IsRequest(reqs[q]) /\ IsBooking(reqs[q])
  BY Given DEF Named
<1>3. CASE \E r : /\ reqs' = [reqs EXCEPT ![q] = r] /\ IsRequest(r) /\ IsBooking(r) /\ "res" \in DOMAIN r
                  /\ r.sess = reqs[q].sess /\ r.kind = reqs[q].kind /\ r.up = reqs[q].up /\ r.res = reqs[q].res
                  /\ r.pc \in {"counted", "write"} /\ reqs[q].pc \in Before /\ rows' = rows
  <2>1. PICK r : /\ reqs' = [reqs EXCEPT ![q] = r] /\ IsRequest(r) /\ IsBooking(r) /\ "res" \in DOMAIN r
                 /\ r.sess = reqs[q].sess /\ r.kind = reqs[q].kind /\ r.up = reqs[q].up /\ r.res = reqs[q].res
                 /\ r.pc \in {"counted", "write"} /\ reqs[q].pc \in Before /\ rows' = rows
    BY <1>3
  <2>2. Goes(q, {r.pc})
    BY <1>1, <2>1, ToGoes, Given DEF aside
  <2>3. Results(q, {})
    BY <2>1 DEF Results, LInv, Kinds, Answers
  <2>4. Serves(q, {r.pc}, {})
    BY <1>1, <2>1, <2>2, <2>3 DEF Serves
  <2> QED BY <1>1, <2>1, <2>4, ServerLands
<1>4. CASE Count(q)
  <2> DEFINE r == [reqs[q] EXCEPT !.pc = "counted", !.seen = Ids(In("old")), !.usage = Bytes(In("old"))]
  <2>1. "res" \in DOMAIN reqs[q]
    BY DEF LInv, Kinds, Answers
  <2>2. /\ IsRequest(r) /\ IsBooking(r) /\ "res" \in DOMAIN r /\ r.pc = "counted"
        /\ r.sess = reqs[q].sess /\ r.kind = reqs[q].kind /\ r.up = reqs[q].up /\ r.res = reqs[q].res
    BY <1>2, <2>1 DEF IsRequest, IsBooking
  <2>3. reqs' = [reqs EXCEPT ![q] = r] /\ reqs[q].pc \in Before /\ rows' = rows
    BY <1>4 DEF Count, To, Is, Before, tables
  <2> HIDE DEF r
  <2> QED BY <1>3, <2>2, <2>3
<1>5. CASE Reserve(q)
  <2>1. reqs[q].pc \in Before /\ rows' = rows
    BY <1>5 DEF Reserve, Is, Before, tables
  <2>2. CASE End(q, "refused")
    <3>1. Serves(q, {"answered"}, {"refused"})
      BY <1>1, <2>1, <2>2, ResultServes DEF Before
    <3> QED BY <1>1, <3>1, ServerLands
  <2>3. CASE \E limit : To(q, [reqs[q] EXCEPT !.pc = "write", !.limit = limit])
    <3>1. PICK limit : To(q, [reqs[q] EXCEPT !.pc = "write", !.limit = limit])
      BY <2>3
    <3> DEFINE r == [reqs[q] EXCEPT !.pc = "write", !.limit = limit]
    <3>2. "res" \in DOMAIN reqs[q]
      BY DEF LInv, Kinds, Answers
    <3>3. /\ IsRequest(r) /\ IsBooking(r) /\ "res" \in DOMAIN r /\ r.pc = "write"
          /\ r.sess = reqs[q].sess /\ r.kind = reqs[q].kind /\ r.up = reqs[q].up /\ r.res = reqs[q].res
      BY <1>2, <3>2 DEF IsRequest, IsBooking
    <3>4. reqs' = [reqs EXCEPT ![q] = r]
      BY <3>1 DEF To
    <3> HIDE DEF r
    <3> QED BY <1>3, <2>1, <3>3, <3>4
  <2> QED BY <1>5, <2>2, <2>3 DEF Reserve
<1>6. CASE Write(q)
  <2>1. rows' = rows /\ reqs[q].pc \in Before /\ reqs[q].kind = "file"
    BY <1>6 DEF Write, Is, Before, tables
  <2>2. CASE GoTo(q, "commit")
    <3>1. Serves(q, {"commit"}, {})
      BY <1>1, <2>1, <2>2, GoToServes
    <3> QED BY <1>1, <2>1, <3>1, ServerLands
  <2>3. CASE \E res \in {"refused", "broken"} : To(q, [reqs[q] EXCEPT !.pc = "release", !.res = res])
    <3>1. PICK res \in {"refused", "broken"} : To(q, [reqs[q] EXCEPT !.pc = "release", !.res = res])
      BY <2>3
    <3>2. Serves(q, {"release"}, {res})
      BY <1>1, <2>1, <3>1, ResultServes DEF Before
    <3> QED BY <1>1, <3>2, ServerLands
  <2> QED BY <1>6, <2>2, <2>3 DEF Write
<1>7. CASE Commit(q)
  <2>1. reqs[q].kind \in Ends /\ reqs[q].pc = "commit"
    BY <1>7 DEF Commit, Is, Ends
  <2>2. CASE rows' = rows \cup {Row(q)} /\ GoTo(q, "refresh")
    <3>1. Serves(q, {"refresh"}, {})
      BY <1>1, <2>1, <2>2, GoToServes DEF Before
    <3> QED BY <1>1, <3>1, ServerLands
  <2>3. CASE rows' = rows /\ To(q, [reqs[q] EXCEPT !.pc = "release", !.res = "refused"])
    <3>1. Serves(q, {"release"}, {"refused"})
      BY <1>1, <2>1, <2>3, ResultServes DEF Before
    <3> QED BY <1>1, <3>1, ServerLands
  <2> QED BY <1>7, <2>2, <2>3 DEF Commit
<1>8. CASE Refresh(q)
  <2>1. PICK res \in {"ok", "refused"} :
          /\ To(q, [reqs[q] EXCEPT !.pc = "release", !.res = res])
          /\ rows' = rows /\ (res = "ok" => q \in Ids(rows))
    BY <1>8 DEF Refresh, ReadBack, tables
  <2>2. Serves(q, {"release"}, {res})
    BY <1>1, <2>1, ResultServes DEF Before, Kept
  <2> QED BY <1>1, <2>2, ServerLands
<1>9. CASE Release(q)
  <2>1. End(q, reqs[q].res) /\ rows' = rows
    BY <1>9 DEF Release, tables
  <2>2. reqs[q].kind \in Ends /\ reqs[q].res = "ok" => Kept(q)
    BY DEF LInv, Kinds, Answers
  <2>3. Serves(q, {"answered"}, {reqs[q].res})
    BY <1>1, <2>1, <2>2, ResultServes DEF Before
  <2> QED BY <1>1, <2>3, ServerLands
<1> QED BY <1>4, <1>5, <1>6, <1>7, <1>8, <1>9

\* Steps of uploads in parts that make no directory and no blob.
LEMMA PartLands ==
  ASSUME IInv, QInv, LInv, NEW q \in DOMAIN reqs,
         \/ Purge(q) \/ BeginPart(q) \/ EndPart(q) \/ AbortRow(q) \/ AbortDir(q)
  PROVE  LInv'
<1>1. UNCHANGED <<aside, rows>> /\ reqs[q].kind \notin Ends
  BY DEF Purge, BeginPart, EndPart, AbortRow, AbortDir, Is, Ends, aside, rest, disk, tables, history
<1>2. DOMAIN dirs' \subseteq DOMAIN dirs
  BY DEF Purge, BeginPart, EndPart, AbortRow, AbortDir, Without, Restrict, disk
<1>3. CASE \E p : GoTo(q, p) /\ (p \notin Before \/ reqs[q].pc \in Before)
  <2>1. PICK p : GoTo(q, p) /\ (p \notin Before \/ reqs[q].pc \in Before)
    BY <1>3
  <2>2. Serves(q, {p}, {})
    BY <1>1, <2>1, GoToServes
  <2> QED BY <1>1, <1>2, <2>2, ServerLands DEF Ends
<1>4. CASE \E res : End(q, res)
  <2>1. PICK res : End(q, res)
    BY <1>4
  <2>2. Serves(q, {"answered"}, {res})
    BY <1>1, <2>1, ResultServes DEF Before
  <2> QED BY <1>1, <1>2, <2>2, ServerLands
<1>5. CASE Purge(q)
  BY <1>3, <1>5 DEF Purge, Is, Before
<1>6. CASE BeginPart(q)
  BY <1>3, <1>4, <1>6 DEF BeginPart, Is, Before
<1>7. CASE EndPart(q)
  BY <1>4, <1>7 DEF EndPart
<1>8. CASE AbortRow(q)
  BY <1>3, <1>4, <1>8 DEF AbortRow, Before
<1>9. CASE AbortDir(q)
  BY <1>4, <1>9 DEF AbortDir
<1> QED BY <1>5, <1>6, <1>7, <1>8, <1>9

LEMMA CommitCompleteLands ==
  ASSUME IInv, QInv, LInv, NEW q \in DOMAIN reqs, CommitComplete(q) PROVE LInv'
<1>1. UNCHANGED aside /\ dirs' = dirs
  BY DEF CommitComplete, aside, rest, history
<1>2. reqs[q].kind \in Ends /\ reqs[q].pc = "commit"
  BY DEF CommitComplete, Is, Ends
<1>3. CASE rows' = rows \cup {Row(q)} /\ GoTo(q, "refresh")
  <2>1. Serves(q, {"refresh"}, {})
    BY <1>1, <1>2, <1>3, GoToServes DEF Before
  <2> QED BY <1>1, <2>1, ServerLands
<1>4. CASE rows' = rows /\ End(q, "refused")
  <2>1. Serves(q, {"answered"}, {"refused"})
    BY <1>1, <1>2, <1>4, ResultServes DEF Before
  <2> QED BY <1>1, <2>1, ServerLands
<1> QED BY <1>3, <1>4 DEF CommitComplete

LEMMA RefreshCompleteLands ==
  ASSUME IInv, QInv, LInv, NEW q \in DOMAIN reqs, RefreshComplete(q) PROVE LInv'
<1>1. UNCHANGED aside /\ dirs' = dirs
  BY DEF RefreshComplete, aside, rest
<1>2. PICK res \in {"ok", "refused"} :
        End(q, res) /\ rows' = rows /\ (res = "ok" => q \in Ids(rows))
  BY DEF RefreshComplete, ReadBack, tables
<1>3. Serves(q, {"answered"}, {res})
  BY <1>1, <1>2, ResultServes DEF Before, Kept
<1> QED BY <1>1, <1>3, ServerLands

\* A new session's directory is nobody's yet.
LEMMA StartLands ==
  ASSUME IInv, QInv, LInv, NEW q \in DOMAIN reqs, Start(q) PROVE LInv'
<1>1. UNCHANGED <<aside, rows>> /\ reqs[q].kind = "start"
  BY DEF Start, Is, aside, rest, history
<1>2. PICK res : End(q, res)
  BY DEF Start
<1>3. Serves(q, {"answered"}, {res})
  BY <1>1, <1>2, ResultServes DEF Before, Ends
<1>4. DOMAIN dirs' \subseteq DOMAIN dirs \cup {q}
  BY DEF Start, With
<1>5. \A u \in Uploads : client[u].sess # q
  BY IdsAre DEF IInv, Clients, Over, None
<1>6. Once'
  <2>1. world' = world /\ client' = client /\ unsure' = unsure
    BY <1>1 DEF aside
  <2>2. DOMAIN reqs' \subseteq DOMAIN reqs /\ \A x \in DOMAIN reqs' :
          /\ reqs'[x].up = reqs[x].up /\ reqs'[x].kind = reqs[x].kind
          /\ reqs'[x].pc \in Before => reqs[x].pc \in Before
          /\ reqs'[x].pc = "commit" => reqs[x].pc = "commit"
    BY <1>3 DEF Serves, Goes, Before
  <2>3. \A x \in DOMAIN reqs' : Lands(x)' => Lands(x)
    BY <2>2 DEF Lands
  <2>4. \A u : Files(u)' \subseteq Files(u)
    BY <1>1, <2>2, <2>3 DEF Files
  <2>5. ASSUME NEW u \in Uploads
        PROVE  /\ InParts(u)' = InParts(u)
               /\ InParts(u) =>
                    /\ \A x, y \in Files(u)' : x = y
                    /\ Files(u)' # {} => client'[u].sess # None /\ client'[u].sess \notin DOMAIN dirs'
               /\ ~InParts(u) =>
                    Cardinality(Files(u)') + (IF client'[u].pc = "send" THEN 1 ELSE 0) <= 1 + unsure'[u]
    <3>1. Cardinality(Files(u)') <= Cardinality(Files(u)) /\ Cardinality(Files(u)') \in Nat /\ Cardinality(Files(u)) \in Nat
      BY <2>4, FilesFinite, FS_Subset, FS_CardinalityType
    <3>2. unsure[u] \in Nat
      BY DEF LInv, Kinds
    <3> QED BY <1>4, <1>5, <2>1, <2>4, <3>1, <3>2 DEF LInv, Once, InParts
  <2> QED BY <2>5 DEF Once
<1> QED BY <1>3, <1>6, ServerKinds, ServerPlaced DEF LInv

\* The session's directory becomes the file of the request that ends it, the first.
LEMMA CompleteLands ==
  ASSUME IInv, QInv, LInv, NEW q \in DOMAIN reqs, Complete(q) PROVE LInv'
<1>1. UNCHANGED <<aside, rows>> /\ reqs[q].kind = "complete" /\ reqs[q].pc = "arrive"
  BY DEF Complete, Is, aside, rest, tables, history
<1>2. CASE End(q, "refused") /\ dirs' = dirs
  <2>1. Serves(q, {"answered"}, {"refused"})
    BY <1>1, <1>2, ResultServes DEF Before
  <2> QED BY <1>2, <2>1, ServerLands
<1>3. CASE GoTo(q, "commit") /\ reqs[q].sess \in DOMAIN dirs /\ dirs' = Without(dirs, reqs[q].sess)
  <2>1. Serves(q, {"commit"}, {})
    BY <1>1, <1>3, GoToServes DEF Before
  <2>2. DOMAIN dirs' = DOMAIN dirs \ {reqs[q].sess}
    BY <1>3 DEF Without, Restrict
  <2> DEFINE v == reqs[q].up
  <2>3. v = q[1] /\ v \in Uploads
    BY IdsAre DEF QInv, Named
  <2>4. InParts(v) /\ reqs[q].sess # None /\ reqs[q].sess = client[v].sess
    BY <1>1, <2>3 DEF LInv, Kinds, Answers
  <2>5. Files(v) = {}
    BY <1>3, <2>3, <2>4 DEF LInv, Once
  <2>6. world' = world /\ client' = client /\ unsure' = unsure
    BY <1>1 DEF aside
  <2>7. DOMAIN reqs' \subseteq DOMAIN reqs /\ \A x \in DOMAIN reqs' :
          /\ reqs'[x].up = reqs[x].up /\ reqs'[x].kind = reqs[x].kind
          /\ x # q => reqs'[x].pc = reqs[x].pc
    BY <2>1 DEF Serves, Goes
  <2>8. \A x \in DOMAIN reqs' : Lands(x)' => Lands(x) \/ x = q
    BY <2>7 DEF Lands
  <2>9. \A u : Files(u)' \subseteq Files(u) \cup (IF u = v THEN {q} ELSE {})
    BY <1>1, <2>7, <2>8 DEF Files
  <2> HIDE DEF v
  <2>10. ASSUME NEW u \in Uploads
         PROVE  /\ InParts(u)' = InParts(u)
                /\ InParts(u) =>
                     /\ \A x, y \in Files(u)' : x = y
                     /\ Files(u)' # {} => client'[u].sess # None /\ client'[u].sess \notin DOMAIN dirs'
                /\ ~InParts(u) =>
                     Cardinality(Files(u)') + (IF client'[u].pc = "send" THEN 1 ELSE 0) <= 1 + unsure'[u]
    <3>1. InParts(u)' = InParts(u)
      BY <2>6 DEF InParts
    <3>2. CASE u = v
      BY <2>2, <2>4, <2>5, <2>6, <2>9, <3>1, <3>2
    <3>3. CASE u # v
      <4>1. Files(u)' \subseteq Files(u)
        BY <2>9, <3>3
      <4>2. Cardinality(Files(u)') <= Cardinality(Files(u)) /\ Cardinality(Files(u)') \in Nat /\ Cardinality(Files(u)) \in Nat
        BY <4>1, FilesFinite, FS_Subset, FS_CardinalityType
      <4>3. unsure[u] \in Nat
        BY DEF LInv, Kinds
      <4> QED BY <2>2, <2>6, <3>1, <4>1, <4>2, <4>3 DEF LInv, Once
    <3> QED BY <3>2, <3>3
  <2>11. Once'
    BY <2>10 DEF Once
  <2> QED BY <2>1, <2>11, ServerKinds, ServerPlaced DEF LInv
<1> QED BY <1>2, <1>3 DEF Complete, disk
-----------------------------------------------------------------------------
(* The client's steps. *)

\* What no step of a client changes.
beside == <<world, rows, blobs, sessions, dirs, gone, binding, other>>

\* A new request of any kind, as far as the answers and the rotation are concerned.
LEMMA PostLands ==
  ASSUME IInv, QInv, LInv, NEW u \in Uploads, NEW kind, Post(u, kind, 0) \/ (\E i : Post(u, kind, i)),
         UNCHANGED <<beside, unsure>>, overlapped \subseteq overlapped',
         other.pc \in {"move", "rebind"} /\ kind \in Ends => u \in overlapped',
         kind = "file" => ~InParts(u),
         kind = "complete" => InParts(u) /\ client[u].sess # None,
         \A v \in Uploads : Shape(v)' /\ Awaited(v)' /\ client'[v].sess = client[v].sess
  PROVE  Kinds' /\ Placed'
<1>0. PICK n : n = NextId(u)
  OBVIOUS
<1>1. PICK part : Post(u, kind, part)
  OBVIOUS
<1>2. /\ DOMAIN reqs' = DOMAIN reqs \cup {n} /\ n \notin DOMAIN reqs
      /\ \A q \in DOMAIN reqs : reqs'[q] = reqs[q]
      /\ n[1] = u
  BY <1>0, <1>1, PostProps DEF IInv, Requests, NextId
<1>3. reqs'[n] = Request(u, kind, part)
  BY <1>0, <1>1, <1>2 DEF Post, With
<1>4. /\ reqs'[n].kind = kind /\ reqs'[n].up = u /\ reqs'[n].sess = client[u].sess
      /\ "res" \in DOMAIN reqs'[n] /\ reqs'[n].res # "ok"
      /\ binding = "new" /\ kind \in Ends => reqs'[n].pc = "answered"
  BY <1>3 DEF Request, Ends
<1>5. /\ world' = world /\ rows' = rows /\ gone' = gone /\ unsure' = unsure
      /\ binding' = binding /\ other' = other
  BY DEF beside
<1>6. Kinds'
  <2>1. \A x : Kept(x)' = Kept(x)
    BY <1>5 DEF Kept, Ids
  <2>2. ASSUME NEW q \in DOMAIN reqs PROVE Answers(q)'
    <3>1. Answers(q) /\ q[1] \in Uploads /\ reqs'[q] = reqs[q]
      BY <1>2, IdsAre DEF LInv, Kinds
    <3> QED BY <1>5, <2>1, <3>1 DEF Answers, InParts
  <2>3. Answers(n)'
    <3>1. client'[u].sess = client[u].sess
      OBVIOUS
    <3> QED BY <1>2, <1>4, <1>5, <3>1 DEF Answers, InParts
  <2>4. \A q \in DOMAIN reqs' : Answers(q)'
    BY <1>2, <2>2, <2>3
  <2>5. unsure' \in [Uploads -> Nat]
    BY <1>5 DEF LInv, Kinds
  <2> QED BY <2>4, <2>5 DEF Kinds
<1>7. Placed'
  <2>1. Home' = Home /\ Rotating' = Rotating
    BY <1>5 DEF Home, Rotating
  <2>2. Rotating => \A q \in DOMAIN reqs' : reqs'[q].kind \in Ends /\ reqs'[q].pc \in Before =>
                                              reqs'[q].up \in overlapped'
    <3>1. Rotating /\ kind \in Ends /\ reqs'[n].pc \in Before => u \in overlapped'
      BY <1>4 DEF Rotating, Before
    <3> QED BY <1>2, <1>4, <3>1 DEF LInv, Placed
  <2> QED BY <1>5, <2>1, <2>2 DEF LInv, Placed
<1> QED BY <1>6, <1>7

\* A client that goes on without waiting for a new request.
LEMMA OthersShape ==
  ASSUME IInv, QInv, LInv, NEW u \in Uploads, NEW d, client' = [client EXCEPT ![u] = d],
         UNCHANGED <<world, rows, gone>>, NEW v \in Uploads, v # u
  PROVE  Shape(v)' /\ client'[v] = client[v]
<1>1. client'[v] = client[v]
  BY DEF IInv, Clients
<1>2. \A x : Kept(x)' = Kept(x)
  BY DEF Kept, Ids
<1> QED BY <1>1, <1>2 DEF LInv, Kinds, Shape, InParts

LEMMA SendLands ==
  ASSUME IInv, QInv, LInv, NEW u \in Uploads, Send(u) PROVE LInv'
<1>0. PICK n : n = NextId(u)
  OBVIOUS
<1> DEFINE c == client[u]
           d == [c EXCEPT !.pc = "wait", !.req = n]
<1>1. PICK kind : /\ Post(u, kind, 0)
                  /\ kind = IF c.pc = "send" THEN "file" ELSE c.pc
  BY DEF Send
<1>2. /\ c.pc \in {"send", "start", "complete"} /\ client' = [client EXCEPT ![u] = d]
      /\ UNCHANGED <<beside, unsure>>
      /\ overlapped \subseteq overlapped' /\ (other.pc \in {"move", "rebind"} => u \in overlapped')
  BY <1>0 DEF Send, Let, beside, rest, disk, tables
<1>3. /\ DOMAIN reqs' = DOMAIN reqs \cup {n} /\ n \notin DOMAIN reqs
      /\ \A q \in DOMAIN reqs : reqs'[q] = reqs[q]
      /\ n[1] = u
  BY <1>0, <1>1, PostProps DEF IInv, Requests, NextId
<1>4. /\ reqs'[n].kind = kind /\ reqs'[n].up = u
      /\ kind \in Ends => reqs'[n].pc \in {"arrive", "answered"}
  <2>1. reqs'[n] = Request(u, kind, 0)
    BY <1>0, <1>1, <1>3 DEF Post, With
  <2> QED BY <2>1 DEF Request
<1>5. Shape(u) /\ IsClient(c) /\ "req" \in DOMAIN c
  BY DEF LInv, Kinds, IInv, Clients, QInv, Named
<1>6. /\ client'[u] = d /\ d.pc = "wait" /\ d.req = n /\ d.sess = c.sess /\ "id" \in DOMAIN d
  BY <1>2, <1>5 DEF IsClient, Shape, IInv, Clients
<1>7. /\ kind = "file" => ~InParts(u)
      /\ ~InParts(u) => kind = "file"
      /\ InParts(u) => kind = IF c.sess = None THEN "start" ELSE "complete"
  BY <1>1, <1>2, <1>5 DEF Shape
<1> HIDE DEF d
<1>8. world' = world /\ rows' = rows /\ gone' = gone /\ unsure' = unsure /\ dirs' = dirs
  BY <1>2 DEF beside
<1>9. ASSUME NEW v \in Uploads
      PROVE  Shape(v)' /\ Awaited(v)' /\ client'[v].sess = client[v].sess
  <2>1. CASE v = u
    BY <1>3, <1>4, <1>5, <1>6, <1>7, <1>8, <2>1 DEF Shape, Awaited, InParts
  <2>2. CASE v # u
    <3>1. Shape(v)' /\ client'[v] = client[v]
      BY <1>2, <1>8, <2>2, OthersShape
    <3>2. client[v].pc = "wait" => client[v].req # n
      BY <1>3, <2>2 DEF QInv, Named
    <3> QED BY <1>3, <1>8, <3>1, <3>2 DEF LInv, Kinds, Awaited, InParts
  <2> QED BY <2>1, <2>2
<1>10. Kinds' /\ Placed'
  BY <1>1, <1>2, <1>7, <1>9, PostLands
<1>11. Once'
  <2>1. \A x \in DOMAIN reqs : Lands(x)' = Lands(x)
    BY <1>3 DEF Lands
  <2>2. kind # "file" => ~Lands(n)'
    BY <1>1, <1>2, <1>4 DEF Lands, Ends
  <2>3. \A v : Files(v)' \subseteq Files(v) \cup (IF v = u /\ kind = "file" THEN {n} ELSE {})
    BY <1>3, <1>4, <1>8, <2>1, <2>2 DEF Files
  <2>4. ASSUME NEW v \in Uploads
        PROVE  /\ InParts(v)' = InParts(v)
               /\ InParts(v) =>
                    /\ \A x, y \in Files(v)' : x = y
                    /\ Files(v)' # {} => client'[v].sess # None /\ client'[v].sess \notin DOMAIN dirs'
               /\ ~InParts(v) =>
                    Cardinality(Files(v)') + (IF client'[v].pc = "send" THEN 1 ELSE 0) <= 1 + unsure'[v]
    <3>0. /\ InParts(v)' = InParts(v) /\ unsure[v] \in Nat
          /\ IsFiniteSet(Files(v)) /\ Cardinality(Files(v)) \in Nat
      BY <1>8, FilesFinite DEF InParts, LInv, Kinds
    <3>1. CASE v = u /\ kind = "file"
      <4>1. Files(v)' \subseteq Files(v) \cup {n}
        BY <2>3, <3>1
      <4>2. /\ Cardinality(Files(v)') \in Nat /\ Cardinality(Files(v)') <= Cardinality(Files(v) \cup {n})
            /\ Cardinality(Files(v) \cup {n}) <= Cardinality(Files(v)) + 1
            /\ Cardinality(Files(v) \cup {n}) \in Nat
        <5>1. /\ IsFiniteSet(Files(v) \cup {n})
              /\ Cardinality(Files(v) \cup {n}) = IF n \in Files(v) THEN Cardinality(Files(v)) ELSE Cardinality(Files(v)) + 1
          BY <3>0, FS_AddElement
        <5>2. IsFiniteSet(Files(v)') /\ Cardinality(Files(v)') <= Cardinality(Files(v) \cup {n})
          BY <4>1, <5>1, FS_Subset
        <5> QED BY <3>0, <5>1, <5>2, FS_CardinalityType
      <4>3. ~InParts(v) /\ c.pc = "send"
        BY <1>7, <1>5, <1>1, <1>2, <3>1 DEF Shape
      <4>4. Cardinality(Files(v)) + 1 <= 1 + unsure[v]
        BY <3>1, <4>3 DEF LInv, Once
      <4> QED BY <1>6, <1>8, <3>0, <3>1, <4>2, <4>3, <4>4
    <3>2. CASE ~(v = u /\ kind = "file")
      <4>1. Files(v)' \subseteq Files(v)
        BY <2>3, <3>2
      <4>2. Cardinality(Files(v)') <= Cardinality(Files(v)) /\ Cardinality(Files(v)') \in Nat
        BY <3>0, <4>1, FS_Subset, FS_CardinalityType
      <4>3. client'[v].sess = client[v].sess /\ (client'[v].pc = "send" => client[v].pc = "send")
        BY <1>2, <1>6, <1>9 DEF IInv, Clients
      <4> QED BY <1>8, <3>0, <4>1, <4>2, <4>3 DEF LInv, Once
    <3> QED BY <3>1, <3>2
  <2> QED BY <2>4 DEF Once
<1> QED BY <1>10, <1>11 DEF LInv

\* A request for which no upload waits makes no file.
LEMMA AskLands ==
  ASSUME IInv, QInv, LInv, NEW u \in Uploads, Abort(u) \/ \E i \in Parts : SendPart(u, i)
  PROVE  LInv'
<1>0. PICK n : n = NextId(u)
  OBVIOUS
<1>1. PICK kind, part : Post(u, kind, part) /\ kind \in {"abort", "part"}
  BY DEF Abort, SendPart
<1>2. UNCHANGED <<beside, unsure, overlapped>>
  BY DEF Abort, SendPart, beside, rest, disk, tables, history
<1>3. /\ DOMAIN reqs' = DOMAIN reqs \cup {n} /\ n \notin DOMAIN reqs
      /\ \A q \in DOMAIN reqs : reqs'[q] = reqs[q]
      /\ n[1] = u
  BY <1>0, <1>1, PostProps DEF IInv, Requests, NextId
<1>4. reqs'[n].kind = kind
  <2>1. reqs'[n] = Request(u, kind, part)
    BY <1>0, <1>1, <1>3 DEF Post, With
  <2> QED BY <2>1 DEF Request
<1>5. world' = world /\ rows' = rows /\ gone' = gone /\ unsure' = unsure /\ dirs' = dirs
  BY <1>2 DEF beside
<1>6. PICK d : /\ client' = [client EXCEPT ![u] = d]
               /\ "id" \in DOMAIN d /\ d.sess = client[u].sess
               /\ \/ d.pc = "failed" /\ client[u].pc = "abort"
                  \/ d.pc = client[u].pc /\ d.id = client[u].id /\ d.req = client[u].req
  <2>1. "id" \in DOMAIN client[u] /\ IsClient(client[u])
    BY DEF LInv, Kinds, Shape, IInv, Clients
  <2>2. CASE Abort(u)
    <3> DEFINE d == [client[u] EXCEPT !.pc = "failed"]
    <3>1. client' = [client EXCEPT ![u] = d] /\ client[u].pc = "abort"
      BY <2>2 DEF Abort, Let
    <3>2. "id" \in DOMAIN d /\ d.sess = client[u].sess /\ d.pc = "failed"
      BY <2>1 DEF IsClient
    <3> QED BY <3>1, <3>2
  <2>3. CASE \E i \in Parts : SendPart(u, i)
    <3>1. PICK i, p : client' = [client EXCEPT ![u].part[i] = p]
      BY <2>3 DEF SendPart, PartWith
    <3> DEFINE d == [client[u] EXCEPT !.part[i] = p]
    <3>2. client' = [client EXCEPT ![u] = d]
      BY <3>1
    <3>3. /\ "id" \in DOMAIN d /\ d.sess = client[u].sess
          /\ d.pc = client[u].pc /\ d.id = client[u].id /\ d.req = client[u].req
      BY <2>1
    <3> QED BY <3>2, <3>3
  <2> QED BY <2>2, <2>3
<1>7. client'[u] = d
  BY <1>6 DEF IInv, Clients
<1>8. ASSUME NEW v \in Uploads
      PROVE  /\ Shape(v)' /\ Awaited(v)' /\ client'[v].sess = client[v].sess
             /\ client'[v].pc = "send" => client[v].pc = "send"
  <2>1. client[v].pc = "wait" /\ client[v].req = n => v = u /\ kind \in {"abort", "part"}
    BY <1>1, <1>3 DEF QInv, Named
  <2>2. \A x : Kept(x)' = Kept(x)
    BY <1>5 DEF Kept, Ids
  <2>3. Shape(v) /\ Awaited(v) /\ InParts(v)' = InParts(v)
    BY <1>5 DEF LInv, Kinds, InParts
  <2>4. client[u].pc = "wait" => client[u].req # n
    <3>1. CASE Abort(u)
      BY <3>1 DEF Abort
    <3>2. CASE \E i \in Parts : SendPart(u, i)
      BY <3>2 DEF SendPart
    <3> QED BY <3>1, <3>2
  <2>5. CASE v = u
    BY <1>3, <1>6, <1>7, <2>2, <2>3, <2>4, <2>5 DEF Shape, Awaited
  <2>6. CASE v # u
    <3>1. Shape(v)' /\ client'[v] = client[v]
      BY <1>5, <1>6, <2>6, OthersShape
    <3> QED BY <1>3, <2>1, <2>3, <2>6, <3>1 DEF Awaited
  <2> QED BY <2>5, <2>6
<1>9. Kinds' /\ Placed'
  BY <1>1, <1>2, <1>8, PostLands DEF Ends
<1>10. Once'
  <2>1. \A x \in DOMAIN reqs : Lands(x)' = Lands(x)
    BY <1>3 DEF Lands
  <2>2. ~Lands(n)'
    BY <1>1, <1>4 DEF Lands
  <2>3. \A v : Files(v)' \subseteq Files(v)
    BY <1>3, <1>5, <2>1, <2>2 DEF Files
  <2>4. unsure' \in [Uploads -> Nat]
    BY <1>5 DEF LInv, Kinds
  <2> QED BY <1>5, <1>8, <2>3, <2>4, OnceShrinks
<1> QED BY <1>9, <1>10 DEF LInv

\* A client that takes note of what became of its requests, or of the listing.
LEMMA NoteLands ==
  ASSUME IInv, QInv, LInv, NEW q, Goes(q, {reqs[q].pc}), Results(q, {}),
         UNCHANGED <<beside, overlapped>>, unsure' \in [Uploads -> Nat],
         NEW u \in Uploads, NEW d, client' = [client EXCEPT ![u] = d],
         Shape(u)', Awaited(u)',
         d.sess = client[u].sess \/ (client[u].sess = None /\ InParts(u)),
         \A v \in Uploads \ {u} : unsure'[v] = unsure[v],
         \/ unsure'[u] = unsure[u] /\ (d.pc = "send" => client[u].pc = "send")
         \/ unsure'[u] = unsure[u] + 1
         \/ Files(u) = {}
  PROVE  LInv'
<1>1. /\ world' = world /\ rows' = rows /\ gone' = gone /\ dirs' = dirs
      /\ binding' = binding /\ other' = other /\ overlapped' = overlapped
  BY DEF beside
<1>2. DOMAIN reqs' \subseteq DOMAIN reqs /\ \A x \in DOMAIN reqs' :
        /\ reqs'[x].up = reqs[x].up /\ reqs'[x].kind = reqs[x].kind
        /\ reqs'[x].sess = reqs[x].sess /\ reqs'[x].pc = reqs[x].pc
        /\ "res" \in DOMAIN reqs'[x] /\ reqs'[x].res = reqs[x].res
  BY DEF Goes, Results
<1>3. client'[u] = d
  BY DEF IInv, Clients
<1>4. ASSUME NEW v \in Uploads PROVE Shape(v)' /\ Awaited(v)'
  <2>1. CASE v = u
    BY <2>1
  <2>2. CASE v # u
    <3>1. Shape(v)' /\ client'[v] = client[v]
      BY <1>1, <2>2, OthersShape
    <3>2. Awaited(v)
      BY DEF LInv, Kinds
    <3> QED BY <1>1, <1>2, <3>1, <3>2 DEF Awaited, InParts
  <2> QED BY <2>1, <2>2
<1>5. \A v \in Uploads : \/ client'[v].sess = client[v].sess
                         \/ client[v].sess = None /\ InParts(v)
  BY <1>3 DEF IInv, Clients
<1>6. Kinds'
  <2>1. \A x : Kept(x)' = Kept(x)
    BY <1>1 DEF Kept, Ids
  <2>2. ASSUME NEW x \in DOMAIN reqs' PROVE Answers(x)'
    <3>1. Answers(x) /\ x[1] \in Uploads
      BY <1>2, IdsAre DEF LInv, Kinds
    <3>2. \/ client'[x[1]].sess = client[x[1]].sess
          \/ client[x[1]].sess = None
      BY <1>5, <3>1
    <3> QED BY <1>1, <1>2, <2>1, <3>1, <3>2 DEF Answers, InParts
  <2> QED BY <1>4, <2>2 DEF Kinds
<1>7. Placed'
  <2>1. Home' = Home /\ Rotating' = Rotating
    BY <1>1 DEF Home, Rotating
  <2> QED BY <1>1, <1>2, <2>1 DEF LInv, Placed
<1>8. Once'
  <2>1. \A x \in DOMAIN reqs' : Lands(x)' => Lands(x)
    BY <1>2 DEF Lands
  <2>2. \A v : Files(v)' \subseteq Files(v)
    BY <1>1, <1>2, <2>1 DEF Files
  <2>3. ASSUME NEW v \in Uploads
        PROVE  /\ Files(v) # {} => client'[v].sess = client[v].sess
               /\ \/ unsure'[v] = unsure[v] /\ (client'[v].pc = "send" => client[v].pc = "send")
                  \/ unsure'[v] = unsure[v] + 1
                  \/ Files(v) = {}
    <3>1. Files(v) # {} /\ InParts(v) => client[v].sess # None
      BY DEF LInv, Once
    <3>2. v # u => client'[v] = client[v]
      BY DEF IInv, Clients
    <3> QED BY <1>3, <1>5, <3>1, <3>2
  <2> QED BY <1>1, <2>2, <2>3, OnceShrinks
<1> QED BY <1>6, <1>7, <1>8 DEF LInv

\* What follows an attempt without an answer.
LEMMA AgainShape ==
  ASSUME LInv, NEW u \in Uploads, NEW c, c = client[u], c.pc = "wait", IsClient(c),
         NEW d \in {Again(u, c), GivenUp(c)}
  PROVE  /\ "id" \in DOMAIN d /\ d.sess = c.sess /\ d.pc \in {"start", "look", "failed", "abort"}
         /\ d.pc = "start" => InParts(u) /\ d.sess = None
         /\ d.pc = "look" /\ InParts(u) => d.sess # None
         /\ ~InParts(u) => d.pc \in {"look", "failed"}
<1>1. "id" \in DOMAIN c /\ (~InParts(u) => c.sess = None)
  BY DEF LInv, Kinds, Shape
<1>2. LET g == GivenUp(c) IN
        /\ "id" \in DOMAIN g /\ g.sess = c.sess
        /\ g.pc = IF c.sess = None THEN "failed" ELSE "abort"
  BY <1>1 DEF GivenUp, IsClient
<1>3. CASE d = GivenUp(c)
  BY <1>1, <1>2, <1>3
<1>4. CASE d = [c EXCEPT !.req = None, !.tries = @ + 1,
                  !.pc = IF InParts(u) /\ c.sess = None THEN "start" ELSE "look"]
  <2>1. /\ "id" \in DOMAIN d /\ d.sess = c.sess
        /\ d.pc = IF InParts(u) /\ c.sess = None THEN "start" ELSE "look"
    BY <1>1, <1>4 DEF IsClient
  <2> QED BY <1>1, <2>1
<1> QED BY <1>3, <1>4 DEF Again

LEMMA ReceiveLands ==
  ASSUME IInv, QInv, LInv, NEW u \in Uploads, Receive(u) PROVE LInv'
<1>0. PICK c, x : c = client[u] /\ x = client[u].req
  OBVIOUS
<1>1. /\ c.pc = "wait" /\ x = c.req /\ x \in DOMAIN reqs /\ reqs[x].pc = "answered" /\ reqs' = Without(reqs, x)
      /\ UNCHANGED <<beside, overlapped, unsure, asked>>
  BY <1>0 DEF Receive, beside, rest, disk, tables, history
<1>2. Goes(x, {reqs[x].pc}) /\ Results(x, {})
  BY <1>1, UnheardGoes, UnheardResults, Given DEF LInv
<1>3. IsClient(c) /\ "id" \in DOMAIN c /\ x[1] = u /\ x # None
  BY <1>0, <1>1, IdsAre DEF IInv, Clients, LInv, Kinds, Shape, QInv, Named, None
<1>4. Answers(x) /\ Awaited(u) /\ Shape(u)
  BY <1>1 DEF LInv, Kinds
<1>5. PICK d : /\ client' = [client EXCEPT ![u] = d]
               /\ "id" \in DOMAIN d
               /\ \/ /\ d.pc = "parts" /\ d.sess = x
                     /\ InParts(u) /\ c.sess = None
                  \/ d.pc = "done" /\ d.sess = c.sess /\ d.id = x /\ Kept(x)
                  \/ d \in {Again(u, c), GivenUp(c)}
  <2> DEFINE d == CASE reqs[x].res = "ok" /\ reqs[x].kind = "start" ->
                         [c EXCEPT !.pc = "parts", !.req = None, !.sess = x, !.tries = 0]
                    [] reqs[x].res = "ok" /\ reqs[x].kind # "start" -> [c EXCEPT !.pc = "done", !.id = x]
                    [] reqs[x].res = "broken" -> Again(u, c)
                    [] OTHER -> GivenUp(c)
  <2>1. client' = [client EXCEPT ![u] = d]
    BY <1>0 DEF Receive, Let
  <2>2. CASE reqs[x].res = "ok" /\ reqs[x].kind = "start"
    <3>1. d = [c EXCEPT !.pc = "parts", !.req = None, !.sess = x, !.tries = 0]
      BY <2>2
    <3>2. "id" \in DOMAIN d /\ d.pc = "parts" /\ d.sess = x
      BY <1>3, <3>1 DEF IsClient
    <3>3. InParts(u) /\ c.sess = None
      BY <1>0, <1>1, <1>4, <2>2 DEF Awaited
    <3> QED BY <2>1, <3>2, <3>3
  <2>3. CASE reqs[x].res = "ok" /\ reqs[x].kind # "start"
    <3>1. d = [c EXCEPT !.pc = "done", !.id = x]
      BY <2>3
    <3>2. "id" \in DOMAIN d /\ d.pc = "done" /\ d.sess = c.sess /\ d.id = x
      BY <1>3, <3>1 DEF IsClient
    <3>3. reqs[x].kind \in Ends
      BY <1>0, <1>1, <1>4, <2>3 DEF Awaited, Ends
    <3>4. Kept(x)
      BY <1>4, <2>3, <3>3 DEF Answers
    <3> QED BY <2>1, <3>2, <3>4
  <2>4. CASE reqs[x].res # "ok"
    <3>1. d \in {Again(u, c), GivenUp(c)}
      BY <2>4
    <3>2. "id" \in DOMAIN d
      BY <1>0, <1>1, <1>3, <3>1, AgainShape
    <3> QED BY <2>1, <3>1, <3>2
  <2> QED BY <2>2, <2>3, <2>4
<1>6. client'[u] = d
  BY <1>5 DEF IInv, Clients
<1>7. /\ d.pc \notin {"wait", "send"}
      /\ d.sess = client[u].sess \/ (client[u].sess = None /\ InParts(u))
  BY <1>0, <1>1, <1>3, <1>5, AgainShape
<1>8. Shape(u)' /\ Awaited(u)'
  <2>1. \A y : Kept(y)' = Kept(y)
    BY <1>1 DEF Kept, Ids, beside
  <2>2. InParts(u)' = InParts(u)
    BY <1>1 DEF InParts, beside
  <2>3. ~InParts(u) => c.sess = None
    BY <1>0, <1>4 DEF Shape
  <2>4. CASE d \in {Again(u, c), GivenUp(c)}
    <3>1. /\ d.sess = c.sess /\ d.pc \in {"start", "look", "failed", "abort"}
          /\ d.pc = "start" => InParts(u) /\ d.sess = None
          /\ d.pc = "look" /\ InParts(u) => d.sess # None
          /\ ~InParts(u) => d.pc \in {"look", "failed"}
      BY <1>0, <1>1, <1>3, <2>4, AgainShape
    <3> QED BY <1>5, <1>6, <2>2, <2>3, <3>1 DEF Shape, Awaited
  <2>5. CASE d.pc = "parts" /\ d.sess = x /\ InParts(u)
    BY <1>3, <1>5, <1>6, <2>2, <2>5 DEF Shape, Awaited
  <2>6. CASE d.pc = "done" /\ d.sess = c.sess /\ d.id = x /\ Kept(x)
    BY <1>3, <1>5, <1>6, <2>1, <2>2, <2>3, <2>6 DEF Shape, Awaited
  <2> QED BY <1>5, <2>4, <2>5, <2>6
<1>9. unsure \in [Uploads -> Nat]
  BY DEF LInv, Kinds
<1> QED BY <1>1, <1>2, <1>5, <1>7, <1>8, <1>9, NoteLands

LEMMA LoseLands ==
  ASSUME IInv, QInv, LInv, NEW u \in Uploads, LoseAnswer(u) PROVE LInv'
<1>0. PICK c, x : c = client[u] /\ x = client[u].req
  OBVIOUS
<1>1. /\ c.pc = "wait" /\ reqs' = Unheard(x) /\ client' = [client EXCEPT ![u] = Again(u, c)]
      /\ UNCHANGED <<beside, overlapped, unsure, asked>>
  BY <1>0 DEF LoseAnswer, Let, beside, rest, disk, tables, history
<1>2. Goes(x, {reqs[x].pc}) /\ Results(x, {})
  BY <1>1, UnheardGoes, UnheardResults, Given DEF LInv
<1>3. PICK d : d = Again(u, c)
  OBVIOUS
<1>4. /\ "id" \in DOMAIN d /\ d.sess = c.sess /\ d.pc \in {"start", "look", "failed", "abort"}
      /\ d.pc = "start" => InParts(u) /\ d.sess = None
      /\ d.pc = "look" /\ InParts(u) => d.sess # None
      /\ ~InParts(u) => d.pc \in {"look", "failed"}
  BY <1>0, <1>1, <1>3, AgainShape DEF IInv, Clients
<1>5. client'[u] = d /\ (~InParts(u) => c.sess = None)
  BY <1>0, <1>1, <1>3 DEF IInv, Clients, LInv, Kinds, Shape
<1>6. Shape(u)' /\ Awaited(u)'
  <2>1. InParts(u)' = InParts(u)
    BY <1>1 DEF InParts, beside
  <2> QED BY <1>4, <1>5, <2>1 DEF Shape, Awaited
<1>7. unsure \in [Uploads -> Nat]
  BY DEF LInv, Kinds
<1> QED BY <1>0, <1>1, <1>2, <1>3, <1>4, <1>6, <1>7, NoteLands

\* What becomes of a part is nothing to the upload's own request.
LEMMA PartNoteLands ==
  ASSUME IInv, QInv, LInv, NEW u \in Uploads, NEW i \in Parts, ReceivePart(u, i) \/ LosePart(u, i)
  PROVE  LInv'
<1>1. PICK x, p : /\ \/ reqs' = Unheard(x)
                     \/ x \in DOMAIN reqs /\ reqs[x].pc = "answered" /\ reqs' = Without(reqs, x)
                  /\ client' = [client EXCEPT ![u].part[i] = p]
  BY DEF ReceivePart, LosePart, PartWith
<1>2. UNCHANGED <<beside, overlapped, unsure, asked>>
  BY DEF ReceivePart, LosePart, beside, rest, disk, tables, history
<1>3. Goes(x, {reqs[x].pc}) /\ Results(x, {})
  BY <1>1, <1>2, UnheardGoes, UnheardResults, Given DEF LInv
<1>4. Shape(u) /\ Awaited(u) /\ IsClient(client[u])
  BY DEF LInv, Kinds, IInv, Clients
<1>5. PICK d : d = [client[u] EXCEPT !.part[i] = p]
  OBVIOUS
<1>6. /\ client' = [client EXCEPT ![u] = d] /\ client'[u] = d
      /\ "id" \in DOMAIN d /\ d.sess = client[u].sess
      /\ d.pc = client[u].pc /\ d.id = client[u].id /\ d.req = client[u].req
  BY <1>1, <1>4, <1>5 DEF Shape, IInv, Clients
<1>7. Shape(u)' /\ Awaited(u)'
  <2>1. InParts(u)' = InParts(u) /\ \A y : Kept(y)' = Kept(y)
    BY <1>2 DEF InParts, beside, Kept, Ids
  <2>2. DOMAIN reqs' \subseteq DOMAIN reqs /\ \A y \in DOMAIN reqs' : reqs'[y].kind = reqs[y].kind
    BY <1>3 DEF Goes
  <2> QED BY <1>4, <1>6, <2>1, <2>2 DEF Shape, Awaited
<1>8. unsure \in [Uploads -> Nat]
  BY DEF LInv, Kinds
<1> QED BY <1>2, <1>3, <1>6, <1>7, <1>8, NoteLands

\* An attempt that was heard to have stored nothing, and has ended, leaves no file.
LEMMA LookLands ==
  ASSUME IInv, QInv, LInv, NEW u \in Uploads, Look(u) \/ PartsEnd(u) PROVE LInv'
<1>1. reqs' = reqs /\ asked' = asked /\ UNCHANGED <<beside, overlapped>>
  BY DEF Look, PartsEnd, beside, rest, disk, tables, history
<1>2. Goes(None, {reqs[None].pc}) /\ Results(None, {})
  <2>1. \A x \in DOMAIN reqs : IsRequest(reqs[x]) /\ IsBooking(reqs[x]) /\ x # None
    <3>1. \A x \in DOMAIN reqs : x # None
      BY IdsAre DEF None
    <3> QED BY <3>1, Given DEF Named
  <2>2. \A x \in DOMAIN reqs : "res" \in DOMAIN reqs[x]
    BY DEF LInv, Kinds, Answers
  <2> QED BY <1>1, <2>1, <2>2 DEF Goes, Results
<1>3. Shape(u) /\ IsClient(client[u]) /\ unsure \in [Uploads -> Nat]
  BY DEF LInv, Kinds, IInv, Clients
<1>4. InParts(u)' = InParts(u) /\ \A y : Kept(y)' = Kept(y)
  BY <1>1 DEF InParts, beside, Kept, Ids
<1>5. CASE PartsEnd(u)
  <2>1. PICK d : \E p \in {"abort", "complete"} :
                   d = [client[u] EXCEPT !.pc = p] /\ client' = [client EXCEPT ![u] = d]
    BY <1>5 DEF PartsEnd, Let
  <2>2. /\ client'[u] = d /\ "id" \in DOMAIN d /\ d.sess = client[u].sess /\ d.pc \in {"abort", "complete"}
    BY <1>3, <2>1 DEF IsClient, Shape, IInv, Clients
  <2>3. client[u].pc = "parts" /\ unsure' = unsure
    BY <1>5 DEF PartsEnd, history
  <2>4. Shape(u)' /\ Awaited(u)'
    BY <1>3, <1>4, <2>2, <2>3 DEF Shape, Awaited
  <2> QED BY <1>1, <1>2, <1>3, <2>1, <2>2, <2>3, <2>4, NoteLands
<1>6. CASE \E r \in {x \in In("old") : x.up = u} : Let(u, [client[u] EXCEPT !.pc = "done", !.id = r.id]) /\ unsure' = unsure
  <2>1. PICK r : /\ r \in In("old") /\ r.up = u /\ unsure' = unsure
                 /\ client' = [client EXCEPT ![u] = [client[u] EXCEPT !.pc = "done", !.id = r.id]]
    BY <1>6 DEF Let
  <2>2. PICK d : d = [client[u] EXCEPT !.pc = "done", !.id = r.id]
    OBVIOUS
  <2>3. /\ client' = [client EXCEPT ![u] = d] /\ client'[u] = d /\ "id" \in DOMAIN d
        /\ d.sess = client[u].sess /\ d.pc = "done" /\ d.id = r.id
    BY <1>3, <2>1, <2>2 DEF IsClient, Shape, IInv, Clients
  <2>4. r.id[1] = u /\ Kept(r.id)
    BY <2>1 DEF In, QInv, Named, Kept, Ids
  <2>5. Shape(u)' /\ Awaited(u)'
    BY <1>3, <1>4, <2>3, <2>4 DEF Shape, Awaited
  <2> QED BY <1>1, <1>2, <1>3, <2>1, <2>3, <2>5, NoteLands
<1> DEFINE Retry == IF InParts(u) THEN "complete" ELSE "send"
<1>7. CASE /\ client[u].pc = "look" /\ client' = [client EXCEPT ![u] = [client[u] EXCEPT !.pc = Retry]]
           /\ \/ unsure' = [unsure EXCEPT ![u] = @ + 1]
              \/ unsure' = unsure /\ Files(u) = {}
  <2>1. PICK d : d = [client[u] EXCEPT !.pc = Retry]
    OBVIOUS
  <2>2. /\ client' = [client EXCEPT ![u] = d] /\ client'[u] = d /\ "id" \in DOMAIN d
        /\ d.sess = client[u].sess /\ d.pc = Retry
    BY <1>3, <1>7, <2>1 DEF IsClient, Shape, IInv, Clients
  <2>3. Shape(u)' /\ Awaited(u)'
    BY <1>3, <1>4, <1>7, <2>2 DEF Shape, Awaited
  <2>4. /\ unsure' \in [Uploads -> Nat] /\ \A v \in Uploads \ {u} : unsure'[v] = unsure[v]
        /\ unsure'[u] = unsure[u] + 1 \/ Files(u) = {}
    BY <1>3, <1>7
  <2> HIDE DEF Retry
  <2> QED BY <1>1, <1>2, <2>2, <2>3, <2>4, NoteLands
<1>8. CASE Look(u)
  <2> DEFINE doubt == \/ \E q \in DOMAIN reqs : reqs[q].up = u /\ reqs[q].kind \in {"file", "complete"}
                      \/ \E r \in In("new") : r.up = u
             mine  == {r \in In("old") : r.up = u}
  <2>1. mine = {} /\ ~doubt => Files(u) = {}
    <3>1. ASSUME mine = {}, ~doubt PROVE Files(u) = {}
      <4>1. \A r \in rows : r.up # u
        BY <3>1 DEF LInv, Placed, In
      <4>2. \A q \in DOMAIN reqs : reqs[q].up = u => ~Lands(q)
        BY <3>1 DEF Lands
      <4> QED BY <4>1, <4>2 DEF Files, Ids
    <3> QED BY <3>1
  <2>2. \/ /\ client[u].pc = "look" /\ client' = [client EXCEPT ![u] = [client[u] EXCEPT !.pc = Retry]]
           /\ \/ unsure' = [unsure EXCEPT ![u] = @ + 1]
              \/ unsure' = unsure /\ ~doubt /\ mine = {}
        \/ /\ unsure' = unsure
           /\ \E r \in mine : Let(u, [client[u] EXCEPT !.pc = "done", !.id = r.id])
    BY <1>8 DEF Look, Let
  <2> HIDE DEF doubt, Retry
  <2> QED BY <1>6, <1>7, <2>1, <2>2
<1> QED BY <1>5, <1>8
-----------------------------------------------------------------------------
(* The other request, and the age of a session. *)

\* Nobody gets a file from what is deleted, moved or given another age.
LEMMA OtherLands ==
  ASSUME IInv, QInv, LInv, UNCHANGED <<world, client, reqs, unsure>>,
         DOMAIN dirs' \subseteq DOMAIN dirs,
         \A x : Kept(x) => Kept(x)',
         \A r \in rows' : \E x \in rows : x.id = r.id /\ x.up = r.up,
         Placed'
  PROVE  LInv'
<1>1. world' = world /\ client' = client /\ reqs' = reqs /\ unsure' = unsure
  OBVIOUS
<1>2. Kinds'
  <2>1. ASSUME NEW u \in Uploads PROVE Shape(u)' /\ Awaited(u)'
    BY <1>1 DEF LInv, Kinds, Shape, Awaited, InParts
  <2>2. ASSUME NEW q \in DOMAIN reqs PROVE Answers(q)'
    BY <1>1 DEF LInv, Kinds, Answers, InParts
  <2> QED BY <1>1, <2>1, <2>2 DEF LInv, Kinds
<1>3. Once'
  <2>1. \A q \in DOMAIN reqs : Lands(q)' = Lands(q)
    BY <1>1 DEF Lands
  <2>2. \A u : Files(u)' \subseteq Files(u)
    BY <1>1, <2>1 DEF Files, Ids
  <2>3. unsure' \in [Uploads -> Nat]
    BY <1>1 DEF LInv, Kinds
  <2> QED BY <1>1, <2>2, <2>3, OnceShrinks
<1> QED BY <1>2, <1>3 DEF LInv

\* A delete or a wipe is in a vault that is not rotated.
LEMMA TakePlaced ==
  ASSUME LInv, UNCHANGED <<reqs, binding, overlapped>>, rows' \subseteq rows,
         \/ other' = other
         \/ other.pc \notin {"move", "rebind", "done"} /\ other'.pc \notin {"move", "rebind"}
  PROVE  Placed'
<1>1. reqs' = reqs /\ binding' = binding /\ overlapped' = overlapped
  OBVIOUS
<1>2. Home' = Home /\ Rotating' = Rotating /\ (binding = "new" => other' = other)
  BY <1>1 DEF Home, Rotating, LInv, Placed
<1>3. other'.pc = "move" => other' = other
  OBVIOUS
<1> QED BY <1>1, <1>2, <1>3 DEF LInv, Placed

LEMMA TakeLands ==
  ASSUME IInv, QInv, LInv,
         \/ \E x \in sessions : Expire(x)
         \/ \E r \in rows : DeleteRow(r)
         \/ DeleteBlob \/ WipeList \/ WipeTables \/ WipeBlobs \/ WipeDirs
  PROVE  LInv'
<1>1. UNCHANGED <<world, client, reqs, unsure, binding, overlapped>>
  BY DEF Expire, DeleteRow, DeleteBlob, WipeList, WipeTables, WipeBlobs, WipeDirs, Frame, rest, history
<1>2. DOMAIN dirs' \subseteq DOMAIN dirs
  BY DEF Expire, DeleteRow, DeleteBlob, WipeList, WipeTables, WipeBlobs, WipeDirs, disk, Restrict
<1>3. rows' \subseteq rows
  BY DEF Expire, DeleteRow, DeleteBlob, WipeList, WipeTables, WipeBlobs, WipeDirs, tables
<1>4. \A x : Kept(x) => Kept(x)'
  <2>1. gone \subseteq gone' /\ (rows' = rows \/ Ids(rows) \subseteq Ids(rows') \cup gone')
    <3>1. CASE \/ \E x \in sessions : Expire(x)
               \/ DeleteBlob \/ WipeList \/ WipeBlobs \/ WipeDirs
      BY <3>1 DEF Expire, DeleteBlob, WipeList, WipeBlobs, WipeDirs, tables, history
    <3>2. CASE \E r \in rows : DeleteRow(r)
      BY <3>2 DEF DeleteRow, Ids
    <3>3. CASE WipeTables
      <4>1. PICK cleared : rows' = rows \ cleared /\ gone' = gone \cup Ids(cleared)
        BY <3>3 DEF WipeTables
      <4> QED BY <4>1 DEF Ids
    <3> QED BY <3>1, <3>2, <3>3
  <2>2. Ids(rows)' = Ids(rows')
    BY DEF Ids
  <2> QED BY <2>1, <2>2 DEF Kept
<1>5. \/ other' = other
      \/ other.pc \notin {"move", "rebind", "done"} /\ other'.pc \notin {"move", "rebind"}
  <2>1. "pc" \in DOMAIN other
    BY DEF IInv, Noted
  <2>2. CASE \E x \in sessions : Expire(x)
    BY <2>2 DEF Expire, rest
  <2>3. CASE \E r \in rows : DeleteRow(r)
    BY <2>1, <2>3 DEF DeleteRow
  <2>4. CASE DeleteBlob \/ WipeBlobs \/ WipeDirs
    BY <2>1, <2>4 DEF DeleteBlob, WipeBlobs, WipeDirs
  <2>5. CASE WipeList
    BY <2>5 DEF WipeList
  <2>6. CASE WipeTables
    <3>1. other.pc = "clear" /\ other' = [other EXCEPT !.pc = "blobs"]
      BY <2>6 DEF WipeTables, OtherTo
    <3> QED BY <2>1, <3>1
  <2> QED BY <2>2, <2>3, <2>4, <2>5, <2>6
<1>6. Placed'
  BY <1>1, <1>3, <1>5, TakePlaced
<1> QED BY <1>1, <1>2, <1>3, <1>4, <1>6, OtherLands

\* The rows that a rotation leaves behind are those of uploads that it overlaps.
LEMMA RotateLands ==
  ASSUME IInv, QInv, LInv, RotateCheck \/ RotateMove \/ Rebind PROVE LInv'
<1>1. UNCHANGED <<world, client, reqs, unsure, gone>> /\ dirs' = dirs
  BY DEF RotateCheck, RotateMove, Rebind, Frame, disk
<1>2. "pc" \in DOMAIN other /\ "ids" \in DOMAIN other
  BY DEF IInv, Noted
<1>3. \A r \in rows : IsRow(r)
  BY DEF IInv, Tables
<1>4. CASE RotateCheck
  <2>1. /\ rows' = rows /\ binding' = binding /\ other.pc = "rotate"
        /\ other' = [other EXCEPT !.pc = "move", !.ids = Ids(In("old"))]
        /\ overlapped' = {reqs[q].up : q \in DOMAIN reqs}
    BY <1>4 DEF RotateCheck, tables
  <2>2. other'.pc = "move" /\ other'.ids = Ids(In("old"))
    BY <1>2, <2>1
  <2>3. binding = "old" /\ Home' = "old" /\ \A r \in rows : r.vault = "old"
    BY <2>1, <2>2 DEF LInv, Placed, IInv, Tables, Home
  <2>4. Placed'
    BY <1>1, <2>1, <2>2, <2>3 DEF Placed, In, Ids
  <2>5. \A x : Kept(x)' = Kept(x)
    BY <1>1, <2>1 DEF Kept, Ids
  <2> QED BY <1>1, <2>1, <2>4, <2>5, OtherLands
<1>5. CASE RotateMove
  <2>1. /\ rows' = {IF r.id \in other.ids THEN [r EXCEPT !.vault = "new"] ELSE r : r \in rows}
        /\ other.pc = "move" /\ other' = [other EXCEPT !.pc = "rebind"]
        /\ binding' = binding /\ overlapped' = overlapped
    BY <1>5 DEF RotateMove, OtherTo
  <2>2. other'.pc = "rebind" /\ binding = "old" /\ Home' = "new" /\ Rotating
    BY <1>2, <2>1 DEF LInv, Placed, Home, Rotating
  <2> DEFINE New(r) == IF r.id \in other.ids THEN [r EXCEPT !.vault = "new"] ELSE r
  <2>3. ASSUME NEW r \in rows
        PROVE  /\ New(r).id = r.id /\ New(r).up = r.up
               /\ New(r).vault \in {"old", "new"}
               /\ New(r).vault = "new" \/ r.up \in overlapped
    <3>1. /\ r.vault \in {"old", "new"} /\ (r.id \in other.ids \/ r.up \in overlapped) /\ IsRow(r)
      BY <1>3, <2>1 DEF LInv, Placed
    <3> QED BY <3>1 DEF IsRow
  <2>4. rows' = {New(r) : r \in rows}
    BY <2>1
  <2> HIDE DEF New
  <2>5. Ids(rows)' = Ids(rows)
    BY <2>3, <2>4 DEF Ids
  <2>6. \A x : Kept(x)' = Kept(x)
    BY <1>1, <2>5 DEF Kept
  <2>7. Placed'
    BY <1>1, <2>1, <2>2, <2>3, <2>4 DEF LInv, Placed
  <2>8. \A r \in rows' : \E x \in rows : x.id = r.id /\ x.up = r.up
    BY <2>3, <2>4
  <2> QED BY <1>1, <2>6, <2>7, <2>8, OtherLands
<1>6. CASE Rebind
  <2>1. /\ rows' = rows /\ overlapped' = overlapped /\ other.pc = "rebind" /\ binding' = "new"
        /\ other' = [other EXCEPT !.pc = "done", !.ids = {}]
    BY <1>6 DEF Rebind, tables
  <2>2. other'.pc = "done" /\ Home = "new" /\ Home' = "new" /\ Rotating
    BY <1>2, <2>1 DEF Home, Rotating
  <2>3. Placed'
    BY <1>1, <2>1, <2>2 DEF LInv, Placed
  <2>4. \A x : Kept(x)' = Kept(x)
    BY <1>1, <2>1 DEF Kept, Ids
  <2> QED BY <1>1, <2>1, <2>3, <2>4, OtherLands
<1> QED BY <1>4, <1>5, <1>6
-----------------------------------------------------------------------------
(* The theorem. *)

LEMMA InitLands == Init => LInv
<1> SUFFICES ASSUME Init PROVE LInv
  OBVIOUS
<1>1. /\ DOMAIN reqs = {} /\ rows = {} /\ binding = "old" /\ other = [pc |-> world.other, ids |-> {}, sessions |-> {}]
      /\ unsure = [u \in Uploads |-> 0]
  BY DEF Init
<1>2. other.pc \notin {"move", "rebind"}
  BY <1>1, UploadsAssumption DEF Init
<1>3. ASSUME NEW u \in Uploads
      PROVE  /\ "id" \in DOMAIN client[u] /\ client[u].sess = None
             /\ client[u].pc \in {"failed", "start", "send"}
             /\ client[u].pc = "start" => InParts(u)
             /\ client[u].pc = "send" => ~InParts(u)
  <2> DEFINE p == CASE u \notin DOMAIN world.kind -> "failed"
                    [] u \in DOMAIN world.kind /\ InParts(u) -> "start"
                    [] OTHER -> "send"
  <2>1. client[u] = [pc |-> p, req |-> None, tries |-> 0, sess |-> None, id |-> None,
                     part |-> [i \in Parts |-> NoPart]]
    BY DEF Init
  <2>2. /\ p \in {"failed", "start", "send"}
        /\ p = "start" => InParts(u)
        /\ p = "send" => ~InParts(u)
    OBVIOUS
  <2> HIDE DEF p
  <2> QED BY <2>1, <2>2
<1>4. Kinds
  <2>1. \A u \in Uploads : Shape(u) /\ Awaited(u)
    BY <1>1, <1>3 DEF Shape, Awaited
  <2> QED BY <1>1, <2>1 DEF Kinds
<1>5. Once
  <2>1. \A u : Files(u) = {}
    BY <1>1 DEF Files, Ids
  <2>2. \A u : Cardinality(Files(u)) = 0
    BY <2>1, FS_EmptySet
  <2>3. \A u \in Uploads : unsure[u] = 0
    BY <1>1
  <2> QED BY <2>1, <2>2, <2>3 DEF Once
<1>6. Placed
  BY <1>1, <1>2 DEF Placed
<1> QED BY <1>4, <1>5, <1>6 DEF LInv

LEMMA StepLands == IInv /\ QInv /\ LInv /\ [Next]_vars => LInv'
<1> SUFFICES ASSUME IInv, QInv, LInv, [Next]_vars PROVE LInv'
  OBVIOUS
<1>1. CASE \E u \in Uploads : ClientStep(u)
  BY <1>1, SendLands, AskLands, ReceiveLands, LoseLands, PartNoteLands, LookLands DEF ClientStep
<1>2. CASE \E q \in DOMAIN reqs : ServerStep(q)
  BY <1>2, FileLands, PartLands, StartLands, CompleteLands, CommitCompleteLands, RefreshCompleteLands
     DEF ServerStep
<1>3. CASE \/ (\E x \in sessions : Expire(x)) \/ (\E r \in rows : DeleteRow(r)) \/ DeleteBlob
           \/ WipeList \/ WipeTables \/ WipeBlobs \/ WipeDirs
  BY <1>3, TakeLands
<1>4. CASE RotateCheck \/ RotateMove \/ Rebind
  BY <1>4, RotateLands
<1>5. CASE UNCHANGED vars
  <2>1. /\ UNCHANGED <<world, client, reqs, unsure, binding, overlapped>>
        /\ rows' = rows /\ gone' = gone /\ dirs' = dirs /\ other' = other
    BY <1>5 DEF vars
  <2>2. Placed'
    BY <2>1, TakePlaced
  <2>3. \A x : Kept(x)' = Kept(x)
    BY <2>1 DEF Kept, Ids
  <2> QED BY <2>1, <2>2, <2>3, OtherLands
<1> QED BY <1>1, <1>2, <1>3, <1>4, <1>5 DEF Next

\* The files of an upload are its rows and what may still become one.
LEMMA LandsFollows == IInv /\ QInv /\ LInv => LandsOnce
<1> SUFFICES ASSUME IInv, QInv, LInv, NEW u \in Uploads
             PROVE  /\ Cardinality({r \in rows : r.up = u}) <= 1 + (IF InParts(u) THEN 0 ELSE unsure[u])
                    /\ client[u].pc = "done" =>
                         \/ client[u].id \in gone
                         \/ \E r \in rows : /\ r.id = client[u].id /\ r.up = u
                                            /\ r.vault = Home \/ u \in overlapped
  BY DEF LandsOnce
<1> DEFINE mine == {r \in rows : r.up = u}
           f    == [r \in mine |-> r.id]
<1>1. IsFiniteSet(Files(u)) /\ Cardinality(Files(u)) \in Nat /\ unsure[u] \in Nat
  BY FilesFinite DEF LInv, Kinds
<1>2. Cardinality(mine) \in Nat /\ Cardinality(mine) <= Cardinality(Files(u))
  <2>1. \A r, x \in mine : r.id = x.id => r = x
    BY DEF IInv, Tables
  <2>2. \A r \in mine : r.id \in Files(u)
    BY DEF Files, Ids
  <2>3. f \in Injection(mine, Files(u))
    BY <2>1, <2>2 DEF Injection, IsInjective
  <2> HIDE DEF mine, f
  <2> QED BY <1>1, <2>3, FS_Injection, FS_CardinalityType
<1>3. Cardinality(Files(u)) <= 1 + (IF InParts(u) THEN 0 ELSE unsure[u])
  <2>1. CASE InParts(u)
    <3>1. \A x, y \in Files(u) : x = y
      BY <2>1 DEF LInv, Once
    <3>2. Files(u) = {} \/ \E x : Files(u) = {x}
      BY <3>1
    <3>3. Cardinality(Files(u)) \in {0, 1}
      BY <3>2, FS_EmptySet, FS_Singleton
    <3> QED BY <2>1, <3>3
  <2>2. CASE ~InParts(u)
    <3>1. Cardinality(Files(u)) + (IF client[u].pc = "send" THEN 1 ELSE 0) <= 1 + unsure[u]
      BY <2>2 DEF LInv, Once
    <3> QED BY <1>1, <2>2, <3>1
  <2> QED BY <2>1, <2>2
<1>4. ASSUME client[u].pc = "done", client[u].id \notin gone
      PROVE  \E r \in rows : /\ r.id = client[u].id /\ r.up = u
                             /\ r.vault = Home \/ u \in overlapped
  <2>1. client[u].id[1] = u /\ client[u].id \in Ids(rows)
    BY <1>4 DEF LInv, Kinds, Shape, Kept
  <2>2. PICK r \in rows : r.id = client[u].id
    BY <2>1 DEF Ids
  <2>3. r.up = u /\ (r.vault = Home \/ r.up \in overlapped)
    BY <2>1, <2>2 DEF QInv, Named, LInv, Placed
  <2> QED BY <2>2, <2>3
<1> HIDE DEF mine
<1>5. Cardinality(mine) <= 1 + (IF InParts(u) THEN 0 ELSE unsure[u])
  BY <1>1, <1>2, <1>3
<1> QED BY <1>4, <1>5 DEF mine

\* However often a client gives up on answers and tries again, and whatever is stored,
\* deleted, wiped and rotated meanwhile: an upload in parts is stored at most once, any
\* other at most once more than its client made an attempt that it could not know to be
\* needed; and an upload that the client takes for done is there, in the vault that the
\* token opens, unless it was deleted or the rotation came between (upload_stream,
\* find_landed_upload, complete_upload, rotate_vault).
THEOREM UploadsLandOnce == Spec => []LandsOnce
<1>1. Init => IInv /\ QInv /\ LInv
  BY InitInv, InitQuota, InitLands
<1>2. (IInv /\ QInv /\ LInv) /\ [Next]_vars => (IInv /\ QInv /\ LInv)'
  BY StepInv, StepQuota, StepLands
<1> QED BY <1>1, <1>2, LandsFollows, PTL DEF Spec
==============================================================================
