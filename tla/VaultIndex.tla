----------------------------- MODULE VaultIndex -----------------------------
(***************************************************************************)
(* The index of a vault (VaultIndex in lethean_fuse/src/vault.rs): which   *)
(* folder an entry is placed in, and the name it is shown under there.     *)
(*                                                                         *)
(* Records are encrypted one by one, so the server cannot keep names       *)
(* unique nor folders whole.  An entry names its parent by id and, in the  *)
(* second format, by the parent's node reference (pref), which every copy  *)
(* of that folder shares; two siblings may have one name, and all but one  *)
(* of them are then shown under a numbered alias.                          *)
(*                                                                         *)
(* An index is a value: a record with the fields below.  The sets that the *)
(* code keeps by reference (folders_by_ref, folders_by_from, dependents)   *)
(* and by folder (children_by_parent) are computed from it; what the code  *)
(* keeps and a slip could falsify (slots, aliases, their count, the place) *)
(* is stored.  Ids are numbers, in the order of the code's strings.        *)
(***************************************************************************)
EXTENDS Integers, Sequences, FiniteSets, FiniteSetsExt, SequencesExt, Functions, Folds

CONSTANT LongNames  \* names so long that a number costs them their last part

None       == 0     \* no id, no reference
Root       == 0     \* the key of the top folder
Unresolved == -1    \* UNRESOLVED_PARENT: where entries without a folder are kept

\* An entry: the name it is saved under, whether it is a folder and of the
\* second format, its declared parent (id and reference), its own reference,
\* and the reference of the older folder it was made from.
EntryOf(Id, Name) ==
  [name : Name, folder : BOOLEAN, v2 : BOOLEAN, parent : Id \cup {Root},
   pref : Id \cup {None}, ref : Id, from : Id \cup {None}]

NoMap == [x \in {} |-> None]

EmptyIndex == [entries |-> NoMap,  \* id -> entry
               placed  |-> NoMap,  \* id -> key of the folder it is placed in
               slots   |-> NoMap,  \* name_index: <<key, name>> -> id
               display |-> NoMap,  \* id -> its alias and the alias's number
               aliased |-> NoMap]  \* aliased_in: key -> how many aliases there are

Ids(ix)           == DOMAIN ix.entries
Children(ix, pk)  == {id \in DOMAIN ix.placed : ix.placed[id] = pk}
IsAlias(ix, id)   == id \in DOMAIN ix.display
Shown(ix, id)     == IF IsAlias(ix, id) THEN ix.display[id].name ELSE ix.entries[id].name
AliasedIn(ix, pk) == IF pk \in DOMAIN ix.aliased THEN ix.aliased[pk] ELSE 0

\* find_child
FindChild(ix, pk, name) ==
  IF <<pk, name>> \in DOMAIN ix.slots THEN ix.slots[<<pk, name>>] ELSE None

With(f, x, y) == [z \in DOMAIN f \cup {x} |-> IF z = x THEN y ELSE f[z]]
Minus(f, x)   == Restrict(f, DOMAIN f \ {x})

\* What Op makes of ix for one id after another, the one that Last names at the end.
InOrder(Op(_, _), ix, LastOf(_), ids) == MapThenFoldSet(Op, ix, LAMBDA id : id, LastOf, ids)

\* numbered_name: "name (n)", of a name that may have to be cut for it.
NumberedName(base, n) == Append(IF base \in LongNames THEN Front(base) ELSE base, n)
-----------------------------------------------------------------------------
(* Names in one folder.                                                    *)

Unalias(ix, pk, id) ==
  IF ~IsAlias(ix, id) THEN ix
  ELSE [ix EXCEPT !.display = Minus(@, id),
                  !.aliased = With(@, pk, IF AliasedIn(ix, pk) = 0 THEN 0 ELSE @[pk] - 1)]

\* Mutant: an alias that is renumbered is counted again.
CountAgain(ix, pk, id, name, n) ==
  [ix EXCEPT !.display = With(@, id, [name |-> name, number |-> n]),
             !.aliased = With(@, pk, AliasedIn(ix, pk) + 1)]

SetAlias(ix, pk, id, name, n) ==
  [ix EXCEPT !.display = With(@, id, [name |-> name, number |-> n]),
             !.aliased = IF IsAlias(ix, id) THEN @ ELSE With(@, pk, AliasedIn(ix, pk) + 1)]

TakeSlot(ix, pk, name, id) == [ix EXCEPT !.slots = With(@, <<pk, name>>, id)]
FreeSlot(ix, pk, name, id) ==
  IF FindChild(ix, pk, name) = id THEN [ix EXCEPT !.slots = Minus(@, <<pk, name>>)] ELSE ix

\* Its own name, or the first free numbered one.
Own(ix, pk, id) == Unalias(TakeSlot(ix, pk, ix.entries[id].name, id), pk, id)
Numbered(ix, pk, id) ==
  LET base  == ix.entries[id].name
      free  == {n \in 2 .. Cardinality(DOMAIN ix.slots) + 2 :
                  FindChild(ix, pk, NumberedName(base, n)) = None}
      alias == NumberedName(base, Min(free))
  IN  SetAlias(TakeSlot(ix, pk, alias, id), pk, id, alias, Min(free))

\* Mutant: an alias that is in the way stays, and the name's owner is numbered.
PlaceBehind(ix, pk, id) ==
  IF FindChild(ix, pk, ix.entries[id].name) = None THEN Own(ix, pk, id) ELSE Numbered(ix, pk, id)

\* place_name: the name itself if it is free or only lent to an alias, which is
\* then placed anew; a numbered name otherwise.  What calls itself in the code is a
\* turn here: each turn after the first takes an alias away, so they end.
PlaceTurn(turn, pk) ==
  LET ix     == turn.ix
      id     == turn.id
      holder == FindChild(ix, pk, ix.entries[id].name)
  IN  CASE id = None -> turn
        [] id # None /\ holder = None -> [ix |-> Own(ix, pk, id), id |-> None]
        [] id # None /\ holder \notin {None, id} /\ IsAlias(ix, holder) ->
             [ix |-> Own(ix, pk, id), id |-> holder]
        [] OTHER -> [ix |-> Numbered(ix, pk, id), id |-> None]

PlaceName(ix, pk, id) ==
  LET turn[n \in 0 .. Cardinality(DOMAIN ix.display) + 1] ==
        IF n = 0 THEN [ix |-> ix, id |-> id] ELSE PlaceTurn(turn[n - 1], pk)
  IN  turn[Cardinality(DOMAIN ix.display) + 1].ix

\* compact: the siblings of one name are placed again, the one that has the name
\* first, then the aliases by number.
Compact(ix, pk, base) ==
  LET members   == {id \in Children(ix, pk) : ix.entries[id].name = base}
      Number(id) == IF IsAlias(ix, id) THEN ix.display[id].number ELSE 1
      LastOf(s) == CHOOSE y \in s : \A x \in s \ {y} :
                     Number(x) < Number(y) \/ (Number(x) = Number(y) /\ x < y)
      cleared   == InOrder(LAMBDA id, acc :
                     Unalias(FreeSlot(acc, pk, Shown(acc, id), id), pk, id), ix, LastOf, members)
  IN  InOrder(LAMBDA id, acc : PlaceName(acc, pk, id), cleared, LastOf, members)
-----------------------------------------------------------------------------
(* The folder an entry is placed in.                                       *)

FoldersByRef(ix, r)  == {id \in Ids(ix) : ix.entries[id].folder /\ ix.entries[id].ref = r}
FoldersByFrom(ix, r) == {id \in Ids(ix) : ix.entries[id].folder /\ ix.entries[id].v2
                                          /\ ix.entries[id].from = r}
Dependents(ix, keys) == {id \in Ids(ix) : ix.entries[id].v2 /\ ix.entries[id].pref # None
                                          /\ ix.entries[id].pref \in keys}

\* resolve: the folder an entry declares if the reference bears it out, or else
\* another copy of that folder, or else one made from it.
Resolve(ix, id) ==
  LET e         == ix.entries[id]
      Pick(set) == IF e.parent \in set \ {id} THEN e.parent ELSE Min(set \ {id})
      byRef     == FoldersByRef(ix, e.pref)
      byFrom    == FoldersByFrom(ix, e.pref)
  IN  CASE ~e.v2 \/ e.parent = Root -> e.parent
        [] e.v2 /\ e.parent # Root /\ e.pref = None -> Unresolved
        [] OTHER -> IF byRef \ {id} # {} THEN Pick(byRef)
                    ELSE IF byFrom \ {id} # {} THEN Pick(byFrom) ELSE Unresolved

Attach(ix, id) ==
  LET pk == Resolve(ix, id)
  IN  PlaceName([ix EXCEPT !.placed = With(@, id, pk)], pk, id)

\* detach: the name an entry leaves free may be one that a sibling waits for.
Detach(ix, id) ==
  IF id \notin DOMAIN ix.placed THEN ix ELSE
  LET pk    == ix.placed[id]
      shown == Shown(ix, id)
      gone  == FreeSlot(Unalias([ix EXCEPT !.placed = Minus(@, id)], pk, id), pk, shown, id)
      named == Compact(gone, pk, ix.entries[id].name)
  IN  CASE ~IsAlias(ix, id) /\ AliasedIn(gone, pk) = 0 -> gone
        [] OTHER -> IF FindChild(named, pk, shown) = None THEN Compact(named, pk, shown) ELSE named

\* folder_keys, and reattach_dependents: the entries that name a folder by one of
\* its references are placed again.
FolderKeys(e) == IF ~e.folder THEN {} ELSE {e.ref} \cup (IF e.v2 THEN {e.from} ELSE {})

ReattachNone(ix, keys) == ix                                            \* mutant
Reattach(ix, keys) ==
  InOrder(LAMBDA id, acc : Attach(Detach(acc, id), id), ix, Max, Dependents(ix, keys))

InsertEntry(ix, id, entry) ==
  IF id \in Ids(ix) THEN ix
  ELSE Reattach(Attach([ix EXCEPT !.entries = With(@, id, entry)], id), FolderKeys(entry))

\* Mutant: the entry goes and its place stays.
RemoveLoose(ix, id) ==
  IF id \notin Ids(ix) THEN ix
  ELSE [ix EXCEPT !.entries = Minus(@, id)]

RemoveEntry(ix, id) ==
  IF id \notin Ids(ix) THEN ix
  ELSE Reattach([Detach(ix, id) EXCEPT !.entries = Minus(@, id)], FolderKeys(ix.entries[id]))
-----------------------------------------------------------------------------
\* What sync, and with touched_between heal_pending, report of a change of the index:
\* the names it gives or takes, which the kernel is to forget.  (A sync adds the names of
\* records that changed under their ids; in Folders none does.)
Snapshot(ix) == {<<id, ix.placed[id], Shown(ix, id)>> : id \in DOMAIN ix.placed}
\* Mutant: only the names that are given.
GivenBetween(before, after) ==
  {<<t[2], t[3]>> : t \in {u \in Snapshot(after) \ Snapshot(before) : u[2] # Unresolved}}

TouchedBetween(before, after) ==
  LET b == Snapshot(before)  a == Snapshot(after)
  IN  {<<t[2], t[3]>> : t \in {u \in (b \ a) \cup (a \ b) : u[2] # Unresolved}}

\* descendant_ids: a loop of folders, which two clients can make, ends the walk.
Below(ix, keys) ==
  LET reached[n \in 0 .. Cardinality(Ids(ix))] ==
        IF n = 0 THEN keys
        ELSE LET before  == reached[n - 1]
                 folders == {k \in before : k = Root \/ ix.entries[k].folder}
             IN  before \cup UNION {Children(ix, k) : k \in folders}
  IN  reached[Cardinality(Ids(ix))]
Descendants(ix, key) == Below(ix, {key}) \ {key}
=============================================================================
