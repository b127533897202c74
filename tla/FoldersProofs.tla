---------------------------- MODULE FoldersProofs ----------------------------
(***************************************************************************)
(* Proofs about Folders.tla and the index it is built on, VaultIndex.tla,  *)
(* for any number of records, names and workers.                           *)
(*                                                                         *)
(* The first part is about one index as a value.  IndexOK(ix, W, B) says   *)
(* that it is whole but for the entries of W, which are placed and have no *)
(* name yet, and the names of B, which nobody holds; place_name, compact,  *)
(* detach and attach are shown to take one such index to the next, so that *)
(* insert_entry and remove_entry take a whole one to a whole one.  The     *)
(* folds over entries are by induction on the set that is folded over (Do  *)
(* names what is done with each).  The second part is about the program:   *)
(* the index, the records that are made and what the jobs hold.  The last  *)
(* is about files that are not saved yet.                                  *)
(***************************************************************************)
EXTENDS Folders, FoldLemmas, SequenceTheorems

-----------------------------------------------------------------------------
(* The index as a value. *)

\* An index has its five maps.
IsIndex(ix) ==
  ix = [entries |-> ix.entries, placed |-> ix.placed, slots |-> ix.slots,
        display |-> ix.display, aliased |-> ix.aliased]

\* Where an entry is found, and where its own name is.
Spot(ix, id) == <<ix.placed[id], Shown(ix, id)>>
Base(ix, id) == <<ix.placed[id], ix.entries[id].name>>

Shaped(ix) ==
  /\ IsIndex(ix)
  /\ IsFiniteSet(Ids(ix)) /\ Ids(ix) \subseteq Nat \ {None}
  /\ \A id \in Ids(ix) : ix.entries[id].name \in Seq(Int)
  /\ DOMAIN ix.placed \subseteq Ids(ix)

\* Every placed entry but those of W has its spot, the spots are of these, and an alias is
\* never the entry's own name.
NamesOK(ix, W) ==
  /\ \A id \in DOMAIN ix.placed \ W : Spot(ix, id) \in DOMAIN ix.slots /\ ix.slots[Spot(ix, id)] = id
  /\ \A s \in DOMAIN ix.slots : ix.slots[s] \in DOMAIN ix.placed \ W /\ s = Spot(ix, ix.slots[s])
  /\ \A id \in DOMAIN ix.display :
       /\ id \in DOMAIN ix.placed \ W /\ ix.display[id].number \in Nat
       /\ ix.display[id].name # ix.entries[id].name

Aliases(ix, pk) == {id \in DOMAIN ix.display : ix.placed[id] = pk}
CountsOK(ix) ==
  /\ \A pk \in DOMAIN ix.aliased : ix.aliased[pk] = Cardinality(Aliases(ix, pk))
  /\ \A id \in DOMAIN ix.display : ix.placed[id] \in DOMAIN ix.aliased

\* The own names, but those of B and of the entries of W, are held by entries that were saved
\* under them.
HeldOK(ix, W, B) ==
  \A id \in DOMAIN ix.placed \ W :
    \/ Base(ix, id) \in B
    \/ Base(ix, id) \in DOMAIN ix.slots /\ ix.entries[ix.slots[Base(ix, id)]].name = ix.entries[id].name

IndexOK(ix, W, B) == Shaped(ix) /\ NamesOK(ix, W) /\ CountsOK(ix) /\ HeldOK(ix, W, B)

SameTree(ix, new) == new.entries = ix.entries /\ new.placed = ix.placed

\* How many aliases there are.
LEMMA CountIs ==
  ASSUME NEW ix, NEW W, NEW pk, Shaped(ix), NamesOK(ix, W), CountsOK(ix)
  PROVE  /\ IsFiniteSet(Aliases(ix, pk)) /\ Cardinality(Aliases(ix, pk)) \in Nat
         /\ AliasedIn(ix, pk) = Cardinality(Aliases(ix, pk))
<1>1. Aliases(ix, pk) \subseteq Ids(ix)
  BY DEF Aliases, NamesOK, Shaped
<1>2. IsFiniteSet(Aliases(ix, pk))
  BY <1>1, FS_Subset DEF Shaped
<1>3. Cardinality(Aliases(ix, pk)) \in Nat
  BY <1>2, FS_CardinalityType
<1>4. pk \notin DOMAIN ix.aliased => Aliases(ix, pk) = {}
  BY DEF CountsOK, Aliases
<1>5. AliasedIn(ix, pk) = Cardinality(Aliases(ix, pk))
  BY <1>4, FS_EmptySet DEF AliasedIn, CountsOK
<1> QED BY <1>2, <1>3, <1>5

\* There are no more names than entries.
LEMMA SlotsFinite ==
  ASSUME NEW ix, NEW W, Shaped(ix), NamesOK(ix, W)
  PROVE  IsFiniteSet(DOMAIN ix.slots) /\ \A s \in DOMAIN ix.slots : ix.slots[s] # None
<1> DEFINE S == DOMAIN ix.placed
           T == {Spot(ix, id) : id \in S}
<1>1. IsFiniteSet(S)
  BY FS_Subset DEF Shaped
<1>2. IsFiniteSet(T)
  <2> DEFINE H == [id \in S |-> Spot(ix, id)]
  <2>1. (\A x \in S : H[x] \in T) /\ \A e \in T : \E x \in S : e = H[x]
    OBVIOUS
  <2> HIDE DEF H, T, S
  <2> QED BY <1>1, <2>1, ImageFinite
<1>3. DOMAIN ix.slots \subseteq T
  BY DEF NamesOK
<1>4. \A s \in DOMAIN ix.slots : ix.slots[s] # None
  BY DEF NamesOK, Shaped
<1> QED BY <1>2, <1>3, <1>4, FS_Subset

\* Numbered names differ by their number, so among as many as there are names and one, one
\* is free.
LEMMA NumbersDiffer ==
  ASSUME NEW base \in Seq(Int), NEW n \in Int, NEW m \in Int, NumberedName(base, n) = NumberedName(base, m)
  PROVE  n = m
<1> DEFINE q == IF base \in LongNames THEN Front(base) ELSE base
<1>1. q \in Seq(Int)
  <2>1. Front(base) \in Seq(Int)
    <3>1. Len(base) \in Nat
      OBVIOUS
    <3>2. CASE Len(base) = 0
      BY <3>2 DEF Front
    <3>3. CASE Len(base) # 0
      BY <3>1, <3>3 DEF Front
    <3> QED BY <3>2, <3>3
  <2> QED BY <2>1
<1>2. Append(q, n) = Append(q, m)
  BY DEF NumberedName
<1>3. Append(q, n)[Len(q) + 1] = n /\ Append(q, m)[Len(q) + 1] = m
  <2> HIDE DEF q
  <2> QED BY <1>1
<1> QED BY <1>2, <1>3

LEMMA NumberFree ==
  ASSUME NEW ix, NEW pk, NEW base \in Seq(Int),
         IsFiniteSet(DOMAIN ix.slots), \A s \in DOMAIN ix.slots : ix.slots[s] # None,
         NEW free, free = {n \in 2 .. Cardinality(DOMAIN ix.slots) + 2 :
                             FindChild(ix, pk, NumberedName(base, n)) = None}
  PROVE  Min(free) \in Nat /\ <<pk, NumberedName(base, Min(free))>> \notin DOMAIN ix.slots
<1> DEFINE c == Cardinality(DOMAIN ix.slots)
           I == 2 .. c + 2
           f == [n \in I |-> <<pk, NumberedName(base, n)>>]
<1>1. c \in Nat
  BY FS_CardinalityType
<1>2. free # {}
  <2> SUFFICES ASSUME free = {} PROVE FALSE
    OBVIOUS
  <2>1. \A n \in I : f[n] \in DOMAIN ix.slots
    BY DEF FindChild
  <2>2. f \in Injection(I, DOMAIN ix.slots)
    <3>1. f \in [I -> DOMAIN ix.slots]
      BY <2>1
    <3>2. ASSUME NEW n \in I, NEW m \in I, f[n] = f[m] PROVE n = m
      <4>1. NumberedName(base, n) = NumberedName(base, m) /\ n \in Int /\ m \in Int
        BY <1>1, <3>2
      <4> QED BY <4>1, NumbersDiffer
    <3> HIDE DEF f, I
    <3> QED BY <3>1, <3>2 DEF Injection, IsInjective
  <2>3. Cardinality(I) <= c
    <3> HIDE DEF f, I
    <3> QED BY <2>2, FS_Injection
  <2>4. Cardinality(I) = c + 1
    BY <1>1, FS_Interval
  <2> QED BY <1>1, <2>3, <2>4
<1>3. free \in SUBSET Nat
  BY <1>1
<1>4. Min(free) \in free
  BY <1>2, <1>3, LeastMember
<1>5. FindChild(ix, pk, NumberedName(base, Min(free))) = None
  BY <1>4
<1> QED BY <1>3, <1>4, <1>5 DEF FindChild

-----------------------------------------------------------------------------
(* One name. *)

\* The place of an entry that has no name yet, under the name it was saved under.
LEMMA OwnIs ==
  ASSUME NEW ix, NEW pk, NEW id, IsIndex(ix), id \notin DOMAIN ix.display
  PROVE  Own(ix, pk, id) = [ix EXCEPT !.slots = With(ix.slots, <<pk, ix.entries[id].name>>, id)]
BY DEF Own, TakeSlot, Unalias, IsAlias, IsIndex

\* And under the first free number.
IsNumbered(ix, pk, id, name, n, new) ==
  /\ <<pk, name>> \notin DOMAIN ix.slots
  /\ new = [ix EXCEPT !.slots   = With(ix.slots, <<pk, name>>, id),
                      !.display = With(ix.display, id, [name |-> name, number |-> n]),
                      !.aliased = IF id \in DOMAIN ix.display THEN ix.aliased
                                  ELSE With(ix.aliased, pk, AliasedIn(ix, pk) + 1)]

LEMMA NumberedIs ==
  ASSUME NEW ix, NEW pk, NEW id, IsIndex(ix), ix.entries[id].name \in Seq(Int),
         IsFiniteSet(DOMAIN ix.slots), \A s \in DOMAIN ix.slots : ix.slots[s] # None
  PROVE  \E name : \E n \in Nat : IsNumbered(ix, pk, id, name, n, Numbered(ix, pk, id))
<1> DEFINE base == ix.entries[id].name
           free == {n \in 2 .. Cardinality(DOMAIN ix.slots) + 2 :
                      FindChild(ix, pk, NumberedName(base, n)) = None}
           n    == Min(free)
           name == NumberedName(base, n)
<1>1. n \in Nat /\ <<pk, name>> \notin DOMAIN ix.slots
  BY NumberFree
<1>2. Numbered(ix, pk, id) = SetAlias(TakeSlot(ix, pk, name, id), pk, id, name, n)
  BY Zenon DEF Numbered
<1> HIDE DEF free, n, name
<1>3. SetAlias(TakeSlot(ix, pk, name, id), pk, id, name, n) =
        [ix EXCEPT !.slots   = With(ix.slots, <<pk, name>>, id),
                   !.display = With(ix.display, id, [name |-> name, number |-> n]),
                   !.aliased = IF id \in DOMAIN ix.display THEN ix.aliased ELSE With(ix.aliased, pk, AliasedIn(ix, pk) + 1)]
  BY DEF SetAlias, TakeSlot, IsAlias, AliasedIn, IsIndex
<1> QED BY <1>1, <1>2, <1>3 DEF IsNumbered

\* What is left of an entry's name when it is cleared.
IsCleared(ix, pk, id, name, new) ==
  new = [ix EXCEPT !.slots   = IF FindChild(ix, pk, name) = id THEN Minus(ix.slots, <<pk, name>>) ELSE ix.slots,
                   !.display = IF id \in DOMAIN ix.display THEN Minus(ix.display, id) ELSE ix.display,
                   !.aliased = IF id \in DOMAIN ix.display
                               THEN With(ix.aliased, pk, IF AliasedIn(ix, pk) = 0 THEN 0 ELSE ix.aliased[pk] - 1)
                               ELSE ix.aliased]

LEMMA ClearIs ==
  ASSUME NEW ix, NEW pk, NEW id, NEW name, IsIndex(ix)
  PROVE  IsCleared(ix, pk, id, name, Unalias(FreeSlot(ix, pk, name, id), pk, id))
BY DEF IsCleared, Unalias, FreeSlot, IsAlias, AliasedIn, IsIndex, FindChild

\* An entry takes a name that is free.
LEMMA OwnKeeps ==
  ASSUME NEW ix, NEW W, IndexOK(ix, W, {}), NEW id \in W, id \in DOMAIN ix.placed,
         NEW pk, pk = ix.placed[id], <<pk, ix.entries[id].name>> \notin DOMAIN ix.slots,
         NEW new, new = Own(ix, pk, id)
  PROVE  IndexOK(new, W \ {id}, {}) /\ SameTree(ix, new)
<1> DEFINE slot == <<pk, ix.entries[id].name>>
<1>1. id \notin DOMAIN ix.display
  BY DEF IndexOK, NamesOK
<1>2. new = [ix EXCEPT !.slots = With(ix.slots, slot, id)]
  BY <1>1, OwnIs DEF IndexOK, Shaped
<1>3. /\ SameTree(ix, new) /\ IsIndex(new) /\ new.display = ix.display /\ new.aliased = ix.aliased
      /\ new.slots = With(ix.slots, slot, id)
  BY <1>2 DEF IndexOK, Shaped, IsIndex, SameTree
<1> HIDE <1>2
<1>4. /\ DOMAIN new.slots = DOMAIN ix.slots \cup {slot} /\ new.slots[slot] = id
      /\ \A s \in DOMAIN ix.slots : new.slots[s] = ix.slots[s]
  BY <1>3 DEF With
<1>5. \A x : Shown(new, x) = Shown(ix, x) /\ Spot(new, x) = Spot(ix, x) /\ Base(new, x) = Base(ix, x)
  BY <1>3 DEF Shown, IsAlias, Spot, Base, SameTree
<1>6. Spot(ix, id) = slot /\ Base(ix, id) = slot
  BY <1>1 DEF Spot, Shown, IsAlias, Base
<1>7. Shaped(new)
  BY <1>3 DEF IndexOK, Shaped, SameTree, Ids
<1> HIDE DEF slot
<1>8. NamesOK(new, W \ {id})
  BY <1>1, <1>3, <1>4, <1>5, <1>6 DEF IndexOK, NamesOK, SameTree
<1>9. CountsOK(new)
  BY <1>3 DEF IndexOK, CountsOK, Aliases, SameTree
<1>10. HeldOK(new, W \ {id}, {})
  BY <1>3, <1>4, <1>5, <1>6 DEF IndexOK, HeldOK, SameTree
<1> QED BY <1>3, <1>7, <1>8, <1>9, <1>10 DEF IndexOK

\* Who holds the name an entry was saved under: one that was saved under it, or an alias.
LEMMA HolderIs ==
  ASSUME NEW ix, NEW W, NEW B, IndexOK(ix, W, B), NEW s \in DOMAIN ix.slots, NEW h, h = ix.slots[s]
  PROVE  /\ h \in DOMAIN ix.placed \ W /\ h \in Ids(ix) /\ h # None /\ s = Spot(ix, h)
         /\ ~IsAlias(ix, h) => s = Base(ix, h)
         /\ IsAlias(ix, h) => s # Base(ix, h)
<1>1. h \in DOMAIN ix.placed \ W /\ s = Spot(ix, h)
  BY DEF IndexOK, NamesOK
<1>2. h \in Ids(ix) /\ h # None
  BY <1>1 DEF IndexOK, Shaped
<1>3. IsAlias(ix, h) => ix.display[h].name # ix.entries[h].name
  BY DEF IndexOK, NamesOK, IsAlias
<1>4. s = <<ix.placed[h], Shown(ix, h)>>
  BY <1>1 DEF Spot
<1>5. Base(ix, h) = <<ix.placed[h], ix.entries[h].name>>
  BY DEF Base
<1>6. IF IsAlias(ix, h) THEN Shown(ix, h) # ix.entries[h].name ELSE Shown(ix, h) = ix.entries[h].name
  BY <1>3 DEF Shown
<1> QED BY <1>1, <1>2, <1>4, <1>5, <1>6

\* It is numbered when an entry that was saved under its name has it.
LEMMA NumberedKeeps ==
  ASSUME NEW ix, NEW W, IndexOK(ix, W, {}), NEW id \in W, id \in DOMAIN ix.placed,
         NEW pk, pk = ix.placed[id], NEW slot, slot = <<pk, ix.entries[id].name>>,
         slot \in DOMAIN ix.slots, ~IsAlias(ix, ix.slots[slot]),
         NEW new, new = Numbered(ix, pk, id)
  PROVE  IndexOK(new, W \ {id}, {}) /\ SameTree(ix, new)
<1>1. id \notin DOMAIN ix.display /\ id \in Ids(ix)
  BY DEF IndexOK, NamesOK, Shaped
<1>2. IsFiniteSet(DOMAIN ix.slots) /\ \A s \in DOMAIN ix.slots : ix.slots[s] # None
  BY SlotsFinite DEF IndexOK
<1>3. PICK name : \E n \in Nat : IsNumbered(ix, pk, id, name, n, new)
  BY <1>1, <1>2, NumberedIs DEF IndexOK, Shaped
<1>4. PICK n \in Nat : IsNumbered(ix, pk, id, name, n, new)
  BY <1>3
<1> DEFINE spot == <<pk, name>>
<1>5. /\ SameTree(ix, new) /\ IsIndex(new)
      /\ new.slots = With(ix.slots, spot, id)
      /\ new.display = With(ix.display, id, [name |-> name, number |-> n])
      /\ new.aliased = With(ix.aliased, pk, AliasedIn(ix, pk) + 1)
  BY <1>1, <1>4 DEF IsNumbered, IndexOK, Shaped, IsIndex, SameTree
<1>6. /\ DOMAIN new.slots = DOMAIN ix.slots \cup {spot} /\ new.slots[spot] = id
      /\ \A s \in DOMAIN ix.slots : new.slots[s] = ix.slots[s]
  BY <1>4, <1>5 DEF With, IsNumbered
<1>7. /\ DOMAIN new.display = DOMAIN ix.display \cup {id}
      /\ new.display[id].name = name /\ new.display[id].number = n
      /\ \A x \in DOMAIN ix.display : new.display[x] = ix.display[x]
  BY <1>1, <1>5 DEF With
<1>8. \A x : x # id => Shown(new, x) = Shown(ix, x) /\ Spot(new, x) = Spot(ix, x)
  BY <1>5, <1>7 DEF Shown, IsAlias, Spot, SameTree
<1>9. (\A x : Base(new, x) = Base(ix, x)) /\ Spot(new, id) = spot /\ Base(ix, id) = slot
  BY <1>5, <1>7 DEF Base, Shown, IsAlias, Spot, SameTree
<1>10. name # ix.entries[id].name
  BY <1>4 DEF IsNumbered
<1>11. Shaped(new)
  BY <1>5 DEF IndexOK, Shaped, SameTree, Ids
<1>12. CountsOK(new)
  <2>1. Aliases(new, pk) = Aliases(ix, pk) \cup {id} /\ id \notin Aliases(ix, pk)
    BY <1>1, <1>5, <1>7 DEF Aliases, SameTree
  <2>2. \A k : k # pk => Aliases(new, k) = Aliases(ix, k)
    BY <1>5, <1>7 DEF Aliases, SameTree
  <2>3. Cardinality(Aliases(new, pk)) = AliasedIn(ix, pk) + 1
    <3>1. IsFiniteSet(Aliases(ix, pk)) /\ Cardinality(Aliases(ix, pk)) = AliasedIn(ix, pk)
      BY CountIs DEF IndexOK
    <3> QED BY <2>1, <3>1, FS_AddElement
  <2>4. /\ DOMAIN new.aliased = DOMAIN ix.aliased \cup {pk} /\ new.aliased[pk] = AliasedIn(ix, pk) + 1
        /\ \A k \in DOMAIN ix.aliased : k # pk => new.aliased[k] = ix.aliased[k]
    BY <1>5 DEF With
  <2> QED BY <1>5, <1>7, <2>2, <2>3, <2>4 DEF CountsOK, IndexOK, SameTree
<1>13. ix.slots[slot] \in DOMAIN ix.placed \ W /\ ix.entries[ix.slots[slot]].name = ix.entries[id].name
  BY HolderIs DEF Base
<1>16. spot \notin DOMAIN ix.slots
  BY <1>4 DEF IsNumbered
<1> HIDE DEF spot
<1>14. NamesOK(new, W \ {id})
  BY <1>1, <1>5, <1>6, <1>7, <1>8, <1>9, <1>10, <1>16 DEF IndexOK, NamesOK, SameTree
<1>15. HeldOK(new, W \ {id}, {})
  BY <1>5, <1>6, <1>9, <1>13 DEF IndexOK, HeldOK, SameTree
<1> QED BY <1>5, <1>11, <1>12, <1>14, <1>15 DEF IndexOK

\* When an alias has the name, the entry takes it and the alias is numbered anew.
IsSwap(ix, id, h, slot, spot, new) ==
  /\ h \in DOMAIN ix.display /\ slot = Base(ix, id) /\ slot = Spot(ix, h)
  /\ slot \in DOMAIN ix.slots /\ ix.slots[slot] = h
  /\ spot \notin DOMAIN ix.slots /\ SameTree(ix, new) /\ IsIndex(new)
  /\ DOMAIN new.slots = DOMAIN ix.slots \cup {spot} /\ new.slots[spot] = h /\ new.slots[slot] = id
  /\ \A s \in DOMAIN ix.slots : s # slot => new.slots[s] = ix.slots[s]
  /\ new.aliased = ix.aliased /\ DOMAIN new.display = DOMAIN ix.display
  /\ \A x \in DOMAIN ix.display : x # h => new.display[x] = ix.display[x]
  /\ new.display[h].number \in Nat /\ new.display[h].name # ix.entries[h].name /\ Spot(new, h) = spot

LEMMA SwapIs ==
  ASSUME NEW ix, NEW W, IndexOK(ix, W, {}), NEW id \in W, id \in DOMAIN ix.placed,
         NEW h, NEW slot, NEW spot, NEW new, IsSwap(ix, id, h, slot, spot, new)
  PROVE  IndexOK(new, W \ {id}, {})
<1> USE DEF IsSwap
<1>1. /\ id \notin DOMAIN ix.display /\ h \in DOMAIN ix.placed \ W /\ slot # Base(ix, h) /\ h # id
      /\ new.placed = ix.placed /\ new.entries = ix.entries
  BY HolderIs DEF IndexOK, NamesOK, SameTree, IsAlias
<1>2. \A x : x # h => Spot(new, x) = Spot(ix, x)
  BY <1>1 DEF Spot, Shown, IsAlias
<1>3. \A x : Base(new, x) = Base(ix, x)
  BY <1>1 DEF Base
<1>4. Spot(ix, id) = slot
  BY <1>1 DEF Spot, Shown, IsAlias, Base
<1>5. Shaped(new)
  BY <1>1 DEF IndexOK, Shaped, Ids
<1>6. CountsOK(new)
  BY <1>1 DEF CountsOK, IndexOK, Aliases
<1>7. NamesOK(new, W \ {id})
  BY <1>1, <1>2, <1>4 DEF IndexOK, NamesOK
<1>8. HeldOK(new, W \ {id}, {})
  <2> SUFFICES ASSUME NEW x \in DOMAIN new.placed \ (W \ {id})
               PROVE  /\ Base(new, x) \in DOMAIN new.slots
                      /\ new.entries[new.slots[Base(new, x)]].name = new.entries[x].name
    BY DEF HeldOK
  <2>1. CASE x = id
    BY <1>1, <1>3, <2>1
  <2>2. CASE x # id
    <3>1. x \in DOMAIN ix.placed \ W
      BY <1>1, <2>2
    <3>2. /\ Base(ix, x) \in DOMAIN ix.slots
          /\ ix.entries[ix.slots[Base(ix, x)]].name = ix.entries[x].name
      BY <3>1 DEF IndexOK, HeldOK
    <3>3. Base(ix, x) # slot
      <4> SUFFICES ASSUME Base(ix, x) = slot PROVE FALSE
        OBVIOUS
      <4>1. ix.entries[h].name = ix.entries[x].name /\ ix.placed[x] = ix.placed[h]
        BY <3>2 DEF Base, Spot
      <4>2. Base(ix, h) = slot
        BY <4>1 DEF Base
      <4> QED BY <1>1, <4>2
    <3> QED BY <1>1, <1>3, <3>2, <3>3
  <2> QED BY <2>1, <2>2
<1> QED BY <1>5, <1>6, <1>7, <1>8 DEF IndexOK

LEMMA SwapKeeps ==
  ASSUME NEW ix, NEW W, IndexOK(ix, W, {}), NEW id \in W, id \in DOMAIN ix.placed,
         NEW slot, slot = Base(ix, id), slot \in DOMAIN ix.slots, IsAlias(ix, ix.slots[slot]),
         NEW mid, mid = Own(ix, ix.placed[id], id),
         NEW new, new = Numbered(mid, ix.placed[id], ix.slots[slot])
  PROVE  LET h == ix.slots[slot]  hbase == Base(ix, h) IN
         /\ IndexOK(new, W \ {id}, {}) /\ SameTree(ix, new)
         /\ SameTree(ix, mid) /\ mid.display = ix.display
         /\ hbase \in DOMAIN mid.slots /\ mid.slots[hbase] \notin {None, h} /\ ~IsAlias(mid, mid.slots[hbase])
         /\ ix.placed[h] = ix.placed[id] /\ h # None /\ h # id
<1> DEFINE h == ix.slots[slot]
           hbase == Base(ix, h)
           g == ix.slots[hbase]
           pk == ix.placed[id]
<1>1. id \notin DOMAIN ix.display /\ id \in Ids(ix) /\ id # None
  BY DEF IndexOK, NamesOK, Shaped
<1>2. /\ h \in DOMAIN ix.placed \ W /\ h \in Ids(ix) /\ h # None /\ slot = Spot(ix, h)
      /\ h \in DOMAIN ix.display /\ slot # Base(ix, h) /\ h # id
  BY HolderIs DEF IsAlias
<1>3. ix.placed[h] = pk /\ slot = <<pk, ix.entries[id].name>> /\ hbase = <<pk, ix.entries[h].name>>
  BY <1>2 DEF Spot, Base
<1>4. hbase \in DOMAIN ix.slots /\ ix.entries[g].name = ix.entries[h].name
  BY <1>2 DEF IndexOK, HeldOK
<1>5. g \in DOMAIN ix.placed \ W /\ g # None /\ hbase = Spot(ix, g) /\ (IsAlias(ix, g) => hbase # Base(ix, g))
  <2> HIDE DEF hbase
  <2> QED BY <1>4, HolderIs
<1>6. ~IsAlias(ix, g) /\ g # h
  <2>1. ix.placed[g] = pk
    <3> HIDE DEF g, hbase, pk
    <3> QED BY <1>3, <1>5 DEF Spot
  <2>2. Base(ix, g) = hbase
    BY <1>3, <1>4, <2>1 DEF Base
  <2> QED BY <1>2, <1>5, <2>2 DEF IsAlias
<1>7. mid = [ix EXCEPT !.slots = With(ix.slots, slot, id)]
  BY <1>1, <1>3, OwnIs DEF IndexOK, Shaped
<1>8. /\ SameTree(ix, mid) /\ IsIndex(mid) /\ mid.display = ix.display /\ mid.aliased = ix.aliased
      /\ mid.slots = With(ix.slots, slot, id)
  BY <1>7 DEF IndexOK, Shaped, IsIndex, SameTree
<1>9. /\ DOMAIN mid.slots = DOMAIN ix.slots /\ mid.slots[slot] = id
      /\ \A s \in DOMAIN ix.slots : s # slot => mid.slots[s] = ix.slots[s]
  BY <1>8 DEF With
<1> HIDE DEF h, g, hbase, pk
<1>10. hbase \in DOMAIN mid.slots /\ mid.slots[hbase] = g
  BY <1>2, <1>4, <1>9 DEF hbase, g
<1>11. PICK name : \E n \in Nat : IsNumbered(mid, pk, h, name, n, new)
  <2>1. IsFiniteSet(DOMAIN mid.slots) /\ \A s \in DOMAIN ix.slots : ix.slots[s] # None
    BY <1>9, SlotsFinite DEF IndexOK
  <2>2. mid.entries[h].name \in Seq(Int)
    BY <1>2, <1>8 DEF SameTree, IndexOK, Shaped
  <2>3. \A s \in DOMAIN mid.slots : mid.slots[s] # None
    BY <1>1, <1>9, <2>1
  <2>4. new = Numbered(mid, pk, h)
    BY DEF pk, h
  <2> QED BY <1>8, <2>1, <2>2, <2>3, <2>4, NumberedIs
<1>12. PICK n \in Nat : IsNumbered(mid, pk, h, name, n, new)
  BY <1>11
<1> DEFINE spot == <<pk, name>>
<1>13. /\ new.entries = mid.entries /\ new.placed = mid.placed /\ IsIndex(new)
       /\ new.slots = With(mid.slots, spot, h)
       /\ new.display = With(mid.display, h, [name |-> name, number |-> n])
       /\ new.aliased = mid.aliased /\ spot \notin DOMAIN mid.slots
  <2>1. h \in DOMAIN mid.display
    BY <1>2, <1>8
  <2> HIDE <1>7, <1>8
  <2> QED BY <1>8, <1>12, <2>1 DEF IsNumbered, IsIndex
<1> HIDE DEF spot
<1>14. /\ DOMAIN new.slots = DOMAIN mid.slots \cup {spot} /\ new.slots[spot] = h
       /\ \A s \in DOMAIN mid.slots : new.slots[s] = mid.slots[s]
  BY <1>13 DEF With
<1>15. /\ DOMAIN new.display = DOMAIN mid.display \cup {h}
       /\ new.display[h] = [name |-> name, number |-> n]
       /\ \A x \in DOMAIN mid.display : x # h => new.display[x] = mid.display[x]
  BY <1>13 DEF With
<1>16. new.display[h].name = name /\ new.display[h].number = n
  BY <1>15
<1>17. name # ix.entries[h].name
  BY <1>3, <1>10, <1>13 DEF spot
<1>18. Spot(new, h) = spot
  BY <1>2, <1>3, <1>8, <1>13, <1>15, <1>16 DEF Spot, Shown, IsAlias, SameTree, spot
<1>19. IndexOK(new, W \ {id}, {})
  <2>1. SameTree(ix, new)
    BY <1>8, <1>13 DEF SameTree
  <2>2. DOMAIN new.display = DOMAIN ix.display
    BY <1>2, <1>8, <1>15
  <2>3. ix.slots[slot] = h /\ h \in DOMAIN ix.display /\ slot = Spot(ix, h)
    BY <1>2 DEF h
  <2>4. spot \notin DOMAIN ix.slots /\ DOMAIN new.slots = DOMAIN ix.slots \cup {spot} /\ new.slots[slot] = id
    BY <1>9, <1>13, <1>14
  <2>5. \A s \in DOMAIN ix.slots : s # slot => new.slots[s] = ix.slots[s]
    BY <1>9, <1>14
  <2>6. new.aliased = ix.aliased /\ \A x \in DOMAIN ix.display : x # h => new.display[x] = ix.display[x]
    BY <1>8, <1>13, <1>15
  <2>7. new.display[h].number \in Nat /\ new.display[h].name # ix.entries[h].name
    BY <1>16, <1>17
  <2>8. IsSwap(ix, id, h, slot, spot, new)
    BY <1>13, <1>14, <1>18, <2>1, <2>2, <2>3, <2>4, <2>5, <2>6, <2>7 DEF IsSwap
  <2> QED BY <2>8, SwapIs
<1> QED
  <2>1. SameTree(ix, new) /\ ~IsAlias(mid, g)
    BY <1>6, <1>8, <1>13 DEF SameTree, IsAlias
  <2> QED BY <1>2, <1>3, <1>5, <1>6, <1>8, <1>10, <1>19, <2>1 DEF h, hbase, pk

-----------------------------------------------------------------------------
(* place_name, compact, and the places they leave. *)

\* Two turns are enough: the entry, and the alias that had its name.
LEMMA PlaceTurns ==
  ASSUME NEW ix, NEW pk, NEW id, IsFiniteSet(DOMAIN ix.display),
         NEW t1, t1 = PlaceTurn([ix |-> ix, id |-> id], pk),
         NEW t2, t2 = PlaceTurn(t1, pk), t2.id = None, t1.id # None => DOMAIN ix.display # {}
  PROVE  PlaceName(ix, pk, id) = t2.ix
<1> DEFINE t0 == [ix |-> ix, id |-> id]
           c  == Cardinality(DOMAIN ix.display) + 1
           S  == {t0, t1, t2}
           F  == [t \in S |-> PlaceTurn(t, pk)]
           Rule(f) == [n \in 0 .. c |-> IF n = 0 THEN t0 ELSE PlaceTurn(f[n - 1], pk)]
<1>1. \A t : t.id = None => PlaceTurn(t, pk) = t
  BY DEF PlaceTurn
<1>2. PlaceTurn(t0, pk) = t1 /\ PlaceTurn(t1, pk) = t2 /\ PlaceTurn(t2, pk) = t2
  BY <1>1
<1>3. Cardinality(DOMAIN ix.display) \in Nat /\ (t1.id # None => Cardinality(DOMAIN ix.display) # 0)
  BY FS_CardinalityType, FS_EmptySet
<1>4. c \in Nat /\ c >= 1 /\ (t1.id # None => c >= 2)
  BY <1>3
<1>5. t1.id = None => t1 = t2
  BY <1>1
<1> HIDE DEF t0, c
<1>6. F \in [S -> S] /\ t0 \in S
  BY <1>2
<1>7. F[t0] = t1 /\ F[t1] = t2 /\ F[t2] = t2
  BY <1>2
<1>8. PICK f : IsTurns(f, c, S, t0, F)
  <2> HIDE DEF F, S
  <2> QED BY <1>4, <1>6, TurnsExist
<1>9. f \in [0 .. c -> S] /\ \A n \in 0 .. c : f[n] = IF n = 0 THEN t0 ELSE F[f[n - 1]]
  <2> HIDE DEF F, S
  <2> QED BY <1>8 DEF IsTurns
<1>10. f = Rule(f)
  <2>1. ASSUME NEW n \in 0 .. c PROVE f[n] = IF n = 0 THEN t0 ELSE PlaceTurn(f[n - 1], pk)
    <3>1. CASE n = 0
      BY <1>9, <3>1
    <3>2. CASE n # 0
      <4>1. n - 1 \in 0 .. c
        BY <1>4, <3>2
      <4>2. f[n - 1] \in S /\ f[n] = F[f[n - 1]]
        <5> HIDE DEF F, S
        <5> QED BY <1>9, <3>2, <4>1
      <4> QED BY <3>2, <4>2
    <3> QED BY <3>1, <3>2
  <2> HIDE DEF F
  <2> QED BY <1>9, <2>1
<1> DEFINE turn == CHOOSE g : g = Rule(g)
<1>11. PlaceName(ix, pk, id) = turn[c].ix
  BY DEF PlaceName, t0, c
<1>12. turn = Rule(turn)
  <2> HIDE DEF Rule
  <2> QED BY <1>10
<1> HIDE DEF turn
<1>13. turn[0] = t0 /\ \A n \in 0 .. c : n # 0 => turn[n] = PlaceTurn(turn[n - 1], pk)
  <2>1. ASSUME NEW n \in 0 .. c PROVE turn[n] = IF n = 0 THEN t0 ELSE PlaceTurn(turn[n - 1], pk)
    <3>1. Rule(turn)[n] = IF n = 0 THEN t0 ELSE PlaceTurn(turn[n - 1], pk)
      OBVIOUS
    <3> HIDE DEF Rule
    <3> QED BY <1>12, <3>1
  <2>2. 0 \in 0 .. c
    BY <1>4
  <2> QED BY <2>1, <2>2
<1>14. turn[1] = t1
  BY <1>2, <1>4, <1>13
<1> DEFINE N == {n \in Nat : n <= c /\ n >= 2 => turn[n] = t2}
<1>15. 0 \in N
  OBVIOUS
<1>16. ASSUME NEW n \in Nat, n \in N PROVE n + 1 \in N
  <2> SUFFICES ASSUME n + 1 <= c, n + 1 >= 2 PROVE turn[n + 1] = t2
    OBVIOUS
  <2>1. n + 1 \in 0 .. c /\ n + 1 # 0 /\ (n + 1) - 1 = n
    BY <1>4
  <2>2. turn[n + 1] = PlaceTurn(turn[n], pk)
    BY <1>13, <2>1
  <2>3. turn[n] \in {t1, t2}
    BY <1>14, <1>16, <1>4
  <2> QED BY <1>2, <2>2, <2>3
<1>17. Nat \subseteq N
  <2> HIDE DEF N
  <2> QED BY <1>15, <1>16, EveryNat
<1>18. turn[c] = t2
  <2>1. CASE c >= 2
    BY <1>4, <1>17, <2>1
  <2>2. CASE c = 1
    BY <1>4, <1>5, <1>14, <2>2
  <2> QED BY <1>4, <2>1, <2>2
<1> QED BY <1>11, <1>18

\* An entry that is placed gets a name, and nothing else changes.
LEMMA PlaceNameKeeps ==
  ASSUME NEW ix, NEW W, IndexOK(ix, W, {}), NEW id \in W, id \in DOMAIN ix.placed
  PROVE  /\ IndexOK(PlaceName(ix, ix.placed[id], id), W \ {id}, {})
         /\ SameTree(ix, PlaceName(ix, ix.placed[id], id))
<1> DEFINE pk == ix.placed[id]
           slot == <<pk, ix.entries[id].name>>
           h == ix.slots[slot]
           t0 == [ix |-> ix, id |-> id]
           t1 == PlaceTurn(t0, pk)
           t2 == PlaceTurn(t1, pk)
<1>1. id \in Ids(ix) /\ id # None
  BY DEF IndexOK, Shaped
<1>2. IsFiniteSet(DOMAIN ix.display)
  BY FS_Subset DEF IndexOK, NamesOK, Shaped
<1>3. \A t : t.id = None => PlaceTurn(t, pk) = t
  BY DEF PlaceTurn
<1>4. CASE slot \notin DOMAIN ix.slots
  <2>1. t1 = [ix |-> Own(ix, pk, id), id |-> None]
    BY <1>1, <1>4 DEF PlaceTurn, FindChild
  <2>2. t2 = t1
    BY <1>3, <2>1
  <2>3. PlaceName(ix, pk, id) = Own(ix, pk, id)
    <3>1. t1.id = None /\ t2.id = None /\ t2.ix = Own(ix, pk, id)
      BY <2>1, <2>2
    <3> HIDE DEF t1, t2
    <3> QED BY <1>2, <3>1, PlaceTurns DEF t1, t2
  <2> QED BY <1>4, <2>3, OwnKeeps
<1>5. CASE slot \in DOMAIN ix.slots /\ ~IsAlias(ix, h)
  <2>1. h # None
    BY <1>5, HolderIs
  <2>2. FindChild(ix, pk, ix.entries[id].name) = h
    BY <1>5 DEF FindChild
  <2>3. t1 = [ix |-> Numbered(ix, pk, id), id |-> None]
    BY <1>1, <1>5, <2>1, <2>2 DEF PlaceTurn
  <2>4. t2 = t1
    BY <1>3, <2>3
  <2>5. PlaceName(ix, pk, id) = Numbered(ix, pk, id)
    <3>1. t1.id = None /\ t2.id = None /\ t2.ix = Numbered(ix, pk, id)
      BY <2>3, <2>4
    <3> HIDE DEF t1, t2
    <3> QED BY <1>2, <3>1, PlaceTurns DEF t1, t2
  <2> QED BY <1>5, <2>5, NumberedKeeps
<1>6. CASE slot \in DOMAIN ix.slots /\ IsAlias(ix, h)
  <2> DEFINE mid == Own(ix, pk, id)
             new == Numbered(mid, pk, h)
  <2>0. slot = Base(ix, id)
    BY DEF Base
  <2>1. /\ IndexOK(new, W \ {id}, {}) /\ SameTree(ix, new)
        /\ SameTree(ix, mid) /\ mid.display = ix.display
        /\ Base(ix, h) \in DOMAIN mid.slots
        /\ mid.slots[Base(ix, h)] \notin {None, h} /\ ~IsAlias(mid, mid.slots[Base(ix, h)])
        /\ ix.placed[h] = pk /\ h # None /\ h # id
    <3> HIDE DEF slot
    <3> QED BY <1>6, <2>0, SwapKeeps
  <2> HIDE DEF mid, new
  <2>2. t1 = [ix |-> mid, id |-> h]
    <3>1. FindChild(ix, pk, ix.entries[id].name) = h
      BY <1>6 DEF FindChild
    <3> QED BY <1>1, <1>6, <2>1, <3>1 DEF PlaceTurn, mid
  <2>3. FindChild(mid, pk, mid.entries[h].name) = mid.slots[Base(ix, h)]
    BY <2>1 DEF FindChild, Base, SameTree
  <2>4. t2 = [ix |-> new, id |-> None]
    BY <2>1, <2>2, <2>3 DEF PlaceTurn, new
  <2>5. PlaceName(ix, pk, id) = new
    <3>1. t1.id = h /\ t2.id = None /\ t2.ix = new /\ DOMAIN ix.display # {}
      BY <1>6, <2>2, <2>4 DEF IsAlias
    <3> HIDE DEF t1, t2
    <3> QED BY <1>2, <3>1, PlaceTurns DEF t1, t2
  <2> QED BY <2>1, <2>5
<1> QED BY <1>4, <1>5, <1>6

\* The name of one entry is cleared.  Another entry may be without its name then, if it is
\* the same.
LEMMA ClearKeeps ==
  ASSUME NEW ix, NEW W, NEW B, IndexOK(ix, W, B), NEW id \in DOMAIN ix.placed \ W, Base(ix, id) \in B,
         NEW new, new = Unalias(FreeSlot(ix, ix.placed[id], Shown(ix, id), id), ix.placed[id], id)
  PROVE  IndexOK(new, W \cup {id}, B) /\ SameTree(ix, new)
<1> DEFINE pk == ix.placed[id]
           spot == <<pk, Shown(ix, id)>>
<1>1. spot = Spot(ix, id) /\ spot \in DOMAIN ix.slots /\ ix.slots[spot] = id
  BY DEF Spot, IndexOK, NamesOK
<1>2. FindChild(ix, pk, Shown(ix, id)) = id
  BY <1>1 DEF FindChild
<1>3. /\ SameTree(ix, new) /\ IsIndex(new) /\ new.slots = Minus(ix.slots, spot)
      /\ new.display = IF id \in DOMAIN ix.display THEN Minus(ix.display, id) ELSE ix.display
      /\ new.aliased = IF id \in DOMAIN ix.display
                       THEN With(ix.aliased, pk, IF AliasedIn(ix, pk) = 0 THEN 0 ELSE ix.aliased[pk] - 1)
                       ELSE ix.aliased
  <2>1. IsCleared(ix, pk, id, Shown(ix, id), new)
    BY ClearIs DEF IndexOK, Shaped
  <2>2. IsIndex(ix)
    BY DEF IndexOK, Shaped
  <2> HIDE DEF spot, pk
  <2>3. /\ SameTree(ix, new) /\ IsIndex(new)
        /\ new.slots = IF FindChild(ix, pk, Shown(ix, id)) = id THEN Minus(ix.slots, <<pk, Shown(ix, id)>>) ELSE ix.slots
        /\ new.display = IF id \in DOMAIN ix.display THEN Minus(ix.display, id) ELSE ix.display
        /\ new.aliased = IF id \in DOMAIN ix.display
                         THEN With(ix.aliased, pk, IF AliasedIn(ix, pk) = 0 THEN 0 ELSE ix.aliased[pk] - 1)
                         ELSE ix.aliased
    BY <2>1, <2>2 DEF IsCleared, IsIndex, SameTree
  <2> QED BY <1>2, <2>3 DEF spot
<1>4. pk = ix.placed[id]
  OBVIOUS
<1> HIDE DEF spot, pk
<1>5. DOMAIN new.slots = DOMAIN ix.slots \ {spot} /\ \A s \in DOMAIN new.slots : new.slots[s] = ix.slots[s]
  BY <1>3 DEF Minus, Restrict
<1>6. /\ DOMAIN new.display = DOMAIN ix.display \ {id}
      /\ \A x \in DOMAIN new.display : new.display[x] = ix.display[x]
  <2>1. CASE id \in DOMAIN ix.display
    BY <1>3, <2>1 DEF Minus, Restrict
  <2>2. CASE id \notin DOMAIN ix.display
    BY <1>3, <2>2
  <2> QED BY <2>1, <2>2
<1>7. \A x : x # id => Spot(new, x) = Spot(ix, x)
  BY <1>3, <1>6 DEF Spot, Shown, IsAlias, SameTree
<1>8. \A x : Base(new, x) = Base(ix, x)
  BY <1>3 DEF Base, SameTree
<1>9. Shaped(new)
  BY <1>3 DEF IndexOK, Shaped, SameTree, Ids
<1>10. CountsOK(new)
  <2>1. CASE id \notin DOMAIN ix.display
    <3>1. DOMAIN new.display = DOMAIN ix.display /\ new.aliased = ix.aliased
      BY <1>3, <1>6, <2>1
    <3>2. \A k : Aliases(new, k) = Aliases(ix, k)
      BY <1>3, <3>1 DEF Aliases, SameTree
    <3> QED BY <1>3, <3>1, <3>2 DEF CountsOK, IndexOK, SameTree
  <2>2. CASE id \in DOMAIN ix.display
    <3>1. id \in Aliases(ix, pk) /\ Aliases(new, pk) = Aliases(ix, pk) \ {id}
      BY <1>3, <1>4, <1>6, <2>2 DEF Aliases, SameTree
    <3>2. \A k : k # pk => Aliases(new, k) = Aliases(ix, k)
      BY <1>3, <1>4, <1>6 DEF Aliases, SameTree
    <3>3. /\ IsFiniteSet(Aliases(ix, pk)) /\ Cardinality(Aliases(ix, pk)) \in Nat
          /\ AliasedIn(ix, pk) = Cardinality(Aliases(ix, pk))
      BY CountIs DEF IndexOK
    <3>4. Cardinality(Aliases(new, pk)) = Cardinality(Aliases(ix, pk)) - 1
      BY <3>1, <3>3, FS_RemoveElement
    <3>5. Cardinality(Aliases(ix, pk)) # 0
      BY <3>1, <3>3, FS_EmptySet
    <3>6. pk \in DOMAIN ix.aliased /\ ix.aliased[pk] = Cardinality(Aliases(ix, pk))
      BY <1>4, <2>2 DEF IndexOK, CountsOK
    <3>7. new.aliased = With(ix.aliased, pk, Cardinality(Aliases(new, pk)))
      BY <1>3, <2>2, <3>3, <3>4, <3>5, <3>6
    <3>8. /\ DOMAIN new.aliased = DOMAIN ix.aliased /\ new.aliased[pk] = Cardinality(Aliases(new, pk))
          /\ \A k \in DOMAIN ix.aliased : k # pk => new.aliased[k] = ix.aliased[k]
      BY <3>6, <3>7 DEF With
    <3>9. \A k \in DOMAIN new.aliased : new.aliased[k] = Cardinality(Aliases(new, k))
      BY <3>2, <3>8 DEF IndexOK, CountsOK
    <3>10. \A x \in DOMAIN new.display : new.placed[x] \in DOMAIN new.aliased
      BY <1>3, <1>6, <3>8 DEF IndexOK, CountsOK, SameTree
    <3> QED BY <3>9, <3>10 DEF CountsOK
  <2> QED BY <2>1, <2>2
<1>11. NamesOK(new, W \cup {id})
  BY <1>1, <1>3, <1>5, <1>6, <1>7 DEF IndexOK, NamesOK, SameTree
<1>12. HeldOK(new, W \cup {id}, B)
  <2> SUFFICES ASSUME NEW x \in DOMAIN new.placed \ (W \cup {id}), Base(new, x) \notin B
               PROVE  /\ Base(new, x) \in DOMAIN new.slots
                      /\ new.entries[new.slots[Base(new, x)]].name = new.entries[x].name
    BY DEF HeldOK
  <2>1. /\ Base(ix, x) \in DOMAIN ix.slots
        /\ ix.entries[ix.slots[Base(ix, x)]].name = ix.entries[x].name
    BY <1>3, <1>8 DEF IndexOK, HeldOK, SameTree
  <2>2. Base(ix, x) # spot
    <3> SUFFICES ASSUME Base(ix, x) = spot PROVE FALSE
      OBVIOUS
    <3>1. ix.entries[id].name = ix.entries[x].name /\ ix.placed[x] = ix.placed[id]
      BY <1>1, <2>1 DEF Base, Spot
    <3>2. Base(ix, x) = Base(ix, id)
      BY <3>1 DEF Base
    <3> QED BY <1>8, <3>2
  <2> QED BY <1>3, <1>5, <1>8, <2>1, <2>2 DEF SameTree
<1> QED BY <1>3, <1>9, <1>10, <1>11, <1>12 DEF IndexOK

\* The steps that folds take.
Do(how, with, id, ix) ==
  IF how = "clear" THEN Unalias(FreeSlot(ix, with, Shown(ix, id), id), with, id)
  ELSE IF how = "place" THEN PlaceName(ix, with, id)
  ELSE IF how = "again" THEN Attach(Detach(ix, id), id)
  ELSE IF how = "insert" THEN InsertEntry(ix, id, with[id])
  ELSE RemoveEntry(ix, id)

DoRule(f, D, C, base, how, with, item) ==
  [s \in SUBSET D |-> IF s = {} THEN base ELSE Do(how, with, item[C[s]], f[s \ {C[s]}])]

IsDone(D, C, base, how, with, item) == \E f : f = DoRule(f, D, C, base, how, with, item)

LEMMA DoExists ==
  ASSUME NEW D, IsFiniteSet(D), NEW C, \A s \in SUBSET D : s # {} => C[s] \in s,
         NEW base, NEW how, NEW with, NEW item
  PROVE  IsDone(D, C, base, how, with, item)
<1> DEFINE Sub(n) == {s \in SUBSET D : Cardinality(s) <= n}
           Then(f, s) == IF s = {} THEN base ELSE Do(how, with, item[C[s]], f[s \ {C[s]}])
           Is(f, n) == \A s \in Sub(n) : f[s] = Then(f, s)
           N == {n \in Nat : \E f : Is(f, n)}
<1>1. \A s \in SUBSET D : IsFiniteSet(s) /\ Cardinality(s) \in Nat
  BY FS_Subset, FS_CardinalityType
<1>2. 0 \in N
  <2> DEFINE f == [s \in Sub(0) |-> base]
  <2>1. \A s \in Sub(0) : s = {}
    BY <1>1, FS_EmptySet
  <2>2. Is(f, 0)
    BY <2>1
  <2> QED BY <2>2
<1>3. ASSUME NEW n \in Nat, n \in N PROVE n + 1 \in N
  <2>1. PICK f : Is(f, n)
    BY <1>3
  <2> DEFINE g == [s \in Sub(n + 1) |-> Then(f, s)]
  <2>2. ASSUME NEW s \in Sub(n + 1), s # {} PROVE s \ {C[s]} \in Sub(n)
    <3>1. s \in SUBSET D /\ Cardinality(s) <= n + 1 /\ C[s] \in s
      BY <2>2
    <3>2. Cardinality(s \ {C[s]}) = Cardinality(s) - 1 /\ Cardinality(s) \in Nat
      BY <1>1, <3>1, FS_RemoveElement
    <3> QED BY <3>1, <3>2
  <2>3. \A s \in Sub(n) : s \in Sub(n + 1) /\ g[s] = f[s]
    <3>1. \A s \in Sub(n) : s \in Sub(n + 1)
      BY <1>1
    <3>2. \A s \in Sub(n) : f[s] = Then(f, s)
      BY <2>1
    <3> QED BY <3>1, <3>2, Zenon
  <2>4. ASSUME NEW s \in Sub(n + 1) PROVE g[s] = Then(g, s)
    BY <2>2, <2>3
  <2>5. \E e : Is(e, n + 1)
    BY <2>4, Zenon
  <2> HIDE DEF Is, Sub
  <2> QED BY <2>5
<1>4. Nat \subseteq N
  <2> HIDE DEF N
  <2> QED BY <1>2, <1>3, EveryNat
<1>5. Sub(Cardinality(D)) = SUBSET D
  BY <1>1, FS_Subset
<1>6. PICK f : Is(f, Cardinality(D))
  <2>1. Cardinality(D) \in N
    BY <1>1, <1>4
  <2> QED BY <2>1
<1> DEFINE g == [s \in SUBSET D |-> f[s]]
<1>7. ASSUME NEW s \in SUBSET D PROVE g[s] = Then(g, s)
  <2>1. f[s] = Then(f, s)
    BY <1>5, <1>6
  <2>2. s # {} => s \ {C[s]} \in SUBSET D
    OBVIOUS
  <2> QED BY <2>1, <2>2
<1>8. g = DoRule(g, D, C, base, how, with, item)
  <2> HIDE DEF g
  <2>1. g = [s \in SUBSET D |-> Then(g, s)]
    BY <1>7 DEF g
  <2> QED BY <2>1 DEF DoRule
<1> QED BY <1>8 DEF IsDone

\* The last by number, and by id among those of one number.
IsLast(num, s, y) == \A x \in s \ {y} : num[x] < num[y] \/ (num[x] = num[y] /\ x < y)

LEMMA LastExists ==
  ASSUME NEW D, IsFiniteSet(D), D \subseteq Nat, NEW num, \A x \in D : num[x] \in Nat,
         NEW s \in SUBSET D, s # {}
  PROVE  \E y \in s : IsLast(num, s, y)
<1> DEFINE Is(t, y) == \A x \in t \ {y} : num[x] < num[y] \/ (num[x] = num[y] /\ x < y)
           P == {t \in SUBSET D : t = {} \/ \E y \in t : Is(t, y)}
<1>1. {} \in P
  OBVIOUS
<1>2. ASSUME NEW t \in SUBSET D, t # {}, \A x \in t : t \ {x} \in P PROVE t \in P
  <2>1. PICK x \in t : TRUE
    BY <1>2
  <2>2. CASE t \ {x} = {}
    <3>1. Is(t, x)
      BY <2>2
    <3> QED BY <2>1, <3>1
  <2>3. CASE t \ {x} # {}
    <3>1. PICK y \in t \ {x} : Is(t \ {x}, y)
      BY <1>2, <2>1, <2>3
    <3>2. x \in Nat /\ y \in Nat /\ x # y /\ num[x] \in Nat /\ num[y] \in Nat
      BY <1>2, <2>1, <3>1
    <3>3. CASE num[x] < num[y] \/ (num[x] = num[y] /\ x < y)
      <4>1. Is(t, y)
        BY <3>1, <3>3
      <4> QED BY <3>1, <4>1
    <3>4. CASE ~(num[x] < num[y] \/ (num[x] = num[y] /\ x < y))
      <4>1. num[y] < num[x] \/ (num[y] = num[x] /\ y < x)
        BY <3>2, <3>4
      <4>2. ASSUME NEW z \in t \ {x} PROVE num[z] < num[x] \/ (num[z] = num[x] /\ z < x)
        <5>1. z \in Nat /\ num[z] \in Nat
          BY <1>2
        <5>2. z = y \/ num[z] < num[y] \/ (num[z] = num[y] /\ z < y)
          BY <3>1
        <5> QED BY <3>2, <4>1, <5>1, <5>2
      <4>3. Is(t, x)
        BY <4>2
      <4> QED BY <2>1, <4>3
    <3> QED BY <3>3, <3>4
  <2> QED BY <2>2, <2>3
<1>3. SUBSET D \subseteq P
  <2> HIDE DEF P
  <2> QED BY <1>1, <1>2, FiniteInduction
<1> QED BY <1>3 DEF IsLast

\* The siblings of one name are cleared and placed again.
LEMMA CompactKeeps ==
  ASSUME NEW ix, NEW pk, NEW base, NEW B \in SUBSET {<<pk, base>>}, IndexOK(ix, {}, B)
  PROVE  IndexOK(Compact(ix, pk, base), {}, {}) /\ SameTree(ix, Compact(ix, pk, base))
<1> DEFINE D == {id \in Children(ix, pk) : ix.entries[id].name = base}
           Number(id) == IF IsAlias(ix, id) THEN ix.display[id].number ELSE 1
           LastOf(s) == CHOOSE y \in s : \A x \in s \ {y} :
                          Number(x) < Number(y) \/ (Number(x) = Number(y) /\ x < y)
           C == [s \in SUBSET D |-> LastOf(s)]
           same == [id \in D |-> id]
           Clear(f) == [s \in SUBSET D |-> IF s = {} THEN ix
                          ELSE Unalias(FreeSlot(f[s \ {LastOf(s)}], pk, Shown(f[s \ {LastOf(s)}], LastOf(s)), LastOf(s)),
                                       pk, LastOf(s))]
           clear == CHOOSE f : f = Clear(f)
           Place(f) == [s \in SUBSET D |-> IF s = {} THEN clear[D]
                          ELSE PlaceName(f[s \ {LastOf(s)}], pk, LastOf(s))]
           place == CHOOSE f : f = Place(f)
<1>1. Compact(ix, pk, base) = place[D]
  BY Zenon DEF Compact, InOrder, MapThenFoldSet
<1>2. /\ IsFiniteSet(D) /\ D \subseteq Nat
      /\ \A id \in D : id \in DOMAIN ix.placed /\ ix.placed[id] = pk /\ Base(ix, id) = <<pk, base>>
  <2>1. D \subseteq Ids(ix)
    BY DEF Children, IndexOK, Shaped
  <2> QED BY <2>1, FS_Subset DEF Children, IndexOK, Shaped, Base
<1>3. \A s \in SUBSET D : s # {} => LastOf(s) \in s
  <2> DEFINE num == [id \in D |-> Number(id)]
  <2>1. \A id \in D : num[id] \in Nat
    BY DEF IndexOK, NamesOK, IsAlias
  <2> SUFFICES ASSUME NEW s \in SUBSET D, s # {} PROVE LastOf(s) \in s
    OBVIOUS
  <2>2. \E y \in s : IsLast(num, s, y)
    <3> HIDE DEF num, D
    <3> QED BY <1>2, <2>1, LastExists
  <2>3. \A x \in s : num[x] = Number(x)
    OBVIOUS
  <2>4. \E y \in s : \A x \in s \ {y} : Number(x) < Number(y) \/ (Number(x) = Number(y) /\ x < y)
    <3> HIDE DEF num, D, Number
    <3> QED BY <2>2, <2>3 DEF IsLast
  <2> HIDE DEF num, D, Number
  <2> QED BY <2>4
<1> HIDE DEF LastOf, D
<1>4. \A s \in SUBSET D : s # {} => C[s] \in s /\ C[s] = LastOf(s) /\ same[C[s]] = LastOf(s)
  BY <1>3
<1>5. clear = Clear(clear)
  <2>1. PICK f : f = DoRule(f, D, C, ix, "clear", pk, same)
    <3>1. IsDone(D, C, ix, "clear", pk, same)
      <4> HIDE DEF C, same
      <4> QED BY <1>2, <1>4, DoExists
    <3> HIDE DEF C, same
    <3> QED BY <3>1 DEF IsDone
  <2>2. f = Clear(f)
    <3>1. \A s \in SUBSET D : s # {} =>
            Do("clear", pk, same[C[s]], f[s \ {C[s]}]) =
              Unalias(FreeSlot(f[s \ {LastOf(s)}], pk, Shown(f[s \ {LastOf(s)}], LastOf(s)), LastOf(s)), pk, LastOf(s))
      <4> HIDE DEF C, same
      <4> QED BY <1>4 DEF Do
    <3>2. DoRule(f, D, C, ix, "clear", pk, same) = Clear(f)
      <4> HIDE DEF C, same
      <4> QED BY <3>1 DEF DoRule
    <3> QED BY <2>1, <3>2
  <2> HIDE DEF Clear
  <2> QED BY <2>2
<1> HIDE DEF clear
<1>6. IndexOK(clear[D], D, {}) /\ SameTree(ix, clear[D])
  <2> DEFINE P == {s \in SUBSET D : IndexOK(clear[s], s, {<<pk, base>>}) /\ SameTree(ix, clear[s])}
  <2>0. \A s \in SUBSET D : clear[s] = Clear(clear)[s]
    <3> HIDE DEF Clear
    <3> QED BY <1>5
  <2>1. clear[{}] = ix
    BY <2>0
  <2>2. {} \in P
    BY <2>1 DEF IndexOK, HeldOK, SameTree
  <2>3. ASSUME NEW s \in SUBSET D, s # {}, \A x \in s : s \ {x} \in P PROVE s \in P
    <3> DEFINE x == LastOf(s)
               acc == clear[s \ {x}]
    <3>1. x \in s /\ clear[s] = Unalias(FreeSlot(acc, pk, Shown(acc, x), x), pk, x)
      BY <1>3, <2>0, <2>3
    <3>2. IndexOK(acc, s \ {x}, {<<pk, base>>}) /\ SameTree(ix, acc)
      BY <2>3, <3>1
    <3> HIDE DEF acc, x
    <3>3. x \in DOMAIN acc.placed \ (s \ {x}) /\ acc.placed[x] = pk /\ Base(acc, x) = <<pk, base>>
      BY <1>2, <3>1, <3>2 DEF SameTree, Base
    <3>4. IndexOK(clear[s], (s \ {x}) \cup {x}, {<<pk, base>>}) /\ SameTree(acc, clear[s])
      BY <3>1, <3>2, <3>3, ClearKeeps
    <3>5. (s \ {x}) \cup {x} = s
      BY <3>1
    <3> QED BY <3>2, <3>4, <3>5 DEF SameTree
  <2>4. SUBSET D \subseteq P
    <3> HIDE DEF P
    <3> QED BY <1>2, <2>2, <2>3, FiniteInduction
  <2>5. IndexOK(clear[D], D, {<<pk, base>>}) /\ SameTree(ix, clear[D])
    BY <2>4
  <2>6. \A x \in DOMAIN clear[D].placed \ D : Base(clear[D], x) # <<pk, base>>
    BY <2>5 DEF SameTree, Base, D, Children
  <2> QED BY <2>5, <2>6 DEF IndexOK, HeldOK
<1>7. place = Place(place)
  <2>1. PICK f : f = DoRule(f, D, C, clear[D], "place", pk, same)
    <3>1. IsDone(D, C, clear[D], "place", pk, same)
      <4> HIDE DEF C, same
      <4> QED BY <1>2, <1>4, DoExists
    <3> HIDE DEF C, same
    <3> QED BY <3>1 DEF IsDone
  <2>2. f = Place(f)
    <3>1. \A s \in SUBSET D : s # {} =>
            Do("place", pk, same[C[s]], f[s \ {C[s]}]) = PlaceName(f[s \ {LastOf(s)}], pk, LastOf(s))
      <4> HIDE DEF C, same
      <4> QED BY <1>4 DEF Do
    <3>2. DoRule(f, D, C, clear[D], "place", pk, same) = Place(f)
      <4> HIDE DEF C, same
      <4> QED BY <3>1 DEF DoRule
    <3> QED BY <2>1, <3>2
  <2> HIDE DEF Place
  <2> QED BY <2>2
<1> HIDE DEF place
<1>8. IndexOK(place[D], {}, {}) /\ SameTree(ix, place[D])
  <2> DEFINE P == {s \in SUBSET D : IndexOK(place[s], D \ s, {}) /\ SameTree(ix, place[s])}
  <2>0. \A s \in SUBSET D : place[s] = Place(place)[s]
    <3> HIDE DEF Place
    <3> QED BY <1>7
  <2>1. place[{}] = clear[D]
    BY <2>0
  <2>2. {} \in P
    <3>1. D \ {} = D
      OBVIOUS
    <3> QED BY <1>6, <2>1, <3>1
  <2>3. ASSUME NEW s \in SUBSET D, s # {}, \A x \in s : s \ {x} \in P PROVE s \in P
    <3> DEFINE x == LastOf(s)
               acc == place[s \ {x}]
    <3>1. x \in s /\ place[s] = PlaceName(acc, pk, x)
      BY <1>3, <2>0, <2>3
    <3>2. IndexOK(acc, D \ (s \ {x}), {}) /\ SameTree(ix, acc)
      BY <2>3, <3>1
    <3> HIDE DEF acc, x
    <3>3. x \in DOMAIN acc.placed /\ x \in D \ (s \ {x}) /\ acc.placed[x] = pk
      BY <1>2, <3>1, <3>2 DEF SameTree
    <3>4. IndexOK(place[s], (D \ (s \ {x})) \ {x}, {}) /\ SameTree(acc, place[s])
      BY <3>1, <3>2, <3>3, PlaceNameKeeps
    <3>5. (D \ (s \ {x})) \ {x} = D \ s
      BY <3>1
    <3> QED BY <3>2, <3>4, <3>5 DEF SameTree
  <2>4. SUBSET D \subseteq P
    <3> HIDE DEF P
    <3> QED BY <1>2, <2>2, <2>3, FiniteInduction
  <2>5. D \ D = {} /\ D \in P
    BY <2>4
  <2> QED BY <2>5
<1> QED BY <1>1, <1>8

\* An entry that has lost its name loses its place.
Without(ix, id, new) ==
  /\ new.entries = ix.entries /\ DOMAIN new.placed = DOMAIN ix.placed \ {id}
  /\ \A x \in DOMAIN new.placed : new.placed[x] = ix.placed[x]

Forget(ix, id) == [ix EXCEPT !.placed = Minus(@, id)]

LEMMA ForgetKeeps ==
  ASSUME NEW ix, NEW id, NEW B, IndexOK(ix, {id}, B),
         NEW new, new = Forget(ix, id)
  PROVE  IndexOK(new, {}, B) /\ Without(ix, id, new)
<1>1. /\ IsIndex(new) /\ new.entries = ix.entries /\ new.slots = ix.slots /\ new.display = ix.display
      /\ new.aliased = ix.aliased /\ new.placed = Minus(ix.placed, id)
  BY DEF IndexOK, Shaped, IsIndex, Forget
<1>2. DOMAIN new.placed = DOMAIN ix.placed \ {id} /\ \A x \in DOMAIN new.placed : new.placed[x] = ix.placed[x]
  BY <1>1 DEF Minus, Restrict
<1>3. \A x \in DOMAIN new.placed : Spot(new, x) = Spot(ix, x) /\ Base(new, x) = Base(ix, x)
  BY <1>1, <1>2 DEF Spot, Base, Shown, IsAlias
<1>4. Shaped(new)
  BY <1>1, <1>2 DEF IndexOK, Shaped, Ids
<1>5. NamesOK(new, {})
  BY <1>1, <1>2, <1>3 DEF IndexOK, NamesOK
<1>6. CountsOK(new)
  <2>1. \A x \in DOMAIN ix.display : x \in DOMAIN new.placed /\ new.placed[x] = ix.placed[x]
    BY <1>2 DEF IndexOK, NamesOK
  <2>2. \A k : Aliases(new, k) = Aliases(ix, k)
    BY <1>1, <2>1 DEF Aliases
  <2> QED BY <1>1, <2>1, <2>2 DEF IndexOK, CountsOK
<1>7. HeldOK(new, {}, B)
  BY <1>1, <1>2, <1>3 DEF IndexOK, HeldOK
<1> QED BY <1>1, <1>2, <1>4, <1>5, <1>6, <1>7 DEF IndexOK, Without

\* detach
LEMMA DetachKeeps ==
  ASSUME NEW ix, NEW id, IndexOK(ix, {}, {}), NEW new, new = Detach(ix, id)
  PROVE  IndexOK(new, {}, {}) /\ Without(ix, id, new)
<1>1. CASE id \notin DOMAIN ix.placed
  BY <1>1 DEF Detach, Without
<1>2. CASE id \in DOMAIN ix.placed
  <2> DEFINE pk    == ix.placed[id]
             shown == Shown(ix, id)
             base  == ix.entries[id].name
             clear == Unalias(FreeSlot(ix, pk, shown, id), pk, id)
             gone  == FreeSlot(Unalias([ix EXCEPT !.placed = Minus(@, id)], pk, id), pk, shown, id)
             named == Compact(gone, pk, base)
  <2>1. IndexOK(clear, {id}, {<<pk, base>>}) /\ SameTree(ix, clear)
    <3>1. IndexOK(ix, {}, {<<pk, base>>}) /\ Base(ix, id) = <<pk, base>> /\ id \in DOMAIN ix.placed \ {}
      BY <1>2 DEF IndexOK, HeldOK, Base
    <3>2. IndexOK(clear, {} \cup {id}, {<<pk, base>>}) /\ SameTree(ix, clear)
      BY <3>1, ClearKeeps
    <3>3. {} \cup {id} = {id}
      OBVIOUS
    <3> QED BY <3>2, <3>3
  <2>2. gone = Forget(clear, id)
    <3> DEFINE put == [ix EXCEPT !.placed = Minus(@, id)]
    <3>1. IsIndex(ix) /\ IsIndex(put) /\ gone = FreeSlot(Unalias(put, pk, id), pk, shown, id)
      BY DEF IndexOK, Shaped, IsIndex
    <3>2. IsCleared(ix, pk, id, shown, clear)
      BY <3>1, ClearIs
    <3>3. IsCleared(put, pk, id, shown, gone)
      BY <3>1 DEF IsCleared, Unalias, FreeSlot, IsAlias, AliasedIn, IsIndex, FindChild
    <3>4. /\ put.entries = ix.entries /\ put.slots = ix.slots /\ put.display = ix.display
          /\ put.aliased = ix.aliased /\ put.placed = Minus(ix.placed, id)
      BY <3>1 DEF IsIndex
    <3>5. FindChild(put, pk, shown) = FindChild(ix, pk, shown) /\ AliasedIn(put, pk) = AliasedIn(ix, pk)
      BY <3>4 DEF FindChild, AliasedIn
    <3> HIDE DEF put, clear, gone, shown, pk
    <3> QED BY <3>1, <3>2, <3>3, <3>4, <3>5 DEF IsCleared, IsIndex, Forget
  <2>3. /\ IndexOK(gone, {}, {<<pk, base>>}) /\ gone.entries = ix.entries
        /\ DOMAIN gone.placed = DOMAIN ix.placed \ {id}
        /\ \A x \in DOMAIN gone.placed : gone.placed[x] = ix.placed[x]
    <3> HIDE DEF clear, gone, pk, base
    <3>1. IndexOK(gone, {}, {<<pk, base>>}) /\ Without(clear, id, gone)
      BY <2>1, <2>2, ForgetKeeps
    <3> QED BY <2>1, <3>1 DEF SameTree, Without
  <2>4. \A x : x # id => (x \in DOMAIN gone.display <=> x \in DOMAIN ix.display)
    <3>1. IsCleared(ix, pk, id, shown, clear)
      BY ClearIs DEF IndexOK, Shaped
    <3>2. gone.display = clear.display
      BY <2>2, <3>1 DEF IsCleared, IndexOK, Shaped, IsIndex, Forget
    <3>3. clear.display = IF id \in DOMAIN ix.display THEN Minus(ix.display, id) ELSE ix.display
      <4> HIDE DEF clear, shown, pk
      <4> QED BY <3>1 DEF IsCleared, IndexOK, Shaped, IsIndex
    <3> HIDE DEF gone, clear
    <3> QED BY <3>2, <3>3 DEF Minus, Restrict
  <2>5. new = CASE ~IsAlias(ix, id) /\ AliasedIn(gone, pk) = 0 -> gone
                [] OTHER -> IF FindChild(named, pk, shown) = None THEN Compact(named, pk, shown) ELSE named
    BY <1>2 DEF Detach
  <2>6. \A x \in DOMAIN ix.placed : ~IsAlias(ix, x) /\ ~IsAlias(ix, id) /\ Base(ix, x) = <<pk, base>> => x = id
    <3> SUFFICES ASSUME NEW x \in DOMAIN ix.placed, ~IsAlias(ix, x), ~IsAlias(ix, id), Base(ix, x) = <<pk, base>>
                 PROVE  x = id
      OBVIOUS
    <3>1. ix.slots[Spot(ix, x)] = x /\ ix.slots[Spot(ix, id)] = id
      BY <1>2 DEF IndexOK, NamesOK
    <3>2. Spot(ix, x) = <<pk, base>> /\ Spot(ix, id) = <<pk, base>>
      BY DEF Spot, Base, Shown
    <3> QED BY <3>1, <3>2
  <2> HIDE DEF clear, gone, named, shown
  <2>7. CASE ~IsAlias(ix, id) /\ AliasedIn(gone, pk) = 0
    <3>1. Aliases(gone, pk) = {}
      <4>1. IsFiniteSet(Aliases(gone, pk)) /\ Cardinality(Aliases(gone, pk)) = 0
        BY <2>3, <2>7, CountIs DEF IndexOK
      <4> QED BY <4>1, FS_EmptySet
    <3>2. \A x \in DOMAIN gone.placed : Base(gone, x) # <<pk, base>>
      <4> SUFFICES ASSUME NEW x \in DOMAIN gone.placed, Base(gone, x) = <<pk, base>> PROVE FALSE
        OBVIOUS
      <4>1. x \in DOMAIN ix.placed /\ x # id /\ ix.placed[x] = pk /\ Base(ix, x) = <<pk, base>>
        BY <2>3 DEF Base
      <4>2. x \in DOMAIN gone.display
        BY <2>4, <2>6, <2>7, <4>1 DEF IsAlias
      <4> QED BY <2>3, <3>1, <4>1, <4>2 DEF Aliases
    <3>3. IndexOK(gone, {}, {})
      BY <2>3, <3>2 DEF IndexOK, HeldOK
    <3> QED BY <2>3, <2>5, <2>7, <3>3 DEF Without
  <2>8. CASE ~(~IsAlias(ix, id) /\ AliasedIn(gone, pk) = 0)
    <3>1. IndexOK(named, {}, {}) /\ SameTree(gone, named)
      BY <2>3, CompactKeeps DEF named
    <3>2. IndexOK(Compact(named, pk, shown), {}, {}) /\ SameTree(named, Compact(named, pk, shown))
      BY <3>1, CompactKeeps
    <3>3. new = named \/ new = Compact(named, pk, shown)
      BY <2>5, <2>8
    <3> QED BY <2>3, <3>1, <3>2, <3>3 DEF SameTree, Without
  <2> QED BY <2>7, <2>8
<1> QED BY <1>1, <1>2

\* attach
PlacedAt(ix, id, new) ==
  /\ new.entries = ix.entries /\ DOMAIN new.placed = DOMAIN ix.placed \cup {id}
  /\ new.placed[id] = Resolve(ix, id)
  /\ \A x \in DOMAIN ix.placed : x # id => new.placed[x] = ix.placed[x]

LEMMA AttachKeeps ==
  ASSUME NEW ix, NEW id \in Ids(ix) \ DOMAIN ix.placed, IndexOK(ix, {}, {}), NEW new, new = Attach(ix, id)
  PROVE  IndexOK(new, {}, {}) /\ PlacedAt(ix, id, new)
<1> DEFINE pk == Resolve(ix, id)
           put == [ix EXCEPT !.placed = With(@, id, pk)]
<1>1. /\ IsIndex(put) /\ put.entries = ix.entries /\ put.slots = ix.slots /\ put.display = ix.display
      /\ put.aliased = ix.aliased /\ put.placed = With(ix.placed, id, pk)
  BY DEF IndexOK, Shaped, IsIndex
<1>2. new = PlaceName(put, pk, id)
  BY DEF Attach
<1> HIDE DEF put, pk
<1>3. /\ DOMAIN put.placed = DOMAIN ix.placed \cup {id} /\ put.placed[id] = pk
      /\ \A x \in DOMAIN ix.placed : put.placed[x] = ix.placed[x]
  BY <1>1 DEF With
<1>4. \A x \in DOMAIN ix.placed : Spot(put, x) = Spot(ix, x) /\ Base(put, x) = Base(ix, x)
  BY <1>1, <1>3 DEF Spot, Base, Shown, IsAlias
<1>5. Shaped(put)
  BY <1>1, <1>3 DEF IndexOK, Shaped, Ids
<1>6. NamesOK(put, {id})
  BY <1>1, <1>3, <1>4 DEF IndexOK, NamesOK
<1>7. CountsOK(put)
  <2>1. \A x \in DOMAIN ix.display : put.placed[x] = ix.placed[x]
    BY <1>3 DEF IndexOK, NamesOK
  <2>2. \A k : Aliases(put, k) = Aliases(ix, k)
    BY <1>1, <2>1 DEF Aliases
  <2> QED BY <1>1, <2>1, <2>2 DEF IndexOK, CountsOK
<1>8. HeldOK(put, {id}, {})
  BY <1>1, <1>3, <1>4 DEF IndexOK, HeldOK
<1>9. IndexOK(new, {id} \ {id}, {}) /\ SameTree(put, new)
  BY <1>2, <1>3, <1>5, <1>6, <1>7, <1>8, PlaceNameKeeps DEF IndexOK
<1>10. {id} \ {id} = {}
  OBVIOUS
<1> QED BY <1>1, <1>3, <1>9, <1>10 DEF SameTree, pk, PlacedAt

-----------------------------------------------------------------------------
(* Where entries are placed. *)

LEMMA MaxMember ==
  ASSUME NEW D, IsFiniteSet(D), D \subseteq Nat, NEW s \in SUBSET D, s # {}
  PROVE  Max(s) \in s /\ \A x \in s : x <= Max(s)
<1> DEFINE num == [x \in D |-> 0]
<1>1. \A x \in D : num[x] \in Nat
  OBVIOUS
<1>2. PICK y \in s : IsLast(num, s, y)
  <2> HIDE DEF num
  <2> QED BY <1>1, LastExists
<1>3. \A x \in s : y >= x
  BY <1>2 DEF IsLast
<1>4. \A x \in s : Max(s) >= x
  BY <1>3 DEF Max
<1>5. Max(s) \in s
  BY <1>3 DEF Max
<1> QED BY <1>4, <1>5

\* What resolve gives is a folder, the declared parent, or that there is none.
LEMMA ResolveIn ==
  ASSUME NEW ix, Shaped(ix), NEW id
  PROVE  Resolve(ix, id) \in {ix.entries[id].parent, Unresolved} \cup Ids(ix)
<1>1. \A r : FoldersByRef(ix, r) \subseteq Ids(ix) /\ FoldersByFrom(ix, r) \subseteq Ids(ix)
  BY DEF FoldersByRef, FoldersByFrom
<1>2. \A set \in SUBSET Ids(ix) : set # {} => Min(set) \in Ids(ix)
  BY LeastMember DEF Shaped
<1>3. \A set \in SUBSET Ids(ix) : set \ {id} # {} =>
        (IF ix.entries[id].parent \in set \ {id} THEN ix.entries[id].parent ELSE Min(set \ {id})) \in Ids(ix)
  BY <1>2
<1> QED BY <1>1, <1>3 DEF Resolve

LEMMA ResolveFrom ==
  ASSUME NEW a, NEW b, a.entries = b.entries, NEW id
  PROVE  Resolve(a, id) = Resolve(b, id)
<1>1. \A r : FoldersByRef(a, r) = FoldersByRef(b, r) /\ FoldersByFrom(a, r) = FoldersByFrom(b, r)
  BY DEF FoldersByRef, FoldersByFrom, Ids
<1> QED BY <1>1 DEF Resolve

\* The index b has one entry more than a.
OneMore(a, b, id) ==
  /\ Ids(b) = Ids(a) \cup {id} /\ id \notin Ids(a)
  /\ \A x \in Ids(a) : b.entries[x] = a.entries[x]

\* It changes what resolve gives for those that name it as their folder.
LEMMA ResolveSame ==
  ASSUME NEW a, NEW b, NEW id, OneMore(a, b, id),
         NEW x \in Ids(a), x \notin Dependents(a, FolderKeys(b.entries[id]))
  PROVE  Resolve(b, x) = Resolve(a, x)
<1> DEFINE e == a.entries[x]
           new == b.entries[id]
<1>1. b.entries[x] = e
  BY DEF OneMore
<1>2. CASE ~e.v2 \/ e.parent = Root
  BY <1>1, <1>2 DEF Resolve
<1>3. CASE e.v2 /\ e.parent # Root /\ e.pref = None
  BY <1>1, <1>3 DEF Resolve
<1>4. CASE e.v2 /\ e.parent # Root /\ e.pref # None
  <2>1. e.pref \notin FolderKeys(new)
    BY <1>4 DEF Dependents
  <2>2. FoldersByRef(b, e.pref) = FoldersByRef(a, e.pref)
    <3>1. id \notin FoldersByRef(b, e.pref)
      BY <2>1 DEF FoldersByRef, FolderKeys
    <3> QED BY <3>1 DEF FoldersByRef, OneMore
  <2>3. FoldersByFrom(b, e.pref) = FoldersByFrom(a, e.pref)
    <3>1. id \notin FoldersByFrom(b, e.pref)
      BY <2>1 DEF FoldersByFrom, FolderKeys
    <3> QED BY <3>1 DEF FoldersByFrom, OneMore
  <2> HIDE DEF e
  <2> QED BY <1>1, <1>4, <2>2, <2>3 DEF Resolve, e
<1> QED BY <1>2, <1>3, <1>4

LEMMA AgainKeeps ==
  ASSUME NEW ix, NEW id \in Ids(ix), IndexOK(ix, {}, {}), NEW new, new = Attach(Detach(ix, id), id)
  PROVE  IndexOK(new, {}, {}) /\ PlacedAt(ix, id, new)
<1> DEFINE off == Detach(ix, id)
<1>1. IndexOK(off, {}, {}) /\ Without(ix, id, off)
  BY DetachKeeps
<1> HIDE DEF off
<1>2. /\ id \in Ids(off) \ DOMAIN off.placed /\ Resolve(off, id) = Resolve(ix, id)
  BY <1>1, ResolveFrom DEF Without, Ids
<1>3. IndexOK(new, {}, {}) /\ PlacedAt(off, id, new)
  BY <1>1, <1>2, AttachKeeps DEF off
<1> QED BY <1>1, <1>2, <1>3 DEF PlacedAt, Without

\* reattach_dependents
Replaced(ix, D, new) ==
  /\ new.entries = ix.entries /\ DOMAIN new.placed = DOMAIN ix.placed \cup D
  /\ \A x \in D : new.placed[x] = Resolve(ix, x)
  /\ \A x \in DOMAIN ix.placed \ D : new.placed[x] = ix.placed[x]

LEMMA ReattachKeeps ==
  ASSUME NEW ix, NEW keys, IndexOK(ix, {}, {})
  PROVE  IndexOK(Reattach(ix, keys), {}, {}) /\ Replaced(ix, Dependents(ix, keys), Reattach(ix, keys))
<1> DEFINE D == Dependents(ix, keys)
           C == [s \in SUBSET D |-> Max(s)]
           same == [id \in D |-> id]
           Rule(f) == [s \in SUBSET D |-> IF s = {} THEN ix
                         ELSE Attach(Detach(f[s \ {Max(s)}], Max(s)), Max(s))]
           it == CHOOSE f : f = Rule(f)
<1>1. Reattach(ix, keys) = it[D]
  BY Zenon DEF Reattach, InOrder, MapThenFoldSet
<1>2. IsFiniteSet(D) /\ D \subseteq Nat /\ D \subseteq Ids(ix)
  <2>1. D \subseteq Ids(ix)
    BY DEF Dependents
  <2> QED BY <2>1, FS_Subset DEF IndexOK, Shaped
<1> HIDE DEF D
<1>3. \A s \in SUBSET D : s # {} => Max(s) \in s
  BY <1>2, MaxMember
<1>4. \A s \in SUBSET D : s # {} => C[s] \in s /\ C[s] = Max(s) /\ same[C[s]] = Max(s)
  BY <1>3
<1>5. it = Rule(it)
  <2>1. PICK f : f = DoRule(f, D, C, ix, "again", ix, same)
    <3>1. IsDone(D, C, ix, "again", ix, same)
      <4> HIDE DEF C, same
      <4> QED BY <1>2, <1>4, DoExists
    <3> HIDE DEF C, same
    <3> QED BY <3>1 DEF IsDone
  <2>2. f = Rule(f)
    <3>1. \A s \in SUBSET D : s # {} =>
            Do("again", ix, same[C[s]], f[s \ {C[s]}]) = Attach(Detach(f[s \ {Max(s)}], Max(s)), Max(s))
      <4> HIDE DEF C, same
      <4> QED BY <1>4 DEF Do
    <3>2. DoRule(f, D, C, ix, "again", ix, same) = Rule(f)
      <4> HIDE DEF C, same
      <4> QED BY <3>1 DEF DoRule
    <3> QED BY <2>1, <3>2
  <2> HIDE DEF Rule
  <2> QED BY <2>2
<1> HIDE DEF it
<1> DEFINE P == {s \in SUBSET D : IndexOK(it[s], {}, {}) /\ Replaced(ix, s, it[s])}
<1>6. \A s \in SUBSET D : it[s] = Rule(it)[s]
  <2> HIDE DEF Rule
  <2> QED BY <1>5
<1>7. {} \in P
  <2>1. it[{}] = ix
    BY <1>6
  <2> QED BY <2>1 DEF Replaced
<1>8. ASSUME NEW s \in SUBSET D, s # {}, \A x \in s : s \ {x} \in P PROVE s \in P
  <2> DEFINE x == Max(s)
             acc == it[s \ {x}]
  <2>1. x \in s /\ it[s] = Attach(Detach(acc, x), x)
    BY <1>3, <1>6, <1>8
  <2>2. IndexOK(acc, {}, {}) /\ Replaced(ix, s \ {x}, acc)
    BY <1>8, <2>1
  <2> HIDE DEF acc, x
  <2>3. x \in Ids(acc) /\ \A y : Resolve(acc, y) = Resolve(ix, y)
    BY <1>2, <2>1, <2>2, ResolveFrom DEF Replaced, Ids
  <2>4. IndexOK(it[s], {}, {}) /\ PlacedAt(acc, x, it[s])
    BY <2>1, <2>2, <2>3, AgainKeeps
  <2>5. Replaced(ix, s, it[s])
    BY <2>1, <2>2, <2>3, <2>4 DEF PlacedAt, Replaced
  <2> QED BY <2>4, <2>5
<1>9. SUBSET D \subseteq P
  <2> HIDE DEF P
  <2> QED BY <1>2, <1>7, <1>8, FiniteInduction
<1>10. D \in P
  BY <1>9
<1> QED BY <1>1, <1>10 DEF D

TreeOK(ix) ==
  /\ IndexOK(ix, {}, {}) /\ DOMAIN ix.placed = Ids(ix)
  /\ \A id \in Ids(ix) : ix.placed[id] = Resolve(ix, id)

\* An index is as good with more or fewer entries that have no place.
EntriesFit(ix, new) ==
  /\ IsIndex(new) /\ new.placed = ix.placed /\ new.slots = ix.slots /\ new.display = ix.display
  /\ new.aliased = ix.aliased
  /\ IsFiniteSet(Ids(new)) /\ Ids(new) \subseteq Nat \ {None}
  /\ \A x \in Ids(new) : new.entries[x].name \in Seq(Int)
  /\ \A x \in DOMAIN ix.placed : x \in Ids(new) /\ new.entries[x] = ix.entries[x]

LEMMA EntriesKeep ==
  ASSUME NEW ix, IndexOK(ix, {}, {}), NEW new, EntriesFit(ix, new)
  PROVE  IndexOK(new, {}, {})
<1> USE DEF EntriesFit
<1>1. \A x \in DOMAIN ix.placed : Spot(new, x) = Spot(ix, x) /\ Base(new, x) = Base(ix, x)
  BY DEF Spot, Base, Shown, IsAlias
<1>2. Shaped(new)
  BY DEF IndexOK, Shaped, Ids
<1>3. NamesOK(new, {})
  BY <1>1 DEF IndexOK, NamesOK
<1>4. CountsOK(new)
  <2>1. \A k : Aliases(new, k) = Aliases(ix, k)
    BY DEF Aliases
  <2> QED BY <2>1 DEF IndexOK, CountsOK
<1>5. HeldOK(new, {}, {})
  <2> SUFFICES ASSUME NEW x \in DOMAIN new.placed
               PROVE  /\ Base(new, x) \in DOMAIN new.slots
                      /\ new.entries[new.slots[Base(new, x)]].name = new.entries[x].name
    BY DEF HeldOK
  <2>1. /\ Base(ix, x) \in DOMAIN ix.slots
        /\ ix.entries[ix.slots[Base(ix, x)]].name = ix.entries[x].name
    BY DEF IndexOK, HeldOK
  <2>2. ix.slots[Base(ix, x)] \in DOMAIN ix.placed
    BY <2>1 DEF IndexOK, NamesOK
  <2> QED BY <1>1, <2>1, <2>2
<1> QED BY <1>2, <1>3, <1>4, <1>5 DEF IndexOK

\* insert_entry
Inserted(ix, id, entry, new) ==
  /\ Ids(new) = Ids(ix) \cup {id} /\ (id \notin Ids(ix) => new.entries[id] = entry)
  /\ \A x \in Ids(ix) : new.entries[x] = ix.entries[x]

LEMMA InsertKeeps ==
  ASSUME NEW ix, TreeOK(ix), NEW id \in Nat \ {None}, NEW entry, entry.name \in Seq(Int)
  PROVE  TreeOK(InsertEntry(ix, id, entry)) /\ Inserted(ix, id, entry, InsertEntry(ix, id, entry))
<1>1. CASE id \in Ids(ix)
  <2>1. Ids(ix) = Ids(ix) \cup {id}
    BY <1>1
  <2> QED BY <1>1, <2>1 DEF InsertEntry, Inserted
<1>2. CASE id \notin Ids(ix)
  <2> DEFINE put  == [ix EXCEPT !.entries = With(@, id, entry)]
             att  == Attach(put, id)
             keys == FolderKeys(entry)
             D    == Dependents(att, keys)
             new  == Reattach(att, keys)
  <2>1. /\ IsIndex(put) /\ put.placed = ix.placed /\ put.slots = ix.slots /\ put.display = ix.display
        /\ put.aliased = ix.aliased /\ put.entries = With(ix.entries, id, entry)
    BY DEF TreeOK, IndexOK, Shaped, IsIndex
  <2>2. InsertEntry(ix, id, entry) = new
    BY <1>2 DEF InsertEntry
  <2> HIDE DEF put, keys
  <2>3. OneMore(ix, put, id) /\ put.entries[id] = entry
    BY <1>2, <2>1 DEF With, OneMore, Ids
  <2>4. IndexOK(put, {}, {})
    <3>1. IsFiniteSet(Ids(put))
      BY <2>3, FS_AddElement DEF OneMore, TreeOK, IndexOK, Shaped
    <3>2. EntriesFit(ix, put)
      BY <2>1, <2>3, <3>1 DEF EntriesFit, OneMore, TreeOK, IndexOK, Shaped
    <3> QED BY <3>2, EntriesKeep DEF TreeOK
  <2>5. id \in Ids(put) \ DOMAIN put.placed
    BY <1>2, <2>1, <2>3 DEF OneMore, TreeOK
  <2>6. IndexOK(att, {}, {}) /\ PlacedAt(put, id, att)
    BY <2>4, <2>5, AttachKeeps
  <2> HIDE DEF att
  <2>7. IndexOK(new, {}, {}) /\ Replaced(att, D, new)
    BY <2>6, ReattachKeeps
  <2>8. D \subseteq Ids(put) /\ \A x \in Ids(ix) : x \notin D => x \notin Dependents(ix, keys)
    BY <2>3, <2>6 DEF Dependents, PlacedAt, Ids, OneMore
  <2> HIDE DEF new, D
  <2>9. new.entries = put.entries /\ Ids(new) = Ids(put) /\ \A x : Resolve(new, x) = Resolve(put, x) /\ Resolve(att, x) = Resolve(put, x)
    BY <2>6, <2>7, ResolveFrom DEF PlacedAt, Replaced, Ids
  <2>10. DOMAIN new.placed = Ids(new)
    BY <2>1, <2>3, <2>6, <2>7, <2>8, <2>9 DEF PlacedAt, Replaced, OneMore, TreeOK
  <2>11. ASSUME NEW x \in Ids(new) PROVE new.placed[x] = Resolve(new, x)
    <3>1. CASE x \in D
      BY <2>7, <2>9, <3>1 DEF Replaced
    <3>2. CASE x \notin D /\ x = id
      BY <2>6, <2>7, <2>9, <3>2 DEF Replaced, PlacedAt
    <3>3. CASE x \notin D /\ x # id
      <4>1. x \in Ids(ix) /\ x \in DOMAIN put.placed
        BY <2>1, <2>3, <2>9, <3>3 DEF OneMore, TreeOK
      <4>2. Resolve(put, x) = Resolve(ix, x)
        BY <2>3, <2>8, <3>3, <4>1, ResolveSame DEF keys
      <4>3. new.placed[x] = ix.placed[x]
        BY <2>1, <2>6, <2>7, <3>3, <4>1 DEF Replaced, PlacedAt
      <4> QED BY <2>9, <4>1, <4>2, <4>3 DEF TreeOK
    <3> QED BY <3>1, <3>2, <3>3
  <2>12. Inserted(ix, id, entry, new)
    BY <2>3, <2>9 DEF Inserted, OneMore
  <2> QED BY <2>2, <2>7, <2>10, <2>11, <2>12 DEF TreeOK
<1> QED BY <1>1, <1>2

\* remove_entry
Removed(ix, id, new) == Ids(new) = Ids(ix) \ {id} /\ \A x \in Ids(new) : new.entries[x] = ix.entries[x]

LEMMA RemoveKeeps ==
  ASSUME NEW ix, TreeOK(ix), NEW id
  PROVE  TreeOK(RemoveEntry(ix, id)) /\ Removed(ix, id, RemoveEntry(ix, id))
<1>1. CASE id \notin Ids(ix)
  <2>1. Ids(ix) = Ids(ix) \ {id}
    BY <1>1
  <2> QED BY <1>1, <2>1 DEF RemoveEntry, Removed
<1>2. CASE id \in Ids(ix)
  <2> DEFINE off  == Detach(ix, id)
             cut  == [off EXCEPT !.entries = Minus(@, id)]
             keys == FolderKeys(ix.entries[id])
             D    == Dependents(cut, keys)
             new  == Reattach(cut, keys)
  <2>1. RemoveEntry(ix, id) = new
    BY <1>2 DEF RemoveEntry
  <2>2. IndexOK(off, {}, {}) /\ Without(ix, id, off)
    BY DetachKeeps DEF TreeOK
  <2> HIDE DEF off
  <2>3. /\ IsIndex(cut) /\ cut.placed = off.placed /\ cut.slots = off.slots /\ cut.display = off.display
        /\ cut.aliased = off.aliased /\ cut.entries = Minus(ix.entries, id)
    BY <2>2 DEF IndexOK, Shaped, IsIndex, Without
  <2> HIDE DEF cut, keys
  <2>4. Ids(cut) = Ids(ix) \ {id} /\ \A x \in Ids(cut) : cut.entries[x] = ix.entries[x]
    BY <2>3 DEF Minus, Restrict, Ids
  <2>5. OneMore(cut, ix, id)
    BY <1>2, <2>4 DEF OneMore
  <2>6. DOMAIN cut.placed = Ids(cut) /\ \A x \in Ids(cut) : cut.placed[x] = ix.placed[x]
    BY <2>2, <2>3, <2>4 DEF Without, TreeOK
  <2>7. IndexOK(cut, {}, {})
    <3>1. IsFiniteSet(Ids(cut)) /\ Ids(cut) \subseteq Nat \ {None}
      BY <2>4, FS_Subset DEF TreeOK, IndexOK, Shaped
    <3>2. EntriesFit(off, cut)
      BY <2>2, <2>3, <2>4, <2>6, <3>1 DEF EntriesFit, Without, TreeOK, IndexOK, Shaped
    <3> QED BY <2>2, <3>2, EntriesKeep
  <2>8. IndexOK(new, {}, {}) /\ Replaced(cut, D, new)
    BY <2>7, ReattachKeeps
  <2> HIDE DEF new
  <2>9. new.entries = cut.entries /\ Ids(new) = Ids(cut) /\ \A x : Resolve(new, x) = Resolve(cut, x)
    BY <2>8, ResolveFrom DEF Replaced, Ids
  <2>10. DOMAIN new.placed = Ids(new)
    BY <2>6, <2>8, <2>9 DEF Replaced, Dependents
  <2>11. ASSUME NEW x \in Ids(new) PROVE new.placed[x] = Resolve(new, x)
    <3>1. CASE x \in D
      BY <2>8, <2>9, <3>1 DEF Replaced
    <3>2. CASE x \notin D
      <4>1. Resolve(ix, x) = Resolve(cut, x)
        BY <2>5, <2>9, <3>2, ResolveSame DEF keys
      <4> QED BY <2>4, <2>6, <2>8, <2>9, <3>2, <4>1 DEF Replaced, TreeOK
    <3> QED BY <3>1, <3>2
  <2>12. Removed(ix, id, new)
    BY <2>4, <2>9 DEF Removed
  <2> QED BY <2>1, <2>8, <2>10, <2>11, <2>12 DEF TreeOK
<1> QED BY <1>1, <1>2

LEMMA EmptyTree == TreeOK(EmptyIndex) /\ Ids(EmptyIndex) = {}
<1> DEFINE ix == EmptyIndex
<1>1. /\ IsIndex(ix) /\ DOMAIN ix.entries = {} /\ DOMAIN ix.placed = {} /\ DOMAIN ix.slots = {}
      /\ DOMAIN ix.display = {} /\ DOMAIN ix.aliased = {}
  BY DEF EmptyIndex, NoMap, IsIndex
<1> HIDE DEF ix
<1>2. IndexOK(ix, {}, {})
  BY <1>1, FS_EmptySet DEF IndexOK, Shaped, NamesOK, CountsOK, HeldOK, Ids
<1> QED BY <1>1, <1>2 DEF TreeOK, Ids, ix

-----------------------------------------------------------------------------
(* What a vault is read into, and what a sync makes of an index. *)

LEMMA FilledIs ==
  ASSUME NEW world, IsFiniteSet(DOMAIN world), DOMAIN world \subseteq Nat \ {None},
         \A id \in DOMAIN world : world[id].name \in Seq(Int)
  PROVE  /\ TreeOK(Filled(world)) /\ Ids(Filled(world)) = DOMAIN world
         /\ \A id \in DOMAIN world : Filled(world).entries[id] = world[id]
<1> DEFINE D == DOMAIN world
           C == [s \in SUBSET D |-> Max(s)]
           same == [id \in D |-> id]
           Rule(f) == [s \in SUBSET D |-> IF s = {} THEN EmptyIndex
                         ELSE InsertEntry(f[s \ {Max(s)}], Max(s), world[Max(s)])]
           it == CHOOSE f : f = Rule(f)
<1>1. Filled(world) = it[D]
  BY Zenon DEF Filled, InOrder, MapThenFoldSet
<1>2. IsFiniteSet(D) /\ D \subseteq Nat /\ \A id \in D : id # None
  OBVIOUS
<1> HIDE DEF D
<1>3. \A s \in SUBSET D : s # {} => Max(s) \in s
  BY <1>2, MaxMember
<1>4. \A s \in SUBSET D : s # {} => C[s] \in s /\ C[s] = Max(s) /\ same[C[s]] = Max(s)
  BY <1>3
<1>5. it = Rule(it)
  <2>1. PICK f : f = DoRule(f, D, C, EmptyIndex, "insert", world, same)
    <3>1. IsDone(D, C, EmptyIndex, "insert", world, same)
      <4> HIDE DEF C, same
      <4> QED BY <1>2, <1>4, DoExists
    <3> HIDE DEF C, same
    <3> QED BY <3>1 DEF IsDone
  <2>2. f = Rule(f)
    <3>1. \A s \in SUBSET D : s # {} =>
            Do("insert", world, same[C[s]], f[s \ {C[s]}]) = InsertEntry(f[s \ {Max(s)}], Max(s), world[Max(s)])
      <4> HIDE DEF C, same
      <4> QED BY <1>4 DEF Do
    <3>2. DoRule(f, D, C, EmptyIndex, "insert", world, same) = Rule(f)
      <4> HIDE DEF C, same
      <4> QED BY <3>1 DEF DoRule
    <3> QED BY <2>1, <3>2
  <2> HIDE DEF Rule
  <2> QED BY <2>2
<1> HIDE DEF it
<1> DEFINE P == {s \in SUBSET D : TreeOK(it[s]) /\ Ids(it[s]) = s /\ \A id \in s : it[s].entries[id] = world[id]}
<1>6. \A s \in SUBSET D : it[s] = Rule(it)[s]
  <2> HIDE DEF Rule
  <2> QED BY <1>5
<1>7. {} \in P
  <2>1. it[{}] = EmptyIndex
    BY <1>6
  <2> QED BY <2>1, EmptyTree
<1>8. ASSUME NEW s \in SUBSET D, s # {}, \A x \in s : s \ {x} \in P PROVE s \in P
  <2> DEFINE x == Max(s)
             acc == it[s \ {x}]
  <2>1. x \in s /\ it[s] = InsertEntry(acc, x, world[x])
    BY <1>3, <1>6, <1>8
  <2>2. TreeOK(acc) /\ Ids(acc) = s \ {x} /\ \A id \in s \ {x} : acc.entries[id] = world[id]
    BY <1>8, <2>1
  <2> HIDE DEF acc, x
  <2>3. TreeOK(it[s]) /\ Inserted(acc, x, world[x], it[s])
    BY <1>2, <2>1, <2>2, InsertKeeps DEF D
  <2>4. Ids(it[s]) = s /\ \A id \in s : it[s].entries[id] = world[id]
    BY <2>1, <2>2, <2>3 DEF Inserted
  <2> QED BY <2>3, <2>4
<1>9. SUBSET D \subseteq P
  <2> HIDE DEF P
  <2> QED BY <1>2, <1>7, <1>8, FiniteInduction
<1>10. D \in P
  BY <1>9
<1> QED BY <1>1, <1>10 DEF D

\* One entry after another is removed.
RangeOf(seq, s) == {seq[i] : i \in s}

LEMMA RemoveAll ==
  ASSUME NEW ix, TreeOK(ix), NEW n \in Nat, NEW seq, DOMAIN seq = 1 .. n
  PROVE  LET new == FoldLeft(LAMBDA acc, id : RemoveEntry(acc, id), ix, seq) IN
         /\ TreeOK(new) /\ Ids(new) = Ids(ix) \ RangeOf(seq, 1 .. n)
         /\ \A x \in Ids(new) : new.entries[x] = ix.entries[x]
<1> DEFINE D == 1 .. n
           C == [s \in SUBSET D |-> Max(s)]
           Rule(f) == [s \in SUBSET D |-> IF s = {} THEN ix
                         ELSE RemoveEntry(f[s \ {Max(s)}], seq[Max(s)])]
           it == CHOOSE f : f = Rule(f)
<1>1. FoldLeft(LAMBDA acc, id : RemoveEntry(acc, id), ix, seq) = it[D]
  BY Zenon DEF FoldLeft, MapThenFoldSet
<1>2. IsFiniteSet(D) /\ D \subseteq Nat
  BY FS_Interval
<1> HIDE DEF D
<1>3. \A s \in SUBSET D : s # {} => Max(s) \in s
  BY <1>2, MaxMember
<1>4. \A s \in SUBSET D : s # {} => C[s] \in s /\ C[s] = Max(s)
  BY <1>3
<1>5. it = Rule(it)
  <2>1. PICK f : f = DoRule(f, D, C, ix, "remove", ix, seq)
    <3>1. IsDone(D, C, ix, "remove", ix, seq)
      <4> HIDE DEF C
      <4> QED BY <1>2, <1>4, DoExists
    <3> HIDE DEF C
    <3> QED BY <3>1 DEF IsDone
  <2>2. f = Rule(f)
    <3>1. \A s \in SUBSET D : s # {} =>
            Do("remove", ix, seq[C[s]], f[s \ {C[s]}]) = RemoveEntry(f[s \ {Max(s)}], seq[Max(s)])
      <4> HIDE DEF C
      <4> QED BY <1>4 DEF Do
    <3>2. DoRule(f, D, C, ix, "remove", ix, seq) = Rule(f)
      <4> HIDE DEF C
      <4> QED BY <3>1 DEF DoRule
    <3> QED BY <2>1, <3>2
  <2> HIDE DEF Rule
  <2> QED BY <2>2
<1> HIDE DEF it
<1> DEFINE P == {s \in SUBSET D : /\ TreeOK(it[s]) /\ Ids(it[s]) = Ids(ix) \ RangeOf(seq, s)
                                  /\ \A x \in Ids(it[s]) : it[s].entries[x] = ix.entries[x]}
<1>6. \A s \in SUBSET D : it[s] = Rule(it)[s]
  <2> HIDE DEF Rule
  <2> QED BY <1>5
<1>7. {} \in P
  <2>1. it[{}] = ix /\ RangeOf(seq, {}) = {}
    BY <1>6 DEF RangeOf
  <2> QED BY <2>1
<1>8. ASSUME NEW s \in SUBSET D, s # {}, \A x \in s : s \ {x} \in P PROVE s \in P
  <2> DEFINE i == Max(s)
             acc == it[s \ {i}]
  <2>1. i \in s /\ it[s] = RemoveEntry(acc, seq[i])
    BY <1>3, <1>6, <1>8
  <2>2. TreeOK(acc) /\ Ids(acc) = Ids(ix) \ RangeOf(seq, s \ {i}) /\ \A x \in Ids(acc) : acc.entries[x] = ix.entries[x]
    BY <1>8, <2>1
  <2> HIDE DEF acc, i
  <2>3. TreeOK(it[s]) /\ Removed(acc, seq[i], it[s])
    BY <2>1, <2>2, RemoveKeeps
  <2>4. RangeOf(seq, s) = RangeOf(seq, s \ {i}) \cup {seq[i]}
    BY <2>1 DEF RangeOf
  <2>5. Ids(it[s]) = Ids(ix) \ RangeOf(seq, s) /\ \A x \in Ids(it[s]) : it[s].entries[x] = ix.entries[x]
    BY <2>2, <2>3, <2>4 DEF Removed
  <2> QED BY <2>3, <2>5
<1>9. SUBSET D \subseteq P
  <2> HIDE DEF P
  <2> QED BY <1>2, <1>7, <1>8, FiniteInduction
<1>10. D \in P
  BY <1>9
<1> QED BY <1>1, <1>10 DEF D

\* And one after another inserted.
Gained(ix, seq, from) == FoldLeft(LAMBDA acc, id : InsertEntry(acc, id, from[id]), ix, seq)

IsGained(ix, ids, from, new) ==
  TreeOK(new) /\ Ids(new) = Ids(ix) \cup ids /\ \A x \in Ids(new) : new.entries[x] = from[x]

LEMMA InsertAll ==
  ASSUME NEW ix, TreeOK(ix), NEW n \in Nat, NEW seq, DOMAIN seq = 1 .. n, NEW from,
         \A i \in 1 .. n : seq[i] \in Nat \ {None} /\ from[seq[i]].name \in Seq(Int),
         \A x \in Ids(ix) : ix.entries[x] = from[x]
  PROVE  IsGained(ix, RangeOf(seq, 1 .. n), from, Gained(ix, seq, from))
<1> DEFINE D == 1 .. n
           C == [s \in SUBSET D |-> Max(s)]
           Rule(f) == [s \in SUBSET D |-> IF s = {} THEN ix
                         ELSE InsertEntry(f[s \ {Max(s)}], seq[Max(s)], from[seq[Max(s)]])]
           it == CHOOSE f : f = Rule(f)
<1>1. Gained(ix, seq, from) = it[D]
  BY Zenon DEF Gained, FoldLeft, MapThenFoldSet
<1>2. IsFiniteSet(D) /\ D \subseteq Nat
  BY FS_Interval
<1> HIDE DEF D
<1>3. \A s \in SUBSET D : s # {} => Max(s) \in s
  BY <1>2, MaxMember
<1>4. \A s \in SUBSET D : s # {} => C[s] \in s /\ C[s] = Max(s)
  BY <1>3
<1>5. it = Rule(it)
  <2>1. PICK f : f = DoRule(f, D, C, ix, "insert", from, seq)
    <3>1. IsDone(D, C, ix, "insert", from, seq)
      <4> HIDE DEF C
      <4> QED BY <1>2, <1>4, DoExists
    <3> HIDE DEF C
    <3> QED BY <3>1 DEF IsDone
  <2>2. f = Rule(f)
    <3>1. \A s \in SUBSET D : s # {} =>
            Do("insert", from, seq[C[s]], f[s \ {C[s]}]) =
              InsertEntry(f[s \ {Max(s)}], seq[Max(s)], from[seq[Max(s)]])
      <4> HIDE DEF C
      <4> QED BY <1>4 DEF Do
    <3>2. DoRule(f, D, C, ix, "insert", from, seq) = Rule(f)
      <4> HIDE DEF C
      <4> QED BY <3>1 DEF DoRule
    <3> QED BY <2>1, <3>2
  <2> HIDE DEF Rule
  <2> QED BY <2>2
<1> HIDE DEF it
<1> DEFINE P == {s \in SUBSET D : /\ TreeOK(it[s]) /\ Ids(it[s]) = Ids(ix) \cup RangeOf(seq, s)
                                  /\ \A x \in Ids(it[s]) : it[s].entries[x] = from[x]}
<1>6. \A s \in SUBSET D : it[s] = Rule(it)[s]
  <2> HIDE DEF Rule
  <2> QED BY <1>5
<1>7. {} \in P
  <2>1. it[{}] = ix /\ RangeOf(seq, {}) = {}
    BY <1>6 DEF RangeOf
  <2> QED BY <2>1
<1>8. ASSUME NEW s \in SUBSET D, s # {}, \A x \in s : s \ {x} \in P PROVE s \in P
  <2> DEFINE i == Max(s)
             acc == it[s \ {i}]
  <2>1. i \in s /\ it[s] = InsertEntry(acc, seq[i], from[seq[i]])
    BY <1>3, <1>6, <1>8
  <2>2. TreeOK(acc) /\ Ids(acc) = Ids(ix) \cup RangeOf(seq, s \ {i}) /\ \A x \in Ids(acc) : acc.entries[x] = from[x]
    BY <1>8, <2>1
  <2> HIDE DEF acc, i
  <2>3. TreeOK(it[s]) /\ Inserted(acc, seq[i], from[seq[i]], it[s])
    BY <2>1, <2>2, InsertKeeps DEF D
  <2>4. RangeOf(seq, s) = RangeOf(seq, s \ {i}) \cup {seq[i]}
    BY <2>1 DEF RangeOf
  <2>5. Ids(it[s]) = Ids(ix) \cup RangeOf(seq, s) /\ \A x \in Ids(it[s]) : it[s].entries[x] = from[x]
    BY <2>2, <2>3, <2>4 DEF Inserted
  <2> QED BY <2>3, <2>5
<1>9. SUBSET D \subseteq P
  <2> HIDE DEF P
  <2> QED BY <1>2, <1>7, <1>8, FiniteInduction
<1>10. D \in P
  BY <1>9
<1> QED BY <1>1, <1>10 DEF D, IsGained

-----------------------------------------------------------------------------
(* The invariant. *)

Entries == EntryOf(AllIds, Seq(Int))
\* An entry that is stored with a reference of its own has none yet.
NewEntries == [name : Seq(Int), folder : BOOLEAN, v2 : BOOLEAN, parent : AllIds \cup {Root},
               pref : AllIds \cup {None}, ref : AllIds \cup {0}, from : AllIds \cup {None}]

RecsOK ==
  /\ Made \in 0 .. MaxId /\ DOMAIN rec = AllIds
  /\ \A id \in AllIds : rec[id] \in Entries \cup {NoEntry} /\ (id <= Made <=> rec[id] # NoEntry)

IndexHolds ==
  /\ TreeOK(index) /\ Ids(index) \subseteq 1 .. Made
  /\ \A id \in Ids(index) : index.entries[id] = rec[id]

Frames(m) == [id : 1 .. m, new : 0 .. m, name : Seq(Int), parent : AllIds \cup {Root, Stay},
              kids : SUBSET (1 .. m)]

JobType(m) ==
  [kind : {"none", "mkdir", "unlink", "rmdir", "rename", "save"},
   pc : {"none", "upload", "ingest", "list", "kids", "delete", "replace", "repoint"},
   parent : AllIds \cup {Root}, name : Seq(Int), id : 0 .. m, stack : Seq(Frames(m)),
   victim : 0 .. m, locked : SUBSET (0 .. MaxId), tree : BOOLEAN]

\* A job that ingests has made what it ingests, and a move has a record to move; of the
\* folders that it has begun to move, the copies are made.
Moves(j) == j.pc \in {"list", "kids"} \/ (j.pc \in {"upload", "ingest"} /\ j.kind = "rename")
JobHolds(j) ==
  /\ j.pc = "ingest" /\ j.kind # "rename" => j.id # None
  /\ Moves(j) => j.stack # <<>>
  /\ j.kind # "rename" => j.stack = <<>>
  /\ \A k \in DOMAIN j.stack :
       k < Len(j.stack) \/ j.pc \in {"ingest", "list", "kids"} => j.stack[k].new # None

JobsOK == DOMAIN job = Workers /\ \A w \in Workers : job[w] \in JobType(Made) /\ JobHolds(job[w])

FoldersInv ==
  /\ RecsOK /\ IndexHolds /\ JobsOK
  /\ own \cup stored \subseteq 1 .. Made
  /\ pending \subseteq (AllIds \cup {Root}) \X Seq(Int)
  /\ away \in AllIds \cup {None} /\ faults \in 0 .. MaxFaults

\* A record that is stored is the next one, and no other changes.
LEMMA MadeIs ==
  ASSUME NEW r, NEW n \in 0 .. MaxId, \A id \in AllIds : r[id].ref # 0 <=> id <= n
  PROVE  Cardinality({id \in AllIds : r[id].ref # 0}) = n
<1>1. {id \in AllIds : r[id].ref # 0} = 1 .. n
  BY FoldersAssumption DEF AllIds
<1>2. Cardinality(1 .. n) = n
  BY FS_Interval
<1> QED BY <1>1, <1>2

Keeps(m) == Made' \in m .. MaxId /\ \A id \in 1 .. m : id \in AllIds /\ rec'[id] = rec[id]

LEMMA StoreKeeps ==
  ASSUME RecsOK, NEW entry \in NewEntries, New <= MaxId,
         rec' = [rec EXCEPT ![New] = [entry EXCEPT !.ref = IF @ = 0 THEN New ELSE @]]
  PROVE  RecsOK' /\ Made' = New /\ Keeps(Made) /\ New \in AllIds
<1> DEFINE new == [entry EXCEPT !.ref = IF @ = 0 THEN New ELSE @]
<1>1. Made \in 0 .. MaxId /\ New = Made + 1 /\ New \in AllIds /\ MaxId \in Nat
  BY FoldersAssumption DEF RecsOK, New, AllIds
<1>2. new \in Entries /\ new # NoEntry /\ new.ref # 0
  <2>1. new.ref \in AllIds
    BY <1>1 DEF NewEntries
  <2>2. new \in Entries
    BY <1>1, <2>1 DEF NewEntries, Entries, EntryOf
  <2> HIDE DEF new
  <2>3. 0 \notin AllIds
    BY DEF AllIds
  <2> QED BY <2>1, <2>2, <2>3 DEF NoEntry
<1> HIDE DEF new
<1>3. rec' = [rec EXCEPT ![New] = new]
  BY DEF new
<1>4. DOMAIN rec' = AllIds /\ rec'[New] = new /\ \A id \in AllIds : id # New => rec'[id] = rec[id]
  BY <1>1, <1>3 DEF RecsOK
<1>5. \A id \in AllIds : rec[id] # NoEntry => rec[id].ref # 0
  <2> SUFFICES ASSUME NEW id \in AllIds, rec[id] # NoEntry PROVE rec[id].ref # 0
    OBVIOUS
  <2>1. rec[id] \in Entries
    BY DEF RecsOK
  <2>2. rec[id].ref \in AllIds
    BY <2>1 DEF Entries, EntryOf
  <2> QED BY <2>2 DEF AllIds
<1>6. \A id \in AllIds : rec'[id].ref # 0 <=> id <= New
  <2> SUFFICES ASSUME NEW id \in AllIds PROVE rec'[id].ref # 0 <=> id <= New
    OBVIOUS
  <2>0. id \in Nat
    BY DEF AllIds
  <2>1. CASE id = New
    BY <1>1, <1>2, <1>4, <2>1
  <2>2. CASE id # New /\ id <= Made
    BY <1>1, <1>4, <1>5, <2>0, <2>2 DEF RecsOK
  <2>3. CASE id # New /\ ~(id <= Made)
    <3>1. rec'[id] = NoEntry
      BY <1>4, <2>3 DEF RecsOK
    <3>2. ~(id <= New)
      BY <1>1, <2>0, <2>3
    <3> QED BY <3>1, <3>2 DEF NoEntry
  <2> QED BY <2>1, <2>2, <2>3
<1>7. Made' = New
  <2>1. New \in 0 .. MaxId
    BY <1>1
  <2>2. PICK n \in 0 .. MaxId : n = New
    BY <2>1
  <2>3. \A id \in AllIds : rec'[id].ref # 0 <=> id <= n
    BY <1>6, <2>2
  <2>4. Cardinality({id \in AllIds : rec'[id].ref # 0}) = n
    BY <2>3, MadeIs
  <2> QED BY <2>2, <2>4 DEF Made, AllIds
<1>8. RecsOK'
  <2>1. \A id \in AllIds : rec'[id] \in Entries \cup {NoEntry} /\ (id <= Made' <=> rec'[id] # NoEntry)
    <3> SUFFICES ASSUME NEW id \in AllIds
                 PROVE  rec'[id] \in Entries \cup {NoEntry} /\ (id <= New <=> rec'[id] # NoEntry)
      BY <1>7
    <3>0. id \in Nat
      BY DEF AllIds
    <3>1. CASE id = New
      BY <1>1, <1>2, <1>4, <3>1
    <3>2. CASE id # New
      BY <1>1, <1>4, <3>0, <3>2 DEF RecsOK
    <3> QED BY <3>1, <3>2
  <2>2. Made' \in 0 .. MaxId
    BY <1>1, <1>7
  <2> QED BY <1>4, <2>1, <2>2 DEF RecsOK, Entries, EntryOf, AllIds, NoEntry
<1>9. Keeps(Made)
  BY <1>1, <1>4, <1>7 DEF Keeps, AllIds
<1> QED BY <1>1, <1>7, <1>8, <1>9

LEMMA RecIs ==
  ASSUME RecsOK, NEW id \in 1 .. Made
  PROVE  id \in AllIds /\ rec[id] \in Entries
BY FoldersAssumption DEF RecsOK, AllIds

LEMMA NameIs ==
  ASSUME RecsOK
  PROVE  \A id \in 1 .. Made : id \in Nat \ {None} /\ rec[id].name \in Seq(Int)
<1> SUFFICES ASSUME NEW id \in 1 .. Made PROVE id \in Nat \ {None} /\ rec[id].name \in Seq(Int)
  OBVIOUS
<1>1. rec[id] \in Entries
  BY RecIs
<1> QED BY <1>1 DEF Entries, EntryOf, RecsOK, None

LEMMA IndexStays ==
  ASSUME RecsOK, IndexHolds, index' = index, Keeps(Made)
  PROVE  IndexHolds'
<1>1. TreeOK(index)' /\ Ids(index)' = Ids(index)
  BY DEF IndexHolds
<1>2. Ids(index) \subseteq 1 .. Made' /\ \A id \in Ids(index) : index'.entries[id] = rec'[id]
  BY FoldersAssumption DEF IndexHolds, Keeps, RecsOK
<1> QED BY <1>1, <1>2 DEF IndexHolds

LEMMA IndexGains ==
  ASSUME RecsOK, IndexHolds, NEW id \in 1 .. Made, index' = InsertEntry(index, id, rec[id]), rec' = rec
  PROVE  IndexHolds' /\ Ids(index) \subseteq Ids(index')
<1>1. rec[id].name \in Seq(Int) /\ id \in Nat \ {None}
  BY NameIs
<1>2. TreeOK(index') /\ Inserted(index, id, rec[id], index')
  BY <1>1, InsertKeeps DEF IndexHolds
<1>3. Made' = Made
  BY DEF Made
<1>4. Ids(index') \subseteq 1 .. Made
  BY <1>2 DEF Inserted, IndexHolds
<1>5. \A x \in Ids(index') : index'.entries[x] = rec'[x]
  BY <1>2 DEF Inserted, IndexHolds
<1> QED BY <1>2, <1>3, <1>4, <1>5 DEF IndexHolds, Inserted

LEMMA IndexLoses ==
  ASSUME RecsOK, IndexHolds, NEW id, index' = RemoveEntry(index, id), rec' = rec
  PROVE  IndexHolds' /\ Ids(index') = Ids(index) \ {id}
<1>1. TreeOK(index') /\ Removed(index, id, index')
  BY RemoveKeeps DEF IndexHolds
<1>2. Made' = Made
  BY DEF Made
<1>3. Ids(index') = Ids(index) \ {id} /\ Ids(index') \subseteq 1 .. Made
  BY <1>1 DEF Removed, IndexHolds
<1>4. \A x \in Ids(index') : index'.entries[x] = rec'[x]
  BY <1>1 DEF Removed, IndexHolds
<1> QED BY <1>1, <1>2, <1>3, <1>4 DEF IndexHolds

\* A sync takes what is in the one list and adds what is in the other.
LEMMA IndexSyncs ==
  ASSUME RecsOK, IndexHolds, NEW n \in Nat, NEW m \in Nat,
         NEW gone, DOMAIN gone = 1 .. n, NEW fresh, DOMAIN fresh = 1 .. m,
         \A i \in 1 .. m : fresh[i] \in 1 .. Made,
         index' = FoldLeft(LAMBDA ix, id : InsertEntry(ix, id, rec[id]),
                           FoldLeft(LAMBDA ix, id : RemoveEntry(ix, id), index, gone), fresh),
         rec' = rec
  PROVE  IndexHolds' /\ Ids(index) \ RangeOf(gone, 1 .. n) \subseteq Ids(index')
<1> DEFINE less == FoldLeft(LAMBDA ix, id : RemoveEntry(ix, id), index, gone)
           more == Gained(less, fresh, rec)
<1>1. /\ TreeOK(less) /\ Ids(less) = Ids(index) \ RangeOf(gone, 1 .. n)
      /\ \A x \in Ids(less) : less.entries[x] = index.entries[x]
  <2>1. TreeOK(index)
    BY DEF IndexHolds
  <2> QED BY <2>1, RemoveAll
<1>2. index' = more
  BY Zenon DEF Gained
<1> HIDE DEF less
<1>3. \A i \in 1 .. m : fresh[i] \in Nat \ {None} /\ rec[fresh[i]].name \in Seq(Int)
  BY NameIs
<1>4. \A x \in Ids(less) : less.entries[x] = rec[x]
  BY <1>1 DEF IndexHolds
<1>5. /\ TreeOK(more) /\ Ids(more) = Ids(less) \cup RangeOf(fresh, 1 .. m)
      /\ \A x \in Ids(more) : more.entries[x] = rec[x]
  <2>1. IsGained(less, RangeOf(fresh, 1 .. m), rec, more)
    BY <1>1, <1>3, <1>4, InsertAll
  <2> QED BY <2>1 DEF IsGained
<1> HIDE DEF more
<1>6. Made' = Made
  BY DEF Made
<1>7. Ids(index') \subseteq 1 .. Made
  <2>1. Ids(less) \subseteq 1 .. Made
    BY <1>1 DEF IndexHolds
  <2>2. RangeOf(fresh, 1 .. m) \subseteq 1 .. Made
    BY DEF RangeOf
  <2> QED BY <1>2, <1>5, <2>1, <2>2
<1> QED BY <1>1, <1>2, <1>5, <1>6, <1>7 DEF IndexHolds

\* What a name leads to is an entry.
LEMMA FoundIs ==
  ASSUME IndexHolds, NEW d, NEW n
  PROVE  FindChild(index, d, n) \in {None} \cup Ids(index)
BY DEF IndexHolds, TreeOK, IndexOK, NamesOK, FindChild

LEMMA DirsAre ==
  ASSUME RecsOK, IndexHolds
  PROVE  /\ Dirs \subseteq {Root} \cup 1 .. Made /\ Seen \subseteq Dirs
         /\ Dirs \subseteq AllIds \cup {Root}
         /\ \A d \in {Root} \cup 1 .. Made : LockOf(d) \in 0 .. MaxId
<1>1. Dirs \subseteq {Root} \cup 1 .. Made /\ Seen \subseteq Dirs
  BY DEF Dirs, Seen, IndexHolds
<1>2. \A id \in 1 .. Made : id \in AllIds /\ rec[id].ref \in AllIds
  <2> SUFFICES ASSUME NEW id \in 1 .. Made PROVE id \in AllIds /\ rec[id].ref \in AllIds
    OBVIOUS
  <2>1. id \in AllIds /\ rec[id] \in Entries
    BY RecIs
  <2> QED BY <2>1 DEF Entries, EntryOf
<1>3. \A d \in {Root} \cup 1 .. Made : LockOf(d) \in 0 .. MaxId
  BY <1>2, FoldersAssumption DEF LockOf, AllIds
<1> QED BY <1>1, <1>2, <1>3

\* The name of a conflicted copy is one: there are no more names than records.
LEMMA FreeNameIs ==
  ASSUME RecsOK, IndexHolds, New <= MaxId, NEW d, NEW name \in Seq(Int)
  PROVE  FreeName(d, name) \in Seq(Int)
<1> DEFINE Copy(k) == Append(name, -k)
           Free(n) == FindChild(index, d, n) = None
           I == 1 .. MaxId
           free == {j \in I : Free(Copy(j))}
           S == {-k : k \in free}
<1>1. Made \in Nat /\ Made < MaxId /\ MaxId \in Nat
  BY FoldersAssumption DEF RecsOK, New
<1>2. free # {}
  <2> SUFFICES ASSUME free = {} PROVE FALSE
    OBVIOUS
  <2> DEFINE f == [j \in I |-> index.slots[<<d, Copy(j)>>]]
  <2>1. \A j \in I : <<d, Copy(j)>> \in DOMAIN index.slots
    BY DEF FindChild
  <2>2. \A j \in I : f[j] \in 1 .. Made /\ <<d, Copy(j)>> = Spot(index, f[j])
    <3> SUFFICES ASSUME NEW j \in I PROVE f[j] \in 1 .. Made /\ <<d, Copy(j)>> = Spot(index, f[j])
      OBVIOUS
    <3>1. \A s \in DOMAIN index.slots : index.slots[s] \in 1 .. Made /\ s = Spot(index, index.slots[s])
      BY DEF IndexHolds, TreeOK, IndexOK, NamesOK
    <3> HIDE DEF Copy
    <3> QED BY <2>1, <3>1
  <2>3. \A j, k \in I : f[j] = f[k] => j = k
    <3> SUFFICES ASSUME NEW j \in I, NEW k \in I, f[j] = f[k] PROVE j = k
      OBVIOUS
    <3>1. Copy(j) = Copy(k)
      <4> HIDE DEF f, Copy
      <4> QED BY <2>2
    <3>2. Copy(j)[Len(name) + 1] = -j /\ Copy(k)[Len(name) + 1] = -k
      BY <1>1
    <3> QED BY <3>1, <3>2
  <2>4. f \in Injection(I, 1 .. Made)
    <3>1. f \in [I -> 1 .. Made]
      BY <2>2
    <3> HIDE DEF f, I
    <3> QED BY <2>3, <3>1 DEF Injection, IsInjective
  <2>5. Cardinality(I) <= Cardinality(1 .. Made)
    <3> HIDE DEF f
    <3> QED BY <2>4, <1>1, FS_Interval, FS_Injection
  <2>6. Cardinality(1 .. MaxId) = MaxId /\ Cardinality(1 .. Made) = Made
    <3> HIDE DEF f
    <3> QED BY <1>1, FS_Interval
  <2> HIDE DEF f
  <2> QED BY <1>1, <2>5, <2>6
<1>3. free \in SUBSET Nat
  BY <1>1
<1>4. PICK k \in free : \A j \in free : k <= j
  BY <1>2, <1>3, LeastNat
<1>5. Max(S) \in S
  <2>1. -k \in S /\ \A y \in S : -k >= y
    BY <1>3, <1>4
  <2> HIDE DEF S
  <2> QED BY <2>1 DEF Max
<1>6. Max(S) \in Int
  BY <1>3, <1>5
<1>7. FreeName(d, name) = IF Free(name) THEN name ELSE Append(name, Max(S))
  BY DEF FreeName
<1> HIDE DEF S
<1> QED BY <1>6, <1>7

\* A new record of the second format.
LEMMA UnderIs ==
  ASSUME RecsOK, IndexHolds, NEW entry \in NewEntries, NEW d \in Dirs
  PROVE  Under(entry, d) \in NewEntries
<1>1. d \in AllIds \cup {Root} /\ (d # Root => rec[d].ref \in AllIds)
  <2>1. d # Root => rec[d] \in Entries
    BY DirsAre, RecIs
  <2> QED BY <2>1, DirsAre DEF Entries, EntryOf
<1> QED BY <1>1 DEF Under, NewEntries

LEMMA RecsAreNew ==
  ASSUME RecsOK, NEW id \in AllIds
  PROVE  rec[id] \in NewEntries
<1>1. rec[id] \in Entries \/ rec[id] = NoEntry
  BY DEF RecsOK
<1>2. NoEntry \in NewEntries
  BY DEF NoEntry, NewEntries
<1> QED BY <1>1, <1>2 DEF Entries, EntryOf, NewEntries

LEMMA JobsGrow ==
  ASSUME NEW m \in Nat, NEW n \in Nat, m <= n
  PROVE  JobType(m) \subseteq JobType(n)
<1>1. Frames(m) \subseteq Frames(n)
  BY DEF Frames
<1>2. Seq(Frames(m)) \subseteq Seq(Frames(n))
  <2> HIDE DEF Frames
  <2> QED BY <1>1
<1>3. 0 .. m \subseteq 0 .. n
  OBVIOUS
<1> QED BY <1>2, <1>3 DEF JobType

LEMMA JobsStay ==
  ASSUME RecsOK, JobsOK, Keeps(Made), job' = job
  PROVE  JobsOK'
<1>1. JobType(Made) \subseteq JobType(Made')
  <2>1. Made \in Nat /\ Made' \in Nat /\ Made <= Made'
    BY FoldersAssumption DEF RecsOK, Keeps
  <2> QED BY <2>1, JobsGrow
<1> QED BY <1>1 DEF JobsOK

LEMMA SameKeeps ==
  ASSUME RecsOK, rec' = rec
  PROVE  RecsOK' /\ Keeps(Made) /\ Made' = Made
<1>1. Made' = Made
  BY DEF Made
<1>2. Made \in Made .. MaxId /\ \A id \in 1 .. Made : id \in AllIds
  BY FoldersAssumption DEF RecsOK, AllIds
<1> QED BY <1>1, <1>2 DEF RecsOK, Keeps

LEMMA JobsPut ==
  ASSUME RecsOK, JobsOK, Keeps(Made), NEW w \in Workers, NEW j, j \in JobType(Made'), JobHolds(j),
         job' = [job EXCEPT ![w] = j]
  PROVE  JobsOK'
<1>1. JobType(Made) \subseteq JobType(Made')
  <2>1. Made \in Nat /\ Made' \in Nat /\ Made <= Made'
    BY FoldersAssumption DEF RecsOK, Keeps
  <2> QED BY <2>1, JobsGrow
<1>2. DOMAIN job' = Workers /\ job'[w] = j /\ \A v \in Workers : v # w => job'[v] = job[v]
  BY DEF JobsOK
<1>3. \A v \in Workers : job'[v] \in JobType(Made') /\ JobHolds(job'[v])
  BY <1>1, <1>2 DEF JobsOK
<1> QED BY <1>2, <1>3 DEF JobsOK

LEMMA NoJobIs ==
  ASSUME NEW m \in Nat
  PROVE  NoJob \in JobType(m) /\ JobHolds(NoJob)
<1>1. <<>> \in Seq(Frames(m)) /\ <<>> \in Seq(Int) /\ Len(<<>>) = 0
  OBVIOUS
<1>2. NoJob \in JobType(m)
  <2> HIDE DEF Frames
  <2> QED BY <1>1 DEF NoJob, JobType, None, Root
<1>3. JobHolds(NoJob)
  BY <1>1 DEF NoJob, JobHolds, Moves
<1> QED BY <1>2, <1>3

LEMMA EndKeeps ==
  ASSUME RecsOK, JobsOK, Keeps(Made), NEW w \in Workers, End(w)
  PROVE  JobsOK'
<1>1. Made' \in Nat
  BY FoldersAssumption DEF RecsOK, Keeps
<1>2. NoJob \in JobType(Made') /\ JobHolds(NoJob)
  BY <1>1, NoJobIs
<1> QED BY <1>2, JobsPut DEF End

\* A request puts a job on a worker.
LEMMA StartKeeps ==
  ASSUME RecsOK, IndexHolds, JobsOK, rec' = rec, NEW w \in Workers,
         NEW dirs \in SUBSET ({Root} \cup 1 .. Made), NEW j \in JobType(Made), JobHolds(j), Start(w, dirs, j)
  PROVE  JobsOK'
<1> DEFINE k == [j EXCEPT !.locked = {LockOf(d) : d \in dirs}]
<1>1. {LockOf(d) : d \in dirs} \in SUBSET (0 .. MaxId)
  BY DirsAre
<1>2. k \in JobType(Made) /\ JobHolds(k)
  <2> HIDE DEF LockOf
  <2>1. k \in JobType(Made)
    BY <1>1 DEF JobType
  <2>2. k.pc = j.pc /\ k.kind = j.kind /\ k.id = j.id /\ k.stack = j.stack
    BY DEF JobType
  <2> HIDE DEF k
  <2> QED BY <2>1, <2>2 DEF JobHolds, Moves
<1>3. job' = [job EXCEPT ![w] = k]
  BY DEF Start
<1> HIDE DEF k
<1> QED BY <1>2, <1>3, SameKeeps, JobsPut

\* Nothing is stored, and the index stays.
LEMMA StillKeeps ==
  ASSUME FoldersInv, rec' = rec, index' = index, own' = own, stored' = stored,
         JobsOK', pending' \subseteq (AllIds \cup {Root}) \X Seq(Int),
         away' \in AllIds \cup {None}, faults' \in 0 .. MaxFaults
  PROVE  FoldersInv'
<1>1. RecsOK' /\ Keeps(Made) /\ Made' = Made
  BY SameKeeps DEF FoldersInv
<1>2. IndexHolds'
  BY <1>1, IndexStays DEF FoldersInv
<1> QED BY <1>1, <1>2 DEF FoldersInv, AllIds

LEMMA NewJobIs ==
  ASSUME NEW m \in Nat, NEW kind \in {"mkdir", "unlink", "rmdir", "save"}, NEW pc \in {"upload", "delete"},
         NEW j \in JobType(m), j.kind = kind, j.pc = pc, j.stack = <<>>
  PROVE  JobHolds(j)
BY DEF JobHolds, Moves

-----------------------------------------------------------------------------
(* Requests. *)

\* What a request puts on a worker.
LEMMA JobStarts ==
  ASSUME FoldersInv, NEW w \in Workers, NEW dirs \in SUBSET ({Root} \cup 1 .. Made),
         NEW j \in JobType(Made), JobHolds(j), Start(w, dirs, j),
         UNCHANGED <<index, rec, own, stored, pending, away, faults>>
  PROVE  FoldersInv'
<1>1. JobsOK'
  BY StartKeeps DEF FoldersInv
<1> QED BY <1>1, StillKeeps DEF FoldersInv

LEMMA CreateKeeps ==
  ASSUME FoldersInv, NEW d \in Seen, NEW n \in Names, Create(d, n) \/ UnlinkPending(d, n)
  PROVE  FoldersInv'
<1>1. d \in AllIds \cup {Root} /\ n \in Seq(Int)
  BY DirsAre, FoldersAssumption DEF FoldersInv
<1>2. JobsOK'
  <2>1. job' = job /\ rec' = rec
    BY DEF Create, UnlinkPending
  <2> QED BY <2>1, SameKeeps, JobsStay DEF FoldersInv
<1>3. pending' \subseteq (AllIds \cup {Root}) \X Seq(Int)
  BY <1>1 DEF Create, UnlinkPending, FoldersInv
<1> QED BY <1>2, <1>3, StillKeeps DEF FoldersInv, Create, UnlinkPending

LEMMA MkdirKeeps ==
  ASSUME FoldersInv, NEW d \in Seen, NEW n \in Names, NEW w \in Workers, Mkdir(d, n, w)
  PROVE  FoldersInv'
<1> DEFINE j == [NoJob EXCEPT !.kind = "mkdir", !.pc = "upload", !.parent = d, !.name = n]
<1>1. d \in AllIds \cup {Root} /\ n \in Seq(Int) /\ {d} \in SUBSET ({Root} \cup 1 .. Made) /\ Made \in Nat
  BY DirsAre, FoldersAssumption DEF FoldersInv, RecsOK
<1>2. NoJob \in JobType(Made)
  BY <1>1, NoJobIs
<1>3. j \in JobType(Made) /\ j.kind = "mkdir" /\ j.pc = "upload" /\ j.stack = NoJob.stack
  <2> HIDE DEF NoJob, Frames
  <2> QED BY <1>1, <1>2 DEF JobType
<1>4. JobHolds(j)
  <2>1. NoJob.stack = <<>>
    BY DEF NoJob
  <2> HIDE DEF j
  <2> QED BY <1>1, <1>3, <2>1, NewJobIs
<1>5. Start(w, {d}, j) /\ UNCHANGED <<index, rec, own, stored, pending, away, faults>>
  BY DEF Mkdir
<1> HIDE DEF j
<1> QED BY <1>1, <1>3, <1>4, <1>5, JobStarts

LEMMA UnlinkKeeps ==
  ASSUME FoldersInv, NEW d \in Seen, NEW n, NEW w \in Workers, Unlink(d, n, w) \/ Rmdir(d, n, w)
  PROVE  FoldersInv'
<1> DEFINE id == FindChild(index, d, n)
<1>1. PICK kind \in {"unlink", "rmdir"}, dirs \in {{d}, {d, id}} :
        /\ Start(w, dirs, [NoJob EXCEPT !.kind = kind, !.pc = "delete", !.id = id])
        /\ id # None /\ UNCHANGED <<index, rec, own, stored, pending, away, faults>>
  BY DEF Unlink, Rmdir
<1>2. Made \in Nat /\ id \in 1 .. Made /\ dirs \in SUBSET ({Root} \cup 1 .. Made)
  <2>1. id \in {None} \cup Ids(index)
    BY FoundIs DEF FoldersInv
  <2> QED BY <1>1, <2>1, DirsAre, FoldersAssumption DEF FoldersInv, IndexHolds, RecsOK
<1> HIDE DEF id
<1> DEFINE j == [NoJob EXCEPT !.kind = kind, !.pc = "delete", !.id = id]
<1>3. NoJob \in JobType(Made)
  BY <1>2, NoJobIs
<1>4. j \in JobType(Made) /\ j.kind = kind /\ j.pc = "delete" /\ j.stack = NoJob.stack
  <2>1. id \in 0 .. Made /\ kind \in {"none", "mkdir", "unlink", "rmdir", "rename", "save"}
    BY <1>2
  <2> HIDE DEF NoJob, Frames
  <2> QED BY <1>3, <2>1 DEF JobType
<1>5. JobHolds(j)
  <2>1. NoJob.stack = <<>>
    BY DEF NoJob
  <2> HIDE DEF j
  <2> QED BY <1>2, <1>4, <2>1, NewJobIs
<1>6. Start(w, dirs, j)
  BY <1>1
<1> HIDE DEF j
<1> QED BY <1>1, <1>2, <1>4, <1>5, <1>6, JobStarts

LEMMA StartSaveKeeps ==
  ASSUME FoldersInv, NEW p \in pending, NEW w \in Workers, StartSave(p, w)
  PROVE  FoldersInv'
<1> DEFINE j == [NoJob EXCEPT !.kind = "save", !.pc = "upload", !.parent = p[1], !.name = p[2]]
<1>1. p[1] \in AllIds \cup {Root} /\ p[2] \in Seq(Int) /\ Made \in Nat
  BY FoldersAssumption DEF FoldersInv, RecsOK
<1>2. NoJob \in JobType(Made)
  BY <1>1, NoJobIs
<1>3. j \in JobType(Made) /\ j.kind = "save" /\ j.pc = "upload" /\ j.stack = NoJob.stack
  <2> HIDE DEF NoJob, Frames
  <2> QED BY <1>1, <1>2 DEF JobType
<1>4. JobHolds(j)
  <2>1. NoJob.stack = <<>>
    BY DEF NoJob
  <2> HIDE DEF j
  <2> QED BY <1>1, <1>3, <2>1, NewJobIs
<1>5. Start(w, {}, j) /\ UNCHANGED <<index, rec, own, stored, pending, away, faults>>
  BY DEF StartSave
<1> HIDE DEF j
<1> QED BY <1>1, <1>3, <1>4, <1>5, JobStarts

LEMMA RenameKeeps ==
  ASSUME FoldersInv, NEW d \in Seen, NEW d2 \in Seen, NEW n, NEW w \in Workers, NEW n2 \in Names \cup {n},
         Rename(d, n, d2, n2, w)
  PROVE  FoldersInv'
<1> DEFINE id     == FindChild(index, d, n)
           other  == FindChild(index, d2, n2)
           victim == IF other = id THEN None ELSE other
           name   == IF n = n2 THEN rec[id].name ELSE n2
           to     == IF d = d2 THEN Stay ELSE d2
           frame  == Frame(id, name, to)
           tree   == d # d2
           dirs   == {d, d2} \cup (IF victim # None /\ rec[victim].folder THEN {victim} ELSE {})
           j == [NoJob EXCEPT !.kind = "rename", !.pc = "upload", !.victim = victim,
                   !.tree = tree, !.stack = <<frame>>]
<1>1. id \in 1 .. Made /\ other \in {None} \cup 1 .. Made
  <2>1. id # None /\ id \in {None} \cup Ids(index) /\ other \in {None} \cup Ids(index)
    BY FoundIs DEF Rename, FoldersInv
  <2> QED BY <2>1 DEF FoldersInv, IndexHolds
<1>2. Made \in Nat /\ d \in {Root} \cup 1 .. Made /\ d2 \in {Root} \cup 1 .. Made /\ d2 \in AllIds \cup {Root}
  BY FoldersAssumption, DirsAre DEF FoldersInv, RecsOK
<1>3. Start(w, dirs, j) /\ UNCHANGED <<index, rec, own, stored, pending, away, faults>>
  BY DEF Rename
<1>4. name \in Seq(Int)
  BY <1>1, NameIs, FoldersAssumption DEF FoldersInv
<1>5. to \in AllIds \cup {Root, Stay} /\ tree \in BOOLEAN
  BY <1>2
<1>6. victim \in {None} \cup 1 .. Made /\ dirs \in SUBSET ({Root} \cup 1 .. Made)
  BY <1>1, <1>2
<1> HIDE DEF id, other, victim, name, to, dirs, tree
<1>7. frame \in Frames(Made)
  BY <1>1, <1>2, <1>4, <1>5 DEF Frames, Frame, None
<1> HIDE DEF frame
<1>8. <<frame>> \in Seq(Frames(Made)) /\ Len(<<frame>>) = 1 /\ <<frame>> # <<>>
  BY <1>7
<1>9. j \in JobType(Made)
  <2>1. NoJob \in JobType(Made)
    BY <1>2, NoJobIs
  <2>2. victim \in 0 .. Made
    BY <1>2, <1>6 DEF None
  <2> HIDE DEF NoJob, Frames
  <2> QED BY <1>5, <1>8, <2>1, <2>2 DEF JobType
<1>10. JobHolds(j)
  <2>1. j.pc = "upload" /\ j.kind = "rename" /\ j.stack = <<frame>>
    BY DEF NoJob
  <2> HIDE DEF j
  <2>2. \A k \in DOMAIN j.stack : ~(k < Len(j.stack))
    BY <1>8, <2>1
  <2> QED BY <1>8, <2>1, <2>2 DEF JobHolds, Moves
<1> HIDE DEF j
<1> QED BY <1>3, <1>6, <1>9, <1>10, JobStarts

-----------------------------------------------------------------------------
(* What a worker does. *)

\* A record is stored, and the index stays.
LEMMA StoreStep ==
  ASSUME FoldersInv, NEW entry \in NewEntries, New <= MaxId,
         rec' = [rec EXCEPT ![New] = [entry EXCEPT !.ref = IF @ = 0 THEN New ELSE @]],
         stored' = stored \cup {New}, own' \subseteq own \cup {New}, index' = index,
         JobsOK', pending' = pending, faults' = faults, away' \in AllIds \cup {None}
  PROVE  FoldersInv'
<1>1. RecsOK' /\ Made' = New /\ Keeps(Made)
  BY StoreKeeps DEF FoldersInv
<1>2. IndexHolds'
  BY <1>1, IndexStays DEF FoldersInv
<1>3. own' \cup stored' \subseteq 1 .. Made'
  BY <1>1, FoldersAssumption DEF FoldersInv, RecsOK, New
<1> QED BY <1>1, <1>2, <1>3 DEF FoldersInv, AllIds

\* The index changes, and no record does.
LEMMA IndexStep ==
  ASSUME FoldersInv, rec' = rec, IndexHolds', JobsOK', own' = own, stored' \subseteq stored,
         pending' = pending, away' = away, faults' \in 0 .. MaxFaults
  PROVE  FoldersInv'
<1>1. RecsOK' /\ Made' = Made
  BY SameKeeps DEF FoldersInv
<1> QED BY <1>1 DEF FoldersInv, AllIds

LEMMA FailsKeep ==
  ASSUME FoldersInv, Fails
  PROVE  faults' \in 0 .. MaxFaults
BY FoldersAssumption DEF FoldersInv, Fails

LEMMA UploadFailsKeeps ==
  ASSUME FoldersInv, NEW w \in Workers, UploadFails(w)
  PROVE  FoldersInv'
<1>1. rec' = rec /\ End(w) /\ Fails /\ UNCHANGED <<index, own, stored, pending, away>>
  BY DEF UploadFails
<1>2. JobsOK'
  BY <1>1, SameKeeps, EndKeeps DEF FoldersInv
<1> QED BY <1>1, <1>2, FailsKeep, StillKeeps DEF FoldersInv

LEMMA UploadNewKeeps ==
  ASSUME FoldersInv, NEW w \in Workers, UploadNew(w)
  PROVE  FoldersInv'
<1> DEFINE d    == job[w].parent
           name == IF job[w].kind = "save" THEN FreeName(d, job[w].name) ELSE job[w].name
           plain == [NoEntry EXCEPT !.folder = job[w].kind = "mkdir", !.name = name]
           entry == Under(plain, d)
           j    == [job[w] EXCEPT !.pc = "ingest", !.id = New]
<1>1. job[w] \in JobType(Made) /\ JobHolds(job[w]) /\ Made \in Nat
  BY FoldersAssumption DEF FoldersInv, JobsOK, RecsOK
<1>2. CASE d \in Dirs
  <2>1. /\ New <= MaxId /\ rec' = [rec EXCEPT ![New] = [entry EXCEPT !.ref = IF @ = 0 THEN New ELSE @]]
        /\ stored' = stored \cup {New} /\ own' = own \cup {New}
        /\ UNCHANGED <<index, pending, away, faults>>
        /\ job[w].kind \in {"save", "mkdir"}
    BY <1>2 DEF UploadNew, Store
  <2>2. job' = [job EXCEPT ![w] = j]
    BY <1>2 DEF UploadNew
  <2>3. name \in Seq(Int)
    <3>1. job[w].name \in Seq(Int)
      BY <1>1 DEF JobType
    <3>2. FreeName(d, job[w].name) \in Seq(Int)
      BY <2>1, <3>1, FreeNameIs DEF FoldersInv
    <3> QED BY <3>1, <3>2
  <2>4. entry \in NewEntries
    <3>1. plain \in NewEntries
      <4> HIDE DEF name
      <4> QED BY <2>3 DEF NoEntry, NewEntries
    <3> HIDE DEF plain
    <3> QED BY <1>2, <3>1, UnderIs DEF FoldersInv
  <2> HIDE DEF entry, name, plain
  <2>5. Keeps(Made) /\ Made' = New /\ New = Made + 1
    BY <2>1, <2>4, StoreKeeps DEF FoldersInv, New
  <2>6. job[w] \in JobType(New)
    BY <1>1, <2>5, JobsGrow
  <2>7. New \in 0 .. New /\ New # None
    BY <1>1, <2>5 DEF None
  <2>8. j \in JobType(New) /\ j.pc = "ingest" /\ j.id = New /\ j.kind = job[w].kind /\ j.stack = job[w].stack
    <3> HIDE DEF Frames, New
    <3> QED BY <2>6, <2>7 DEF JobType
  <2>9. JobHolds(j)
    <3> HIDE DEF j, New
    <3> QED BY <1>1, <2>1, <2>7, <2>8 DEF JobHolds, Moves
  <2> HIDE DEF j
  <2>10. JobsOK'
    BY <2>2, <2>5, <2>8, <2>9, JobsPut DEF FoldersInv
  <2>11. away' \in AllIds \cup {None}
    BY <2>1 DEF FoldersInv
  <2> QED BY <2>1, <2>4, <2>10, <2>11, StoreStep
<1>3. CASE d \notin Dirs
  <2>1. rec' = rec /\ End(w) /\ UNCHANGED <<index, own, stored, pending, away, faults>>
    BY <1>3 DEF UploadNew
  <2>2. JobsOK'
    BY <2>1, SameKeeps, EndKeeps DEF FoldersInv
  <2> QED BY <2>1, <2>2, StillKeeps DEF FoldersInv
<1> QED BY <1>2, <1>3

LEMMA IngestNewKeeps ==
  ASSUME FoldersInv, NEW w \in Workers, IngestNew(w)
  PROVE  FoldersInv'
<1> DEFINE j == [job[w] EXCEPT !.pc = "repoint"]
<1>1. job[w] \in JobType(Made) /\ JobHolds(job[w]) /\ Made \in Nat
  BY FoldersAssumption DEF FoldersInv, JobsOK, RecsOK
<1>2. /\ index' = InsertEntry(index, job[w].id, rec[job[w].id]) /\ UNCHANGED <<rec, own, stored, pending, away, faults>>
      /\ job[w].kind # "rename" /\ job[w].pc = "ingest"
  BY DEF IngestNew, AtPc
<1>3. job[w].id \in 1 .. Made
  BY <1>1, <1>2 DEF JobHolds, JobType, None
<1>4. IndexHolds'
  BY <1>2, <1>3, IndexGains DEF FoldersInv
<1>5. JobsOK'
  <2>1. CASE End(w)
    BY <1>2, <2>1, SameKeeps, EndKeeps DEF FoldersInv
  <2>2. CASE GoTo(w, "repoint")
    <3>1. job' = [job EXCEPT ![w] = j]
      BY <2>2 DEF GoTo
    <3>2. j \in JobType(Made) /\ j.pc = "repoint" /\ j.kind = job[w].kind /\ j.stack = job[w].stack
      <4> HIDE DEF Frames
      <4> QED BY <1>1 DEF JobType
    <3>3. JobHolds(j)
      <4> HIDE DEF j
      <4> QED BY <1>1, <1>2, <3>2 DEF JobHolds, Moves
    <3>4. Made' = Made /\ Keeps(Made)
      BY <1>2, SameKeeps DEF FoldersInv
    <3> HIDE DEF j
    <3> QED BY <3>1, <3>2, <3>3, <3>4, JobsPut DEF FoldersInv
  <2> QED BY <2>1, <2>2 DEF IngestNew
<1>6. faults' \in 0 .. MaxFaults
  BY <1>2 DEF FoldersInv
<1> QED BY <1>2, <1>4, <1>5, <1>6, IndexStep

LEMMA SavedKeeps ==
  ASSUME FoldersInv, NEW w \in Workers, Saved(w)
  PROVE  FoldersInv'
<1>1. rec' = rec /\ End(w) /\ UNCHANGED <<index, own, stored, away, faults>> /\ pending' \subseteq pending
  BY DEF Saved
<1>2. JobsOK'
  BY <1>1, SameKeeps, EndKeeps DEF FoldersInv
<1> QED BY <1>1, <1>2, StillKeeps DEF FoldersInv

\* What a removal of a record leaves.
LEMMA DropStep ==
  ASSUME FoldersInv, NEW id, Drop(id) \/ UNCHANGED <<index, stored>>, JobsOK',
         UNCHANGED <<rec, own, pending, away>>, faults' = faults \/ Fails
  PROVE  FoldersInv'
<1>1. IndexHolds'
  <2>1. CASE Drop(id)
    BY <2>1, IndexLoses DEF Drop, FoldersInv
  <2>2. CASE UNCHANGED <<index, stored>>
    BY <2>2, SameKeeps, IndexStays DEF FoldersInv
  <2> QED BY <2>1, <2>2
<1>2. stored' \subseteq stored
  BY DEF Drop
<1>3. faults' \in 0 .. MaxFaults
  BY FailsKeep DEF FoldersInv
<1> QED BY <1>1, <1>2, <1>3, IndexStep

LEMMA DeleteKeeps ==
  ASSUME FoldersInv, NEW w \in Workers, Delete(w) \/ Replace(w)
  PROVE  FoldersInv'
<1>1. End(w) /\ UNCHANGED <<rec, own, pending, away>> /\ (faults' = faults \/ Fails)
  BY DEF Delete, Replace
<1>2. JobsOK'
  BY <1>1, SameKeeps, EndKeeps DEF FoldersInv
<1>3. \E id : Drop(id) \/ UNCHANGED <<index, stored>>
  BY DEF Delete, Replace
<1> QED BY <1>1, <1>2, <1>3, DropStep

-----------------------------------------------------------------------------
(* Moves. *)

\* A job goes on with what it moves.
GoesOn(j, pc, stack) == [j EXCEPT !.pc = pc, !.stack = stack]

LEMMA GoesOnIs ==
  ASSUME NEW m \in Nat, NEW j \in JobType(m), NEW pc \in {"upload", "ingest", "list", "kids", "replace"},
         NEW stack \in Seq(Frames(m)), j.kind # "rename" => stack = <<>>,
         pc \in {"list", "kids"} \/ (pc \in {"upload", "ingest"} /\ j.kind = "rename") => stack # <<>>,
         pc # "ingest" \/ j.kind = "rename",
         \A k \in DOMAIN stack : k < Len(stack) \/ pc \in {"ingest", "list", "kids"} => stack[k].new # None
  PROVE  GoesOn(j, pc, stack) \in JobType(m) /\ JobHolds(GoesOn(j, pc, stack))
<1> DEFINE k == GoesOn(j, pc, stack)
<1>1. k \in JobType(m) /\ k.pc = pc /\ k.stack = stack /\ k.kind = j.kind
  <2> HIDE DEF Frames
  <2> QED BY DEF GoesOn, JobType
<1> HIDE DEF k
<1>2. JobHolds(k)
  BY <1>1 DEF JobHolds, Moves
<1> QED BY <1>1, <1>2 DEF k

\* What is at the top of a job's stack.
LEMMA TopIs ==
  ASSUME FoldersInv, NEW w \in Workers, Moves(job[w])
  PROVE  /\ Made \in Nat /\ job[w] \in JobType(Made) /\ JobHolds(job[w])
         /\ job[w].stack \in Seq(Frames(Made)) /\ Len(job[w].stack) \in Nat /\ Len(job[w].stack) # 0
         /\ DOMAIN job[w].stack = 1 .. Len(job[w].stack) /\ job[w].kind = "rename"
         /\ Top(w) = job[w].stack[Len(job[w].stack)] /\ Top(w) \in Frames(Made)
<1>1. Made \in Nat /\ job[w] \in JobType(Made) /\ JobHolds(job[w])
  BY FoldersAssumption DEF FoldersInv, JobsOK, RecsOK
<1>2. job[w].stack \in Seq(Frames(Made)) /\ job[w].stack # <<>> /\ job[w].kind = "rename"
  <2>1. job[w].stack \in Seq(Frames(Made))
    BY <1>1 DEF JobType
  <2> QED BY <1>1, <2>1 DEF JobHolds
<1>3. Top(w) = job[w].stack[Len(job[w].stack)]
  BY DEF Top, Last
<1> HIDE DEF Frames
<1> QED BY <1>1, <1>2, <1>3

LEMMA UploadCopyKeeps ==
  ASSUME FoldersInv, NEW w \in Workers, UploadCopy(w)
  PROVE  FoldersInv'
<1> DEFINE f == Top(w)
           d == IF f.parent # Stay THEN f.parent
                ELSE IF f.id \in Ids(index) THEN index.placed[f.id] ELSE Unresolved
           moved == [rec[f.id] EXCEPT !.name = f.name]
           entry == IF moved.v2 THEN Under(moved, d) ELSE [moved EXCEPT !.parent = d]
           s == job[w].stack
           top == [f EXCEPT !.new = New]
           stack == SetTop(w, top)
           goes == /\ f.id \in Ids(index) /\ d # Unresolved
                   /\ rec[f.id].folder => MayMoveInto(f.id, d)
                   /\ rec[f.id].v2 => d \in Dirs
<1>0. Moves(job[w])
  BY DEF UploadCopy, AtPc, Moves
<1>1. /\ Made \in Nat /\ job[w] \in JobType(Made) /\ JobHolds(job[w]) /\ s \in Seq(Frames(Made))
      /\ Len(s) \in Nat /\ Len(s) # 0 /\ DOMAIN s = 1 .. Len(s) /\ job[w].kind = "rename" /\ f \in Frames(Made)
  BY <1>0, TopIs
<1>2. CASE goes
  <2>1. /\ New <= MaxId /\ rec' = [rec EXCEPT ![New] = [entry EXCEPT !.ref = IF @ = 0 THEN New ELSE @]]
        /\ stored' = stored \cup {New} /\ own' = own \cup {New}
        /\ UNCHANGED <<index, pending, away, faults>>
    BY <1>2 DEF UploadCopy, Store
  <2>2. job' = [job EXCEPT ![w] = GoesOn(job[w], "ingest", stack)]
    <3>1. job' = [job EXCEPT ![w].pc = "ingest", ![w].stack = stack]
      BY <1>2 DEF UploadCopy
    <3> HIDE DEF stack
    <3>2. job' = [job EXCEPT ![w] = [job[w] EXCEPT !.pc = "ingest", !.stack = stack]]
      BY <3>1, Zenon
    <3> QED BY <3>2 DEF GoesOn
  <2>3. f.id \in AllIds /\ rec[f.id] \in Entries /\ f.name \in Seq(Int)
    BY <1>1, RecIs DEF Frames, FoldersInv
  <2>4. d \in AllIds \cup {Root}
    <3>1. CASE f.parent # Stay
      BY <1>1, <3>1 DEF Frames
    <3>2. CASE f.parent = Stay
      <4>1. TreeOK(index) /\ index.entries[f.id] = rec[f.id] /\ f.id \in Ids(index)
        BY <1>2 DEF FoldersInv, IndexHolds
      <4>2. d = Resolve(index, f.id)
        BY <3>2, <4>1 DEF TreeOK
      <4>3. d \in {rec[f.id].parent} \cup Ids(index)
        BY <1>2, <4>1, <4>2, ResolveIn DEF TreeOK, IndexOK
      <4>4. rec[f.id].parent \in AllIds \cup {Root}
        BY <2>3 DEF Entries, EntryOf
      <4> QED BY <4>3, <4>4, RecIs DEF FoldersInv, IndexHolds
    <3> QED BY <3>1, <3>2
  <2>5. moved \in NewEntries /\ moved.v2 = rec[f.id].v2
    <3>1. rec[f.id] \in NewEntries
      BY <2>3, RecsAreNew DEF FoldersInv
    <3> HIDE DEF f
    <3> QED BY <2>3, <3>1 DEF NewEntries
  <2>6. entry \in NewEntries
    <3>1. CASE moved.v2
      <4>1. d \in Dirs
        BY <1>2, <2>5, <3>1
      <4> HIDE DEF moved, d
      <4> QED BY <2>5, <3>1, <4>1, UnderIs DEF FoldersInv
    <3>2. CASE ~moved.v2
      <4> HIDE DEF moved, d
      <4> QED BY <2>4, <2>5, <3>2 DEF NewEntries
    <3> QED BY <3>1, <3>2
  <2> HIDE DEF entry, moved, d, f
  <2>7. Keeps(Made) /\ Made' = New /\ New = Made + 1
    BY <2>1, <2>6, StoreKeeps DEF FoldersInv, New
  <2>8. New \in Nat /\ New # None /\ Made <= New
    BY <1>1, <2>7 DEF None
  <2>9. job[w] \in JobType(New) /\ s \in Seq(Frames(New))
    <3>1. job[w] \in JobType(New)
      BY <1>1, <2>8, JobsGrow
    <3> HIDE DEF New
    <3> QED BY <3>1 DEF JobType
  <2>10. top \in Frames(New) /\ top.new = New
    <3>1. f.id \in 1 .. New /\ f.kids \in SUBSET (1 .. New) /\ New \in 0 .. New
      <4> HIDE DEF New
      <4> QED BY <1>1, <2>8 DEF Frames
    <3> HIDE DEF New
    <3> QED BY <1>1, <3>1 DEF Frames
  <2>11. stack = [s EXCEPT ![Len(s)] = top]
    BY DEF SetTop
  <2> HIDE DEF stack, top
  <2>12. /\ stack \in Seq(Frames(New)) /\ Len(stack) = Len(s) /\ stack # <<>>
         /\ DOMAIN stack = 1 .. Len(s) /\ stack[Len(s)] = top
         /\ \A k \in 1 .. Len(s) : k # Len(s) => stack[k] = s[k]
    <3> HIDE DEF Frames, New
    <3>1. stack \in Seq(Frames(New)) /\ Len(stack) = Len(s) /\ DOMAIN stack = 1 .. Len(s)
      BY <1>1, <2>9, <2>10, <2>11
    <3>2. stack[Len(s)] = top /\ \A k \in 1 .. Len(s) : k # Len(s) => stack[k] = s[k]
      BY <1>1, <2>11
    <3> QED BY <1>1, <3>1, <3>2
  <2>13. \A k \in DOMAIN stack : stack[k].new # None
    <3>1. \A k \in 1 .. Len(s) : k # Len(s) => k < Len(s)
      BY <1>1
    <3> QED BY <1>1, <2>8, <2>10, <2>12, <3>1 DEF JobHolds
  <2>14. GoesOn(job[w], "ingest", stack) \in JobType(New) /\ JobHolds(GoesOn(job[w], "ingest", stack))
    <3> HIDE DEF New, Frames, JobType
    <3> QED BY <1>1, <2>8, <2>9, <2>12, <2>13, GoesOnIs
  <2>15. JobsOK'
    BY <2>2, <2>7, <2>14, JobsPut DEF FoldersInv
  <2>16. away' \in AllIds \cup {None}
    BY <2>1 DEF FoldersInv
  <2> QED BY <2>1, <2>6, <2>15, <2>16, StoreStep
<1>3. CASE ~goes
  <2>1. rec' = rec /\ End(w) /\ UNCHANGED <<index, own, stored, pending, away, faults>>
    BY <1>3 DEF UploadCopy
  <2>2. JobsOK'
    BY <2>1, SameKeeps, EndKeeps DEF FoldersInv
  <2> QED BY <2>1, <2>2, StillKeeps DEF FoldersInv
<1> QED BY <1>2, <1>3

\* A step of a move that makes no record.
LEMMA MoveStep ==
  ASSUME FoldersInv, NEW w \in Workers, NEW pc, NEW stack, rec' = rec,
         job' = [job EXCEPT ![w] = GoesOn(job[w], pc, stack)],
         GoesOn(job[w], pc, stack) \in JobType(Made), JobHolds(GoesOn(job[w], pc, stack))
  PROVE  JobsOK'
BY SameKeeps, JobsPut DEF FoldersInv

LEMMA IngestCopyKeeps ==
  ASSUME FoldersInv, NEW w \in Workers, IngestCopy(w)
  PROVE  FoldersInv'
<1> DEFINE s == job[w].stack
<1>0. Moves(job[w]) /\ job[w].pc = "ingest"
  BY DEF IngestCopy, AtPc, Moves
<1>1. /\ Made \in Nat /\ job[w] \in JobType(Made) /\ JobHolds(job[w]) /\ s \in Seq(Frames(Made))
      /\ Len(s) \in Nat /\ Len(s) # 0 /\ DOMAIN s = 1 .. Len(s) /\ job[w].kind = "rename"
      /\ Top(w) = s[Len(s)] /\ Top(w) \in Frames(Made)
  BY <1>0, TopIs
<1>2. Top(w).new \in 1 .. Made
  <2>1. Len(s) \in DOMAIN s /\ Top(w).new \in 0 .. Made
    <3>1. Top(w).new \in 0 .. Made
      BY <1>1 DEF Frames
    <3> HIDE DEF Frames
    <3> QED BY <1>1, <3>1
  <2>2. Top(w).new # None
    BY <1>0, <1>1, <2>1 DEF JobHolds
  <2> QED BY <1>1, <2>1, <2>2 DEF None
<1>3. /\ index' = InsertEntry(index, Top(w).new, rec[Top(w).new])
      /\ UNCHANGED <<rec, own, stored, pending, away, faults>>
  BY DEF IngestCopy
<1>4. IndexHolds'
  BY <1>2, <1>3, IndexGains DEF FoldersInv
<1>5. job' = [job EXCEPT ![w] = GoesOn(job[w], "list", s)]
  <2>1. GoesOn(job[w], "list", s) = [job[w] EXCEPT !.pc = "list"]
    <3> HIDE DEF Frames
    <3> QED BY <1>1 DEF GoesOn, JobType
  <2> QED BY <2>1 DEF IngestCopy, GoTo
<1>6. GoesOn(job[w], "list", s) \in JobType(Made) /\ JobHolds(GoesOn(job[w], "list", s))
  <2>1. s # <<>> /\ \A k \in DOMAIN s : s[k].new # None
    BY <1>0, <1>1 DEF JobHolds
  <2> HIDE DEF Frames, JobType
  <2> QED BY <1>1, <2>1, GoesOnIs
<1>7. JobsOK'
  BY <1>3, <1>5, <1>6, MoveStep
<1>8. faults' \in 0 .. MaxFaults
  BY <1>3 DEF FoldersInv
<1> QED BY <1>3, <1>4, <1>7, <1>8, IndexStep

LEMMA ListKidsKeeps ==
  ASSUME FoldersInv, NEW w \in Workers, ListKids(w)
  PROVE  FoldersInv'
<1> DEFINE s == job[w].stack
           kids == {k \in Children(index, Top(w).id) : ~rec[k].v2}
           top == [Top(w) EXCEPT !.kids = kids]
           stack == [s EXCEPT ![Len(s)] = top]
<1>0. Moves(job[w]) /\ job[w].pc = "list"
  BY DEF ListKids, AtPc, Moves
<1>1. /\ Made \in Nat /\ job[w] \in JobType(Made) /\ JobHolds(job[w]) /\ s \in Seq(Frames(Made))
      /\ Len(s) \in Nat /\ Len(s) # 0 /\ DOMAIN s = 1 .. Len(s) /\ job[w].kind = "rename"
      /\ Top(w) = s[Len(s)] /\ Top(w) \in Frames(Made)
  BY <1>0, TopIs
<1>2. UNCHANGED <<index, rec, own, stored, pending, away, faults>>
  BY DEF ListKids
<1>3. job' = [job EXCEPT ![w] = GoesOn(job[w], "kids", stack)]
  <2>1. job' = [job EXCEPT ![w].pc = "kids", ![w].stack = stack]
    BY DEF ListKids, SetTop
  <2> HIDE DEF stack
  <2>2. job' = [job EXCEPT ![w] = [job[w] EXCEPT !.pc = "kids", !.stack = stack]]
    BY <2>1, Zenon
  <2> QED BY <2>2 DEF GoesOn
<1>4. kids \subseteq 1 .. Made
  BY DEF Children, FoldersInv, IndexHolds, TreeOK
<1>5. top \in Frames(Made) /\ top.new = Top(w).new
  <2> HIDE DEF kids
  <2> QED BY <1>1, <1>4 DEF Frames
<1> HIDE DEF top
<1>6. /\ stack \in Seq(Frames(Made)) /\ Len(stack) = Len(s) /\ stack # <<>>
      /\ DOMAIN stack = 1 .. Len(s) /\ stack[Len(s)] = top
      /\ \A k \in 1 .. Len(s) : k # Len(s) => stack[k] = s[k]
  <2> HIDE DEF Frames
  <2> QED BY <1>1, <1>5
<1> HIDE DEF stack
<1>7. \A k \in DOMAIN stack : stack[k].new # None
  BY <1>0, <1>1, <1>5, <1>6 DEF JobHolds
<1>8. GoesOn(job[w], "kids", stack) \in JobType(Made) /\ JobHolds(GoesOn(job[w], "kids", stack))
  <2> HIDE DEF Frames, JobType
  <2> QED BY <1>1, <1>6, <1>7, GoesOnIs
<1>9. JobsOK'
  BY <1>2, <1>3, <1>8, MoveStep
<1> QED BY <1>2, <1>9, StillKeeps DEF FoldersInv

LEMMA MoveKidKeeps ==
  ASSUME FoldersInv, NEW w \in Workers, NEW k, MoveKid(w, k)
  PROVE  FoldersInv'
<1> DEFINE s == job[w].stack
           top == [Top(w) EXCEPT !.kids = Top(w).kids \ {k}]
           kid == Frame(k, rec[k].name, Top(w).new)
           rest == [s EXCEPT ![Len(s)] = top]
           stack == Append(rest, kid)
<1>0. Moves(job[w]) /\ job[w].pc = "kids"
  BY DEF MoveKid, AtPc, Moves
<1>1. /\ Made \in Nat /\ job[w] \in JobType(Made) /\ JobHolds(job[w]) /\ s \in Seq(Frames(Made))
      /\ Len(s) \in Nat /\ Len(s) # 0 /\ DOMAIN s = 1 .. Len(s) /\ job[w].kind = "rename"
      /\ Top(w) = s[Len(s)] /\ Top(w) \in Frames(Made)
  BY <1>0, TopIs
<1>2. UNCHANGED <<index, rec, own, stored, pending, away, faults>> /\ k \in Top(w).kids
  BY DEF MoveKid
<1>3. job' = [job EXCEPT ![w] = GoesOn(job[w], "upload", stack)]
  <2>1. job' = [job EXCEPT ![w].pc = "upload", ![w].stack = stack]
    BY DEF MoveKid, SetTop
  <2> HIDE DEF stack
  <2>2. job' = [job EXCEPT ![w] = [job[w] EXCEPT !.pc = "upload", !.stack = stack]]
    BY <2>1, Zenon
  <2> QED BY <2>2 DEF GoesOn
<1>4. kid \in Frames(Made)
  <2>1. k \in 1 .. Made /\ Top(w).new \in 0 .. Made
    BY <1>1, <1>2 DEF Frames
  <2>2. rec[k].name \in Seq(Int)
    BY <2>1, NameIs DEF FoldersInv
  <2>3. Top(w).new \in AllIds \cup {Root, Stay}
    BY <2>1, <1>1, RecIs DEF FoldersInv, Root
  <2>4. None \in 0 .. Made
    BY <1>1 DEF None
  <2> QED BY <2>1, <2>2, <2>3, <2>4 DEF Frame, Frames
<1>5. top \in Frames(Made) /\ top.new = Top(w).new
  BY <1>1 DEF Frames
<1> HIDE DEF top, kid
<1>6. /\ rest \in Seq(Frames(Made)) /\ Len(rest) = Len(s)
      /\ DOMAIN rest = 1 .. Len(s) /\ rest[Len(s)] = top
      /\ \A i \in 1 .. Len(s) : i # Len(s) => rest[i] = s[i]
  <2> HIDE DEF Frames
  <2> QED BY <1>1, <1>5
<1> HIDE DEF rest
<1>7. /\ stack \in Seq(Frames(Made)) /\ Len(stack) = Len(s) + 1 /\ stack # <<>>
      /\ DOMAIN stack = 1 .. Len(s) + 1 /\ \A i \in 1 .. Len(s) : stack[i] = rest[i]
  <2> HIDE DEF Frames
  <2> QED BY <1>1, <1>4, <1>6
<1> HIDE DEF stack
<1>8. \A i \in DOMAIN stack : i < Len(stack) => stack[i].new # None
  <2>1. \A i \in 1 .. Len(s) : rest[i].new # None
    BY <1>0, <1>1, <1>5, <1>6 DEF JobHolds
  <2>2. \A i \in DOMAIN stack : i < Len(stack) => i \in 1 .. Len(s)
    BY <1>1, <1>7
  <2> QED BY <1>7, <2>1, <2>2
<1>9. GoesOn(job[w], "upload", stack) \in JobType(Made) /\ JobHolds(GoesOn(job[w], "upload", stack))
  <2> HIDE DEF Frames, JobType
  <2> QED BY <1>1, <1>7, <1>8, GoesOnIs
<1>10. JobsOK'
  BY <1>2, <1>3, <1>9, MoveStep
<1> QED BY <1>2, <1>10, StillKeeps DEF FoldersInv

LEMMA DropOldKeeps ==
  ASSUME FoldersInv, NEW w \in Workers, DropOld(w)
  PROVE  FoldersInv'
<1> DEFINE s == job[w].stack
           stack == Front(s)
           pc == IF Len(s) = 1 THEN "replace" ELSE "kids"
<1>0. Moves(job[w]) /\ job[w].pc = "kids"
  BY DEF DropOld, AtPc, Moves
<1>1. /\ Made \in Nat /\ job[w] \in JobType(Made) /\ JobHolds(job[w]) /\ s \in Seq(Frames(Made))
      /\ Len(s) \in Nat /\ Len(s) # 0 /\ DOMAIN s = 1 .. Len(s) /\ job[w].kind = "rename"
      /\ Top(w) = s[Len(s)] /\ Top(w) \in Frames(Made)
  BY <1>0, TopIs
<1>2. UNCHANGED <<rec, own, pending, away, faults>> /\ Drop(Top(w).id)
  BY DEF DropOld
<1>3. job' = [job EXCEPT ![w] = GoesOn(job[w], pc, stack)]
  <2>1. job' = [job EXCEPT ![w].stack = stack, ![w].pc = pc]
    BY DEF DropOld
  <2> HIDE DEF stack, pc
  <2>2. job' = [job EXCEPT ![w] = [job[w] EXCEPT !.stack = stack, !.pc = pc]]
    BY <2>1, Zenon
  <2>3. [job[w] EXCEPT !.stack = stack, !.pc = pc] = [job[w] EXCEPT !.pc = pc, !.stack = stack]
    <3> HIDE DEF Frames
    <3> QED BY <1>1 DEF JobType
  <2> QED BY <2>2, <2>3 DEF GoesOn
<1>4. /\ stack \in Seq(Frames(Made)) /\ Len(stack) = Len(s) - 1 /\ DOMAIN stack = 1 .. Len(s) - 1
      /\ \A i \in 1 .. Len(s) - 1 : stack[i] = s[i]
  <2>1. stack = SubSeq(s, 1, Len(s) - 1)
    BY DEF Front
  <2> HIDE DEF Frames, stack
  <2>2. stack \in Seq(Frames(Made))
    BY <1>1, <2>1
  <2>3. Len(stack) = Len(s) - 1 /\ \A i \in 1 .. Len(s) - 1 : stack[i] = s[i]
    BY <1>1, <2>1
  <2> QED BY <2>2, <2>3
<1>5. pc = "kids" => stack # <<>>
  <2>1. pc = "kids" => Len(stack) # 0
    <3> HIDE DEF stack
    <3> QED BY <1>1, <1>4
  <2>2. Len(<<>>) = 0
    OBVIOUS
  <2> HIDE DEF stack, pc
  <2> QED BY <2>1, <2>2
<1>6. pc \in {"replace", "kids"}
  OBVIOUS
<1> HIDE DEF stack, pc
<1>7. \A i \in DOMAIN stack : stack[i].new # None
  BY <1>0, <1>1, <1>4 DEF JobHolds
<1>8. GoesOn(job[w], pc, stack) \in JobType(Made) /\ JobHolds(GoesOn(job[w], pc, stack))
  <2> HIDE DEF Frames, JobType
  <2> QED BY <1>1, <1>4, <1>5, <1>6, <1>7, GoesOnIs
<1>9. JobsOK'
  BY <1>2, <1>3, <1>8, MoveStep
<1> QED BY <1>2, <1>9, DropStep DEF FoldersInv

-----------------------------------------------------------------------------
(* The other client, syncs, and the start. *)

LEMMA ElsewhereKeeps ==
  ASSUME FoldersInv, NEW id \in AllIds,
         \/ \E n \in Names : CreateElsewhere(n) \/ RenameElsewhere(id, n)
         \/ UpgradeElsewhere(id) \/ DeleteElsewhere(id)
  PROVE  FoldersInv'
<1>1. \A n \in Names : n \in Seq(Int)
  BY FoldersAssumption
<1>2. ASSUME NEW entry \in NewEntries, StoreElsewhere(entry), away' \in AllIds \cup {None}
      PROVE  FoldersInv'
  <2>1. /\ New <= MaxId /\ rec' = [rec EXCEPT ![New] = [entry EXCEPT !.ref = IF @ = 0 THEN New ELSE @]]
        /\ stored' = stored \cup {New} /\ UNCHANGED <<index, own, pending, job, faults>>
    BY <1>2 DEF StoreElsewhere
  <2>2. JobsOK'
    BY <2>1, StoreKeeps, JobsStay DEF FoldersInv
  <2> QED BY <1>2, <2>1, <2>2, StoreStep
<1>3. ASSUME NEW n \in Names, CreateElsewhere(n) PROVE FoldersInv'
  <2> DEFINE entry == [NoEntry EXCEPT !.name = n]
  <2>1. entry \in NewEntries
    BY <1>1 DEF NoEntry, NewEntries
  <2>2. StoreElsewhere(entry) /\ away' = away
    BY <1>3 DEF CreateElsewhere
  <2> HIDE DEF entry
  <2> QED BY <1>2, <2>1, <2>2 DEF FoldersInv
<1>4. ASSUME NEW n \in Names, RenameElsewhere(id, n) PROVE FoldersInv'
  <2> DEFINE entry == [rec[id] EXCEPT !.name = n]
  <2>1. entry \in NewEntries
    BY <1>1, RecsAreNew DEF FoldersInv, NewEntries
  <2>2. StoreElsewhere(entry) /\ away' = id
    BY <1>4 DEF RenameElsewhere
  <2> HIDE DEF entry
  <2> QED BY <1>2, <2>1, <2>2
<1>5. CASE UpgradeElsewhere(id)
  <2> DEFINE entry == [rec[id] EXCEPT !.v2 = TRUE, !.ref = 0, !.from = rec[id].ref]
  <2>1. entry \in NewEntries
    <3>1. id \in stored /\ id \in 1 .. Made
      BY <1>5 DEF UpgradeElsewhere, FoldersInv
    <3>2. rec[id] \in Entries
      BY <3>1, RecIs DEF FoldersInv
    <3> QED BY <3>2 DEF Entries, EntryOf, NewEntries
  <2>2. StoreElsewhere(entry) /\ away' = id
    BY <1>5 DEF UpgradeElsewhere
  <2> HIDE DEF entry
  <2> QED BY <1>2, <2>1, <2>2
<1>6. CASE DeleteElsewhere(id)
  <2>1. away' = None /\ stored' \subseteq stored /\ UNCHANGED <<index, rec, own, pending, job, faults>>
    BY <1>6 DEF DeleteElsewhere
  <2>2. RecsOK' /\ Keeps(Made) /\ Made' = Made
    BY <2>1, SameKeeps DEF FoldersInv
  <2>3. JobsOK' /\ IndexHolds'
    BY <2>1, <2>2, JobsStay, IndexStays DEF FoldersInv
  <2> QED BY <2>1, <2>2, <2>3 DEF FoldersInv, AllIds
<1> QED BY <1>3, <1>4, <1>5, <1>6

\* A list of some ids has them all, and no more.
LEMMA ListIs ==
  ASSUME NEW S, IsFiniteSet(S), NEW f \in SetToSeqs(S)
  PROVE  /\ Cardinality(S) \in Nat /\ DOMAIN f = 1 .. Cardinality(S)
         /\ \A i \in 1 .. Cardinality(S) : f[i] \in S
BY FS_CardinalityType DEF SetToSeqs

\* What a sync takes from the index is not stored.
LEMMA SyncIs ==
  ASSUME FoldersInv, SyncSome
  PROVE  \E gone \in SUBSET Ids(index), fresh \in SUBSET stored :
           \E g \in SetToSeqs(gone), f \in SetToSeqs(fresh) :
             Sync(g, f) /\ IsFiniteSet(gone) /\ IsFiniteSet(fresh)
<1>1. PICK gone \in SUBSET Ids(index), fresh \in SUBSET stored :
        \E g \in SetToSeqs(gone), f \in SetToSeqs(fresh) : Sync(g, f)
  BY DEF SyncSome
<1>2. IsFiniteSet(1 .. Made) /\ gone \subseteq 1 .. Made /\ fresh \subseteq 1 .. Made
  <2>1. Made \in Int /\ 0 \in Int /\ 1 \in Int
    BY FoldersAssumption DEF FoldersInv, RecsOK
  <2>2. IsFiniteSet(1 .. Made)
    BY <2>1, FS_Interval
  <2> QED BY <2>2 DEF FoldersInv, IndexHolds
<1>3. IsFiniteSet(gone) /\ IsFiniteSet(fresh)
  BY <1>2, FS_Subset
<1> QED BY <1>1, <1>3

LEMMA SyncKeeps ==
  ASSUME FoldersInv, SyncSome
  PROVE  FoldersInv'
<1>1. PICK gone \in SUBSET Ids(index), fresh \in SUBSET stored :
        \E g \in SetToSeqs(gone), f \in SetToSeqs(fresh) :
          Sync(g, f) /\ IsFiniteSet(gone) /\ IsFiniteSet(fresh)
  BY SyncIs
<1>2. PICK g \in SetToSeqs(gone), f \in SetToSeqs(fresh) :
        Sync(g, f) /\ IsFiniteSet(gone) /\ IsFiniteSet(fresh)
  BY <1>1
<1> DEFINE n == Cardinality(gone)
           m == Cardinality(fresh)
<1>3. n \in Nat /\ m \in Nat /\ DOMAIN g = 1 .. n /\ DOMAIN f = 1 .. m /\ \A i \in 1 .. m : f[i] \in fresh
  BY <1>2, ListIs
<1> HIDE DEF n, m
<1>4. \A i \in 1 .. m : f[i] \in 1 .. Made
  BY <1>3 DEF FoldersInv
<1>5. UNCHANGED <<rec, own, stored, pending, job, away, faults>>
  BY <1>2 DEF Sync
<1>6. index' = FoldLeft(LAMBDA ix, id : InsertEntry(ix, id, rec[id]),
                        FoldLeft(LAMBDA ix, id : RemoveEntry(ix, id), index, g), f)
  BY <1>2, Zenon DEF Sync
<1>7. IndexHolds'
  BY <1>3, <1>4, <1>5, <1>6, IndexSyncs DEF FoldersInv
<1>8. JobsOK'
  BY <1>5, SameKeeps, JobsStay DEF FoldersInv
<1>9. faults' \in 0 .. MaxFaults
  BY <1>5 DEF FoldersInv
<1> QED BY <1>5, <1>7, <1>8, <1>9, IndexStep

LEMMA StartHolds == Init => FoldersInv
<1> SUFFICES ASSUME Init PROVE FoldersInv
  OBVIOUS
<1>1. PICK world \in Worlds :
        /\ rec = [id \in AllIds |-> IF id \in DOMAIN world THEN world[id] ELSE NoEntry]
        /\ index = Filled(world) /\ stored = DOMAIN world /\ own = DOMAIN world
  BY DEF Init
<1>2. PICK n \in 0 .. MaxId : world \in [1 .. n -> Entries]
  BY FoldersAssumption DEF Entries, AllIds
<1>3. DOMAIN world = 1 .. n /\ n \in Nat /\ MaxId \in Nat /\ 1 .. n \subseteq AllIds /\ IsFiniteSet(1 .. n)
  BY <1>2, FoldersAssumption, FS_Interval DEF AllIds
<1>4. \A id \in AllIds : (id <= n => id \in 1 .. n /\ rec[id] = world[id]) /\ (~(id <= n) => rec[id] = NoEntry)
  BY <1>1, <1>3 DEF AllIds
<1>5. \A id \in 1 .. n : world[id] \in Entries /\ world[id].ref # 0 /\ world[id].name \in Seq(Int)
  <2>1. \A id \in 1 .. n : world[id] \in Entries
    BY <1>2
  <2>2. \A e \in Entries : e.ref # 0 /\ e.name \in Seq(Int)
    BY DEF Entries, EntryOf, AllIds
  <2> QED BY <2>1, <2>2
<1>6. Made = n
  <2>1. \A id \in AllIds : rec[id].ref # 0 <=> id <= n
    BY <1>4, <1>5 DEF NoEntry
  <2> QED BY <2>1, MadeIs DEF Made
<1>7. RecsOK
  <2>1. DOMAIN rec = AllIds
    BY <1>1
  <2>2. ASSUME NEW id \in AllIds PROVE rec[id] \in Entries \cup {NoEntry} /\ (id <= n <=> rec[id] # NoEntry)
    <3>1. CASE id <= n
      <4>1. rec[id] \in Entries /\ rec[id].ref # 0
        BY <1>4, <1>5, <3>1
      <4> QED BY <3>1, <4>1 DEF NoEntry
    <3>2. CASE ~(id <= n)
      BY <1>4, <3>2
    <3> QED BY <3>1, <3>2
  <2> QED BY <1>3, <1>6, <2>1, <2>2 DEF RecsOK
<1>8. IndexHolds
  <2>1. /\ TreeOK(index) /\ Ids(index) = 1 .. n
        /\ \A id \in 1 .. n : index.entries[id] = world[id]
    <3>1. 1 .. n \subseteq Nat \ {None}
      BY <1>3 DEF None
    <3> QED BY <1>1, <1>3, <1>5, <3>1, FilledIs
  <2>2. \A id \in 1 .. n : rec[id] = world[id]
    BY <1>3, <1>4
  <2> QED BY <1>6, <2>1, <2>2 DEF IndexHolds
<1>9. JobsOK
  <2>1. job = [w \in Workers |-> NoJob]
    BY DEF Init
  <2>2. NoJob \in JobType(Made) /\ JobHolds(NoJob)
    BY <1>3, <1>6, NoJobIs
  <2> QED BY <2>1, <2>2 DEF JobsOK
<1>10. own \cup stored \subseteq 1 .. Made /\ pending = {} /\ away = None /\ faults \in 0 .. MaxFaults
  BY <1>1, <1>3, <1>6, FoldersAssumption DEF Init
<1> QED BY <1>7, <1>8, <1>9, <1>10 DEF FoldersInv

LEMMA StepHolds == FoldersInv /\ [Next]_vars => FoldersInv'
<1> SUFFICES ASSUME FoldersInv, [Next]_vars PROVE FoldersInv'
  OBVIOUS
<1>1. ASSUME NEW d \in Seen, NEW n \in Names, Create(d, n) \/ UnlinkPending(d, n) PROVE FoldersInv'
  BY <1>1, CreateKeeps
<1>2. ASSUME NEW d \in Seen, NEW n, NEW w \in Workers, Unlink(d, n, w) \/ Rmdir(d, n, w) PROVE FoldersInv'
  BY <1>2, UnlinkKeeps
<1>3. ASSUME NEW d \in Seen, NEW n \in Names, NEW w \in Workers, Mkdir(d, n, w) PROVE FoldersInv'
  BY <1>3, MkdirKeeps
<1>4. ASSUME NEW d \in Seen, NEW d2 \in Seen, NEW n, NEW w \in Workers, NEW n2 \in Names \cup {n},
             Rename(d, n, d2, n2, w)
      PROVE  FoldersInv'
  BY <1>4, RenameKeeps
<1>5. ASSUME NEW p \in pending, NEW w \in Workers, StartSave(p, w) PROVE FoldersInv'
  BY <1>5, StartSaveKeeps
<1>6. ASSUME NEW w \in Workers, WorkStep(w) PROVE FoldersInv'
  <2>1. CASE UploadNew(w)
    BY <2>1, UploadNewKeeps
  <2>2. CASE UploadFails(w)
    BY <2>2, UploadFailsKeeps
  <2>3. CASE IngestNew(w)
    BY <2>3, IngestNewKeeps
  <2>4. CASE Saved(w)
    BY <2>4, SavedKeeps
  <2>5. CASE Delete(w) \/ Replace(w)
    BY <2>5, DeleteKeeps
  <2>6. CASE UploadCopy(w)
    BY <2>6, UploadCopyKeeps
  <2>7. CASE IngestCopy(w)
    BY <2>7, IngestCopyKeeps
  <2>8. CASE ListKids(w)
    BY <2>8, ListKidsKeeps
  <2>9. CASE DropOld(w)
    BY <2>9, DropOldKeeps
  <2>10. ASSUME NEW k \in AllIds, MoveKid(w, k) PROVE FoldersInv'
    BY <2>10, MoveKidKeeps
  <2> QED BY <1>6, <2>1, <2>2, <2>3, <2>4, <2>5, <2>6, <2>7, <2>8, <2>9, <2>10 DEF WorkStep
<1>7. ASSUME NEW n \in Names, CreateElsewhere(n) PROVE FoldersInv'
  <2>1. /\ New <= MaxId /\ New = Made + 1 /\ Made \in Nat /\ MaxId \in Nat
    BY <1>7, FoldersAssumption DEF CreateElsewhere, StoreElsewhere, New, FoldersInv, RecsOK
  <2>2. New \in AllIds
    BY <2>1 DEF AllIds
  <2> QED BY <1>7, <2>2, ElsewhereKeeps
<1>8. ASSUME NEW id \in AllIds, NEW n \in Names, RenameElsewhere(id, n) PROVE FoldersInv'
  BY <1>8, ElsewhereKeeps
<1>9. ASSUME NEW id \in AllIds, UpgradeElsewhere(id) \/ DeleteElsewhere(id) PROVE FoldersInv'
  BY <1>9, ElsewhereKeeps
<1>10. CASE SyncSome
  BY <1>10, SyncKeeps
<1>11. CASE UNCHANGED vars
  <2>1. JobsOK'
    BY <1>11, SameKeeps, JobsStay DEF vars, FoldersInv
  <2> QED BY <1>11, <2>1, StillKeeps DEF vars, FoldersInv
<1> QED BY <1>1, <1>2, <1>3, <1>4, <1>5, <1>6, <1>7, <1>8, <1>9, <1>10, <1>11 DEF Next

\* The invariant that the theorems rest on.
LEMMA Holds == Spec => []FoldersInv
<1>1. Init => FoldersInv
  BY StartHolds
<1>2. FoldersInv /\ [Next]_vars => FoldersInv'
  BY StepHolds
<1> QED BY <1>1, <1>2, PTL DEF Spec

\* The names of one index.
LEMMA ShownOf ==
  ASSUME NEW ix, TreeOK(ix)
  PROVE  /\ DOMAIN ix.placed = Ids(ix)
         /\ \A id \in Ids(ix) : FindChild(ix, ix.placed[id], Shown(ix, id)) = id
         /\ \A s \in DOMAIN ix.slots :
              /\ ix.slots[s] \in Ids(ix) /\ ix.slots[s] # None
              /\ s = <<ix.placed[ix.slots[s]], Shown(ix, ix.slots[s])>>
<1>1. NamesOK(ix, {}) /\ Shaped(ix) /\ DOMAIN ix.placed = Ids(ix)
  BY DEF TreeOK, IndexOK
<1> QED BY <1>1 DEF NamesOK, Shaped, Spot, FindChild

\* Every variable has its type, and what the index, the server and the jobs hold are
\* records that were made: an id that is used is one that the upload gave.
THEOREM FoldersTypes == Spec => []TypeOK
<1>1. FoldersInv => TypeOK
  <2> SUFFICES ASSUME FoldersInv PROVE TypeOK
    OBVIOUS
  <2>1. Made \in Nat /\ own \cup stored \cup Ids(index) \subseteq 1 .. Made
    BY FoldersAssumption DEF FoldersInv, IndexHolds, RecsOK
  <2>2. \A id \in 1 .. Made : rec[id] \in EntryOf(AllIds, Seq(Int))
    BY RecIs DEF Entries, FoldersInv
  <2>3. DOMAIN index.placed = Ids(index) /\ DOMAIN index.display \subseteq Ids(index)
    BY DEF FoldersInv, IndexHolds, TreeOK, IndexOK, NamesOK
  <2>4. \A p \in pending : p[1] \in AllIds \cup {Root}
    BY DEF FoldersInv
  <2>5. ASSUME NEW w \in Workers PROVE JobOK(job[w])
    <3>1. job[w] \in JobType(Made)
      BY DEF FoldersInv, JobsOK
    <3>2. 1 .. Made \subseteq AllIds /\ 0 .. Made \subseteq AllIds \cup {None}
      BY RecIs, <2>1 DEF FoldersInv, None
    <3>3. /\ job[w].kind \in {"none", "mkdir", "unlink", "rmdir", "rename", "save"}
          /\ job[w].pc \in {"none", "upload", "ingest", "list", "kids", "delete", "replace", "repoint"}
          /\ job[w].parent \in AllIds \cup {Root} /\ job[w].id \in 0 .. Made /\ job[w].victim \in 0 .. Made
          /\ job[w].stack \in Seq(Frames(Made))
      BY <3>1 DEF JobType
    <3>4. \A k \in DOMAIN job[w].stack : job[w].stack[k] \in Frames(Made)
      <4> HIDE DEF Frames
      <4> QED BY <3>3
    <3>5. \A k \in DOMAIN job[w].stack : job[w].stack[k].id \in AllIds /\ job[w].stack[k].kids \subseteq AllIds
      <4>1. \A f \in Frames(Made) : f.id \in 1 .. Made /\ f.kids \subseteq 1 .. Made
        BY DEF Frames
      <4> HIDE DEF Frames
      <4> QED BY <3>2, <3>4, <4>1
    <3> QED BY <3>2, <3>3, <3>5 DEF JobOK
  <2> QED BY <2>1, <2>2, <2>3, <2>4, <2>5 DEF TypeOK, FoldersInv
<1> QED BY <1>1, Holds, PTL

\* Whatever entries come, go and move, in whatever order, every entry of the index is found
\* under the name it is shown with and under no other, and the count of aliases is right
\* (place_name, compact, detach, set_alias).
THEOREM NamesAreUnique == Spec => []ShownIsFound
<1>1. FoldersInv => ShownIsFound
  <2> SUFFICES ASSUME FoldersInv PROVE ShownIsFound
    OBVIOUS
  <2>1. ASSUME NEW pk \in DOMAIN index.aliased
        PROVE  index.aliased[pk] = Cardinality({id \in Children(index, pk) : IsAlias(index, id)})
    <3>1. IndexOK(index, {}, {}) /\ DOMAIN index.placed = Ids(index)
      BY DEF FoldersInv, IndexHolds, TreeOK
    <3>2. {id \in Children(index, pk) : IsAlias(index, id)} = Aliases(index, pk)
      BY <3>1 DEF IndexOK, NamesOK, Children, IsAlias, Aliases
    <3> QED BY <3>1, <3>2 DEF IndexOK, CountsOK
  <2> QED BY <2>1, ShownOf DEF ShownIsFound, FoldersInv, IndexHolds
<1> QED BY <1>1, Holds, PTL

\* A name that an entry of a folder was saved under always leads to an entry that was saved
\* under it: no alias keeps it, and no removal leaves it unused (place_name, detach).
THEOREM SavedNamesAreHeld == Spec => []BaseIsHeld
<1>1. FoldersInv => BaseIsHeld
  <2> SUFFICES ASSUME FoldersInv, NEW id \in Ids(index)
               PROVE  LET holder == FindChild(index, index.placed[id], index.entries[id].name) IN
                      holder # None /\ index.entries[holder].name = index.entries[id].name
    BY DEF BaseIsHeld
  <2>1. HeldOK(index, {}, {}) /\ id \in DOMAIN index.placed
    BY DEF FoldersInv, IndexHolds, TreeOK, IndexOK
  <2>2. /\ Base(index, id) \in DOMAIN index.slots
        /\ index.entries[index.slots[Base(index, id)]].name = index.entries[id].name
    BY <2>1 DEF HeldOK
  <2>3. index.slots[Base(index, id)] # None
    BY <2>2, ShownOf DEF FoldersInv, IndexHolds
  <2> QED BY <2>2, <2>3 DEF Base, FindChild
<1> QED BY <1>1, Holds, PTL

\* Every entry is in the folder that resolve gives for the index as it is now, whatever
\* order folders, copies of them and what is in them came and went in (reattach_dependents).
THEOREM PlacesAreResolved == Spec => []PlacedIsResolved
<1>1. FoldersInv => PlacedIsResolved
  BY DEF FoldersInv, IndexHolds, TreeOK, PlacedIsResolved
<1> QED BY <1>1, Holds, PTL

\* A name that leads elsewhere in one index than in another is among those that comparing
\* snapshots of the two gives (touched_between).
LEMMA TouchedIs ==
  ASSUME NEW a, NEW b, TreeOK(a), TreeOK(b), NEW s \in DOMAIN a.slots \cup DOMAIN b.slots,
         s[1] # Unresolved, FindChild(a, s[1], s[2]) # FindChild(b, s[1], s[2])
  PROVE  s \in TouchedBetween(a, b)
<1>1. s = <<s[1], s[2]>>
  BY ShownOf
<1>2. \A ix : TreeOK(ix) /\ FindChild(ix, s[1], s[2]) # None =>
        <<FindChild(ix, s[1], s[2]), s[1], s[2]>> \in Snapshot(ix)
  <2> SUFFICES ASSUME NEW ix, TreeOK(ix), FindChild(ix, s[1], s[2]) # None
               PROVE  <<FindChild(ix, s[1], s[2]), s[1], s[2]>> \in Snapshot(ix)
    OBVIOUS
  <2>1. s \in DOMAIN ix.slots /\ FindChild(ix, s[1], s[2]) = ix.slots[s]
    BY <1>1 DEF FindChild
  <2>2. ix.slots[s] \in DOMAIN ix.placed /\ s = <<ix.placed[ix.slots[s]], Shown(ix, ix.slots[s])>>
    BY <2>1, ShownOf
  <2>3. s[1] = ix.placed[ix.slots[s]] /\ s[2] = Shown(ix, ix.slots[s])
    BY <2>2
  <2> QED BY <2>1, <2>2, <2>3 DEF Snapshot
<1>3. \A ix, id : TreeOK(ix) /\ <<id, s[1], s[2]>> \in Snapshot(ix) => FindChild(ix, s[1], s[2]) = id
  BY ShownOf DEF Snapshot
<1>4. PICK id : \/ <<id, s[1], s[2]>> \in Snapshot(a) \ Snapshot(b)
                \/ <<id, s[1], s[2]>> \in Snapshot(b) \ Snapshot(a)
  <2>1. CASE FindChild(a, s[1], s[2]) # None
    BY <1>2, <1>3, <2>1
  <2>2. CASE FindChild(a, s[1], s[2]) = None
    BY <1>2, <1>3, <2>2
  <2> QED BY <2>1, <2>2
<1> DEFINE u == <<id, s[1], s[2]>>
<1>5. u[2] = s[1] /\ u[3] = s[2]
  OBVIOUS
<1> HIDE DEF u
<1>6. u \in (Snapshot(a) \ Snapshot(b)) \cup (Snapshot(b) \ Snapshot(a))
  BY <1>4 DEF u
<1> QED BY <1>1, <1>5, <1>6 DEF TouchedBetween

\* Of what a sync changes, every name in a folder that leads elsewhere than before is in
\* the report the kernel is told from, whatever order records came and went in, since names
\* are unique before and after (sync).
THEOREM SyncReportsAll == Spec => SyncReportsChanges
<1>1. FoldersInv /\ FoldersInv' =>
        \A s \in DOMAIN index.slots \cup DOMAIN index'.slots :
          \/ s[1] = Unresolved
          \/ FindChild(index, s[1], s[2]) = FindChild(index', s[1], s[2])
          \/ s \in TouchedBetween(index, index')
  BY TouchedIs DEF FoldersInv, IndexHolds
<1> QED BY <1>1, Holds, PTL DEF SyncReportsChanges

-----------------------------------------------------------------------------
(* New files that are not saved yet. *)

\* No new file is in what a job is about to remove, and none gets in.
Guarded(j, id) ==
  /\ id \in 1 .. Made /\ UnsavedIn(id) = {}
  /\ rec[id].folder => LockOf(id) \in j.locked

JobGuards(j) ==
  /\ j.pc = "delete" => Guarded(j, j.id)
  /\ j.victim # None => Guarded(j, j.victim)
  /\ \A k \in DOMAIN j.stack : UnsavedIn(j.stack[k].id) = {}

UnsavedInv == UnsavedHasFolder /\ \A w \in Workers : JobGuards(job[w])

LEMMA GuardsStay ==
  ASSUME FoldersInv, Keeps(Made), pending' \subseteq pending, NEW j, JobGuards(j)
  PROVE  JobGuards(j)'
<1>1. \A d : UnsavedIn(d) = {} => UnsavedIn(d)' = {}
  BY DEF UnsavedIn
<1>2. ASSUME NEW id, Guarded(j, id) PROVE Guarded(j, id)'
  <2>1. id \in 1 .. Made' /\ rec'[id] = rec[id]
    BY <1>2, FoldersAssumption DEF Guarded, Keeps, FoldersInv, RecsOK
  <2>2. LockOf(id)' = LockOf(id)
    BY <2>1 DEF LockOf
  <2> QED BY <1>1, <1>2, <2>1, <2>2 DEF Guarded
<1> QED BY <1>1, <1>2 DEF JobGuards

\* Folders that new files are in stay.
LEMMA DirsStay ==
  ASSUME FoldersInv, UnsavedInv, Keeps(Made), pending' \subseteq pending,
         \A p \in pending : p[1] \in Ids(index) => p[1] \in Ids(index')
  PROVE  UnsavedHasFolder'
<1> SUFFICES ASSUME NEW p \in pending' PROVE p[1] \in Dirs'
  BY DEF UnsavedHasFolder
<1>1. p \in pending /\ p[1] \in Dirs
  BY DEF UnsavedInv, UnsavedHasFolder
<1>2. p[1] # Root => p[1] \in Ids(index') /\ rec'[p[1]].folder
  BY <1>1 DEF Dirs, FoldersInv, IndexHolds, Keeps
<1> QED BY <1>2 DEF Dirs

\* A worker's step: no other job changes.
LEMMA UnsavedStep ==
  ASSUME FoldersInv, UnsavedInv, Keeps(Made), pending' \subseteq pending,
         \A p \in pending : p[1] \in Ids(index) => p[1] \in Ids(index'),
         NEW w \in Workers, NEW j, JobGuards(j), job' = [job EXCEPT ![w] = j]
  PROVE  UnsavedInv'
<1>1. \A v \in Workers : JobGuards(job[v])'
  <2> SUFFICES ASSUME NEW v \in Workers PROVE JobGuards(job[v])'
    OBVIOUS
  <2>1. PICK i : i = job'[v]
    OBVIOUS
  <2>2. JobGuards(i)
    BY <2>1 DEF UnsavedInv, FoldersInv, JobsOK
  <2>3. JobGuards(i)'
    BY <2>2, GuardsStay
  <2> QED BY <2>1, <2>3
<1> QED BY <1>1, DirsStay DEF UnsavedInv

LEMMA NoJobGuards == JobGuards(NoJob)
<1>1. NoJob.pc # "delete" /\ NoJob.victim = None /\ DOMAIN NoJob.stack = {}
  BY DEF NoJob
<1> QED BY <1>1 DEF JobGuards

\* No job changes.
LEMMA UnsavedStill ==
  ASSUME FoldersInv, UnsavedInv, Keeps(Made), pending' \subseteq pending, job' = job,
         \A p \in pending : p[1] \in Ids(index) => p[1] \in Ids(index')
  PROVE  UnsavedInv'
<1>1. \A w \in Workers : JobGuards(job[w])'
  <2> SUFFICES ASSUME NEW w \in Workers PROVE JobGuards(job[w])'
    OBVIOUS
  <2>1. PICK i : i = job[w]
    OBVIOUS
  <2>2. JobGuards(i)'
    BY <2>1, GuardsStay DEF UnsavedInv
  <2> QED BY <2>1, <2>2
<1> QED BY <1>1, DirsStay DEF UnsavedInv

LEMMA UnsavedCreate ==
  ASSUME FoldersInv, UnsavedInv, ~MoveBusy, NEW d \in Seen, NEW n \in Names, Create(d, n)
  PROVE  UnsavedInv'
<1>1. /\ UNCHANGED <<index, rec, job>> /\ pending' = pending \cup {<<d, n>>}
      /\ Lockable({d}) /\ ~Moving(d) /\ d \in Dirs
  BY DEF Create, Seen
<1>2. Dirs' = Dirs /\ Made' = Made
  BY <1>1 DEF Dirs, Made
<1>3. UnsavedHasFolder'
  BY <1>1, <1>2 DEF UnsavedInv, UnsavedHasFolder
<1>4. \A id : id # d /\ UnsavedIn(id) = {} => UnsavedIn(id)' = {}
  BY <1>1 DEF UnsavedIn
<1>5. \A w \in Workers : LockOf(d) \notin job[w].locked
  BY <1>1 DEF Lockable
<1>6. ASSUME NEW w \in Workers, NEW id, Guarded(job[w], id) PROVE Guarded(job[w], id)'
  <2>1. id # d
    <3>1. d = Root \/ rec[d].folder
      BY <1>1 DEF Dirs
    <3>2. CASE d = Root
      BY <1>6, <3>2, FoldersAssumption DEF Guarded, Root, FoldersInv, RecsOK
    <3>3. CASE rec[d].folder
      BY <1>5, <1>6, <3>3 DEF Guarded
    <3> QED BY <3>1, <3>2, <3>3
  <2> QED BY <1>1, <1>2, <1>4, <1>6, <2>1 DEF Guarded, LockOf
<1>7. ASSUME NEW w \in Workers, NEW k \in DOMAIN job[w].stack, UnsavedIn(job[w].stack[k].id) = {}
      PROVE  UnsavedIn(job[w].stack[k].id)' = {}
  <2>1. job[w].stack[k].id # d
    BY <1>1 DEF Moving
  <2>2. PICK id : id = job[w].stack[k].id
    OBVIOUS
  <2> QED BY <1>1, <1>4, <1>7, <2>1, <2>2
<1>8. \A w \in Workers : JobGuards(job[w])'
  BY <1>1, <1>6, <1>7 DEF UnsavedInv, JobGuards
<1> QED BY <1>3, <1>8 DEF UnsavedInv

\* A request puts a job on a worker, and the tree stays as it is.
LEMMA UnsavedStart ==
  ASSUME FoldersInv, UnsavedInv, NEW w \in Workers, NEW dirs, NEW j, Start(w, dirs, j),
         UNCHANGED <<index, rec, pending>>,
         JobGuards([j EXCEPT !.locked = {LockOf(x) : x \in dirs}])
  PROVE  UnsavedInv'
<1> DEFINE k == [j EXCEPT !.locked = {LockOf(x) : x \in dirs}]
<1>1. job' = [job EXCEPT ![w] = k]
  BY DEF Start
<1>2. Keeps(Made)
  BY SameKeeps DEF FoldersInv
<1> HIDE DEF k
<1>3. JobGuards(k)
  BY DEF k
<1> QED BY <1>1, <1>2, <1>3, UnsavedStep

\* What a name leads to, and that only folders have new files in them.
LEMMA FoundHolds ==
  ASSUME FoldersInv, UnsavedInv, NEW d, NEW n, FindChild(index, d, n) # None
  PROVE  /\ FindChild(index, d, n) \in 1 .. Made
         /\ ~rec[FindChild(index, d, n)].folder => UnsavedIn(FindChild(index, d, n)) = {}
<1> DEFINE id == FindChild(index, d, n)
<1>1. id \in 1 .. Made
  <2>1. id \in {None} \cup Ids(index)
    BY FoundIs DEF FoldersInv
  <2> QED BY <2>1 DEF FoldersInv, IndexHolds
<1>2. id # Root
  BY DEF Root, None
<1> HIDE DEF id
<1>3. ~rec[id].folder => UnsavedIn(id) = {}
  BY <1>2 DEF UnsavedInv, UnsavedHasFolder, UnsavedIn, Dirs
<1> QED BY <1>1, <1>3 DEF id

LEMMA UnsavedRequest ==
  ASSUME FoldersInv, UnsavedInv, NEW w \in Workers, NEW d, NEW n,
         Mkdir(d, n, w) \/ (\E p \in pending : StartSave(p, w)) \/ Unlink(d, n, w) \/ Rmdir(d, n, w)
  PROVE  UnsavedInv'
<1>1. CASE Mkdir(d, n, w)
  <2> DEFINE j == [NoJob EXCEPT !.kind = "mkdir", !.pc = "upload", !.parent = d, !.name = n]
             k == [j EXCEPT !.locked = {LockOf(x) : x \in {d}}]
  <2>1. Start(w, {d}, j) /\ UNCHANGED <<index, rec, pending>>
    BY <1>1 DEF Mkdir
  <2>2. k.pc = "upload" /\ k.victim = None /\ DOMAIN k.stack = {}
    BY DEF NoJob
  <2>3. JobGuards(k)
    <3> HIDE DEF k
    <3> QED BY <2>2 DEF JobGuards
  <2> HIDE DEF j
  <2> QED BY <2>1, <2>3, UnsavedStart
<1>2. ASSUME NEW p \in pending, StartSave(p, w) PROVE UnsavedInv'
  <2> DEFINE j == [NoJob EXCEPT !.kind = "save", !.pc = "upload", !.parent = p[1], !.name = p[2]]
             k == [j EXCEPT !.locked = {LockOf(x) : x \in {}}]
  <2>1. Start(w, {}, j) /\ UNCHANGED <<index, rec, pending>>
    BY <1>2 DEF StartSave
  <2>2. k.pc = "upload" /\ k.victim = None /\ DOMAIN k.stack = {}
    BY DEF NoJob
  <2>3. JobGuards(k)
    <3> HIDE DEF k
    <3> QED BY <2>2 DEF JobGuards
  <2> HIDE DEF j
  <2> QED BY <2>1, <2>3, UnsavedStart
<1>3. CASE Unlink(d, n, w) \/ Rmdir(d, n, w)
  <2> DEFINE id == FindChild(index, d, n)
  <2>1. PICK kind \in {"unlink", "rmdir"}, dirs \in {{d}, {d, id}} :
          /\ Start(w, dirs, [NoJob EXCEPT !.kind = kind, !.pc = "delete", !.id = id])
          /\ id # None /\ UNCHANGED <<index, rec, pending>>
          /\ rec[id].folder => id \in dirs /\ UnsavedIn(id) = {}
    BY <1>3 DEF Unlink, Rmdir, Empty
  <2>2. id \in 1 .. Made /\ (~rec[id].folder => UnsavedIn(id) = {})
    BY <2>1, FoundHolds
  <2> HIDE DEF id
  <2> DEFINE j == [NoJob EXCEPT !.kind = kind, !.pc = "delete", !.id = id]
             k == [j EXCEPT !.locked = {LockOf(x) : x \in dirs}]
  <2>3. k.id = id /\ k.victim = None /\ DOMAIN k.stack = {} /\ k.locked = {LockOf(x) : x \in dirs}
    BY DEF NoJob
  <2>4. JobGuards(k)
    <3> HIDE DEF k
    <3> QED BY <2>1, <2>2, <2>3 DEF JobGuards, Guarded
  <2>5. Start(w, dirs, j)
    BY <2>1
  <2> HIDE DEF j
  <2> QED BY <2>1, <2>4, <2>5, UnsavedStart
<1> QED BY <1>1, <1>2, <1>3

LEMMA UnsavedRename ==
  ASSUME FoldersInv, UnsavedInv, ~MoveBusy, NEW w \in Workers, NEW d, NEW d2, NEW n, NEW n2,
         Rename(d, n, d2, n2, w)
  PROVE  UnsavedInv'
<1> DEFINE id     == FindChild(index, d, n)
           other  == FindChild(index, d2, n2)
           victim == IF other = id THEN None ELSE other
           frame  == Frame(id, IF n = n2 THEN rec[id].name ELSE n2, IF d = d2 THEN Stay ELSE d2)
           dirs   == {d, d2} \cup (IF victim # None /\ rec[victim].folder THEN {victim} ELSE {})
           j == [NoJob EXCEPT !.kind = "rename", !.pc = "upload", !.victim = victim,
                   !.tree = d # d2, !.stack = <<frame>>]
           k == [j EXCEPT !.locked = {LockOf(x) : x \in dirs}]
<1>1. Start(w, dirs, j) /\ UNCHANGED <<index, rec, pending>>
  BY DEF Rename
<1>2. UnsavedIn(id) = {}
  <2>1. id # None /\ (rec[id].folder => UnsavedIn(id) = {})
    BY DEF Rename
  <2> QED BY <2>1, FoundHolds
<1>3. victim # None => /\ victim \in 1 .. Made /\ UnsavedIn(victim) = {}
                       /\ rec[victim].folder => victim \in dirs
  <2>1. victim # None /\ rec[victim].folder => UnsavedIn(victim) = {}
    BY DEF Rename, Empty
  <2> QED BY <2>1, FoundHolds
<1>4. frame.id = id
  BY DEF Frame
<1> HIDE DEF id, other, victim, frame, dirs
<1>5. /\ k.pc = "upload" /\ k.victim = victim /\ k.locked = {LockOf(x) : x \in dirs}
      /\ \A i \in DOMAIN k.stack : k.stack[i] = frame
  BY DEF NoJob
<1>6. JobGuards(k)
  <2> HIDE DEF k
  <2> QED BY <1>2, <1>3, <1>4, <1>5 DEF JobGuards, Guarded
<1> HIDE DEF j
<1> QED BY <1>1, <1>6, UnsavedStart

\* A worker ends, or goes on with what it has.
LEMMA UnsavedEnd ==
  ASSUME FoldersInv, UnsavedInv, Keeps(Made), pending' \subseteq pending, NEW w \in Workers, End(w),
         \A p \in pending : p[1] \in Ids(index) => p[1] \in Ids(index')
  PROVE  UnsavedInv'
<1>1. job' = [job EXCEPT ![w] = NoJob]
  BY DEF End
<1> QED BY <1>1, NoJobGuards, UnsavedStep

LEMMA UnsavedOn ==
  ASSUME FoldersInv, UnsavedInv, Keeps(Made), pending' \subseteq pending, NEW w \in Workers, NEW j,
         job' = [job EXCEPT ![w] = j], j.pc # "delete", j.victim = job[w].victim, j.locked = job[w].locked,
         \A k \in DOMAIN j.stack : UnsavedIn(j.stack[k].id) = {},
         \A p \in pending : p[1] \in Ids(index) => p[1] \in Ids(index')
  PROVE  UnsavedInv'
<1>1. JobGuards(job[w])
  BY DEF UnsavedInv
<1>2. JobGuards(j)
  BY <1>1 DEF JobGuards, Guarded
<1> QED BY <1>2, UnsavedStep

\* What a worker removes has no new files in it.
LEMMA UnsavedDrop ==
  ASSUME FoldersInv, NEW id, UnsavedIn(id) = {}, rec' = rec,
         Drop(id) \/ index' = index
  PROVE  \A p \in pending : p[1] \in Ids(index) => p[1] \in Ids(index')
<1>1. \A p \in pending : p[1] # id
  BY DEF UnsavedIn
<1>2. Ids(index) \ {id} \subseteq Ids(index')
  <2>1. CASE Drop(id)
    BY <2>1, IndexLoses DEF Drop, FoldersInv
  <2>2. CASE index' = index
    BY <2>2
  <2> QED BY <2>1, <2>2
<1> QED BY <1>1, <1>2

\* Records are only added.
LEMMA RecsKeep ==
  ASSUME RecsOK, RecsOK', NEW e, rec' = rec \/ rec' = [rec EXCEPT ![New] = e]
  PROVE  Keeps(Made)
<1>1. Made \in 0 .. MaxId /\ Made' \in 0 .. MaxId /\ MaxId \in Nat
  BY FoldersAssumption DEF RecsOK
<1>2. \A id \in 1 .. Made : id \in AllIds /\ id # New /\ id \in Nat
  BY <1>1 DEF New, AllIds
<1>3. \A id \in 1 .. Made : rec'[id] = rec[id]
  BY <1>2 DEF RecsOK
<1>4. \A id \in 1 .. Made : id <= Made'
  BY <1>1, <1>2, <1>3 DEF RecsOK
<1>5. Made <= Made'
  <2>1. CASE Made = 0
    BY <1>1, <2>1
  <2>2. CASE Made # 0
    BY <1>1, <1>4, <2>2
  <2> QED BY <2>1, <2>2
<1> QED BY <1>1, <1>2, <1>3, <1>5 DEF Keeps

LEMMA UnsavedSaves ==
  ASSUME FoldersInv, FoldersInv', UnsavedInv, NEW w \in Workers,
         UploadNew(w) \/ UploadFails(w) \/ IngestNew(w) \/ Saved(w)
  PROVE  UnsavedInv'
<1>1. Keeps(Made) /\ pending' \subseteq pending
  <2>1. \E e : rec' = rec \/ rec' = [rec EXCEPT ![New] = e]
    BY DEF UploadNew, Store, UploadFails, IngestNew, Saved
  <2>2. pending' \subseteq pending
    BY DEF UploadNew, UploadFails, IngestNew, Saved
  <2> QED BY <2>1, <2>2, RecsKeep DEF FoldersInv
<1>2. job[w] \in JobType(Made) /\ JobHolds(job[w]) /\ Made \in Nat
  BY FoldersAssumption DEF FoldersInv, JobsOK, RecsOK
<1>3. \A p \in pending : p[1] \in Ids(index) => p[1] \in Ids(index')
  <2>1. CASE index' = index
    BY <2>1
  <2>2. CASE IngestNew(w)
    <3>1. /\ index' = InsertEntry(index, job[w].id, rec[job[w].id]) /\ rec' = rec
          /\ job[w].kind # "rename" /\ job[w].pc = "ingest"
      BY <2>2 DEF IngestNew, AtPc
    <3>2. job[w].id \in 1 .. Made
      BY <1>2, <3>1 DEF JobHolds, JobType, None
    <3> QED BY <3>1, <3>2, IndexGains DEF FoldersInv
  <2> QED BY <2>1, <2>2 DEF UploadNew, UploadFails, Saved
<1>4. CASE End(w)
  BY <1>1, <1>3, <1>4, UnsavedEnd
<1>5. CASE ~End(w)
  <2> DEFINE j(pc, id) == [job[w] EXCEPT !.pc = pc, !.id = id]
  <2>1. \E pc \in {"ingest", "repoint"} : \E id : job' = [job EXCEPT ![w] = j(pc, id)]
    <3>1. CASE UploadNew(w)
      BY <1>5, <3>1 DEF UploadNew
    <3>2. CASE IngestNew(w)
      <4>1. job' = [job EXCEPT ![w] = [job[w] EXCEPT !.pc = "repoint"]]
        BY <1>5, <3>2 DEF IngestNew, GoTo
      <4>2. [job[w] EXCEPT !.pc = "repoint"] = j("repoint", job[w].id)
        <5> HIDE DEF Frames
        <5> QED BY <1>2 DEF JobType
      <4> QED BY <4>1, <4>2
    <3> QED BY <1>5, <3>1, <3>2 DEF UploadFails, Saved
  <2>2. PICK pc \in {"ingest", "repoint"} : \E id : job' = [job EXCEPT ![w] = j(pc, id)]
    BY <2>1
  <2>3. PICK id : job' = [job EXCEPT ![w] = j(pc, id)]
    BY <2>2
  <2>4. /\ j(pc, id).pc # "delete" /\ j(pc, id).victim = job[w].victim
        /\ j(pc, id).locked = job[w].locked /\ j(pc, id).stack = job[w].stack
    <3> HIDE DEF Frames
    <3> QED BY <1>2 DEF JobType
  <2> HIDE DEF j
  <2>5. \A k \in DOMAIN j(pc, id).stack : UnsavedIn(j(pc, id).stack[k].id) = {}
    BY <2>4 DEF UnsavedInv, JobGuards
  <2> QED BY <1>1, <1>3, <2>3, <2>4, <2>5, UnsavedOn
<1> QED BY <1>4, <1>5

LEMMA UnsavedDelete ==
  ASSUME FoldersInv, UnsavedInv, NEW w \in Workers, Delete(w) \/ Replace(w)
  PROVE  UnsavedInv'
<1>1. End(w) /\ rec' = rec /\ pending' = pending
  BY DEF Delete, Replace
<1>2. Keeps(Made)
  BY <1>1, SameKeeps DEF FoldersInv
<1>3. JobGuards(job[w])
  BY DEF UnsavedInv
<1>4. \A p \in pending : p[1] \in Ids(index) => p[1] \in Ids(index')
  <2>1. CASE Delete(w)
    <3>1. UnsavedIn(job[w].id) = {}
      BY <1>3, <2>1 DEF JobGuards, Guarded, Delete, AtPc
    <3>2. Drop(job[w].id) \/ index' = index
      BY <2>1 DEF Delete
    <3> QED BY <1>1, <3>1, <3>2, UnsavedDrop
  <2>2. CASE Replace(w) /\ job[w].victim # None
    <3>1. UnsavedIn(job[w].victim) = {}
      BY <1>3, <2>2 DEF JobGuards, Guarded
    <3>2. Drop(job[w].victim) \/ index' = index
      BY <2>2 DEF Replace
    <3> QED BY <1>1, <3>1, <3>2, UnsavedDrop
  <2>3. CASE Replace(w) /\ job[w].victim = None
    <3>1. index' = index
      BY <2>3 DEF Replace
    <3> QED BY <3>1
  <2> QED BY <2>1, <2>2, <2>3
<1> QED BY <1>1, <1>2, <1>4, UnsavedEnd

\* The frames of a job that goes on.
LEMMA UnsavedGoes ==
  ASSUME FoldersInv, UnsavedInv, Keeps(Made), pending' \subseteq pending, NEW w \in Workers,
         NEW pc, pc # "delete", NEW stack, job' = [job EXCEPT ![w] = GoesOn(job[w], pc, stack)],
         \A k \in DOMAIN stack : UnsavedIn(stack[k].id) = {},
         \A p \in pending : p[1] \in Ids(index) => p[1] \in Ids(index')
  PROVE  UnsavedInv'
<1> DEFINE j == GoesOn(job[w], pc, stack)
<1>1. j.pc = pc /\ j.stack = stack /\ j.victim = job[w].victim /\ j.locked = job[w].locked
  <2>1. job[w] \in JobType(Made)
    BY DEF FoldersInv, JobsOK
  <2> HIDE DEF Frames
  <2> QED BY <2>1 DEF JobType, GoesOn
<1>2. job' = [job EXCEPT ![w] = j]
  OBVIOUS
<1> HIDE DEF j
<1> QED BY <1>1, <1>2, UnsavedOn

LEMMA UnsavedMoves ==
  ASSUME FoldersInv, FoldersInv', UnsavedInv, ~MoveBusy, NEW w \in Workers,
         UploadCopy(w) \/ IngestCopy(w) \/ ListKids(w) \/ DropOld(w) \/ (\E k \in AllIds : MoveKid(w, k))
  PROVE  UnsavedInv'
<1> DEFINE s == job[w].stack
           f == Top(w)
<1>0. Moves(job[w])
  BY DEF UploadCopy, IngestCopy, ListKids, DropOld, MoveKid, AtPc, Moves
<1>1. /\ Made \in Nat /\ job[w] \in JobType(Made) /\ JobHolds(job[w]) /\ s \in Seq(Frames(Made))
      /\ Len(s) \in Nat /\ Len(s) # 0 /\ DOMAIN s = 1 .. Len(s) /\ job[w].kind = "rename"
      /\ f = s[Len(s)] /\ f \in Frames(Made)
  BY <1>0, TopIs
<1>2. Keeps(Made) /\ pending' \subseteq pending
  <2>1. \E e : rec' = rec \/ rec' = [rec EXCEPT ![New] = e]
    BY DEF UploadCopy, Store, IngestCopy, ListKids, DropOld, MoveKid
  <2>2. pending' \subseteq pending
    BY DEF UploadCopy, IngestCopy, ListKids, DropOld, MoveKid
  <2> QED BY <2>1, <2>2, RecsKeep DEF FoldersInv
<1>3. \A k \in 1 .. Len(s) : UnsavedIn(s[k].id) = {}
  BY <1>1 DEF UnsavedInv, JobGuards
<1>4. UnsavedIn(f.id) = {}
  <2>1. Len(s) \in 1 .. Len(s)
    <3> HIDE DEF s
    <3> QED BY <1>1
  <2> HIDE DEF s, f
  <2> QED BY <1>1, <1>3, <2>1
<1>5. \A p \in pending : p[1] \in Ids(index) => p[1] \in Ids(index')
  <2>1. CASE index' = index
    BY <2>1
  <2>2. CASE IngestCopy(w)
    <3>1. index' = InsertEntry(index, f.new, rec[f.new]) /\ rec' = rec /\ job[w].pc = "ingest"
      BY <2>2 DEF IngestCopy, AtPc
    <3>2. Len(s) \in DOMAIN s
      BY <1>1
    <3>3. f.new # None
      BY <1>1, <3>1, <3>2 DEF JobHolds
    <3>4. f.new \in 1 .. Made
      BY <1>1, <3>3 DEF Frames, None
    <3> QED BY <3>1, <3>4, IndexGains DEF FoldersInv
  <2>3. CASE DropOld(w)
    BY <1>4, <2>3, UnsavedDrop DEF DropOld
  <2> QED BY <2>1, <2>2, <2>3 DEF UploadCopy, ListKids, MoveKid
\* What is put on the top is of the same record.
<1>6. ASSUME NEW g, g.id = f.id
      PROVE  /\ DOMAIN [s EXCEPT ![Len(s)] = g] = 1 .. Len(s)
             /\ \A k \in 1 .. Len(s) : UnsavedIn([s EXCEPT ![Len(s)] = g][k].id) = {}
  <2>1. /\ DOMAIN [s EXCEPT ![Len(s)] = g] = 1 .. Len(s)
        /\ \A k \in 1 .. Len(s) : [s EXCEPT ![Len(s)] = g][k] = IF k = Len(s) THEN g ELSE s[k]
    <3> HIDE DEF s
    <3> QED BY <1>1
  <2> HIDE DEF s
  <2> QED BY <1>3, <1>4, <1>6, <2>1
<1>7. CASE UploadCopy(w)
  <2>1. CASE End(w)
    BY <1>2, <1>5, <2>1, UnsavedEnd
  <2>2. CASE ~End(w)
    <3> DEFINE g == [f EXCEPT !.new = New]
               stack == [s EXCEPT ![Len(s)] = g]
    <3>1. job' = [job EXCEPT ![w].pc = "ingest", ![w].stack = stack]
      BY <1>7, <2>2 DEF UploadCopy, SetTop
    <3>2. g.id = f.id
      BY <1>1 DEF Frames
    <3>3. \A k \in DOMAIN stack : UnsavedIn(stack[k].id) = {}
      <4> HIDE DEF g, s
      <4> QED BY <1>6, <3>2
    <3> HIDE DEF stack
    <3>4. job' = [job EXCEPT ![w] = [job[w] EXCEPT !.pc = "ingest", !.stack = stack]]
      BY <3>1, Zenon
    <3>5. job' = [job EXCEPT ![w] = GoesOn(job[w], "ingest", stack)]
      BY <3>4 DEF GoesOn
    <3> QED BY <1>2, <1>5, <3>3, <3>5, UnsavedGoes
  <2> QED BY <2>1, <2>2
<1>8. CASE IngestCopy(w)
  <2>1. GoesOn(job[w], "list", s) = [job[w] EXCEPT !.pc = "list"]
    <3> HIDE DEF Frames
    <3> QED BY <1>1 DEF GoesOn, JobType
  <2>2. job' = [job EXCEPT ![w] = GoesOn(job[w], "list", s)]
    BY <1>8, <2>1 DEF IngestCopy, GoTo
  <2> QED BY <1>1, <1>2, <1>3, <1>5, <2>2, UnsavedGoes
<1>9. CASE ListKids(w)
  <2> DEFINE kids == {k \in Children(index, f.id) : ~rec[k].v2}
             g == [f EXCEPT !.kids = kids]
             stack == [s EXCEPT ![Len(s)] = g]
  <2>1. job' = [job EXCEPT ![w].pc = "kids", ![w].stack = stack]
    BY <1>9 DEF ListKids, SetTop
  <2>2. g.id = f.id
    <3> HIDE DEF kids
    <3> QED BY <1>1 DEF Frames
  <2>3. \A k \in DOMAIN stack : UnsavedIn(stack[k].id) = {}
    <3> HIDE DEF g, s
    <3> QED BY <1>6, <2>2
  <2> HIDE DEF stack
  <2>4. job' = [job EXCEPT ![w] = [job[w] EXCEPT !.pc = "kids", !.stack = stack]]
    BY <2>1, Zenon
  <2>5. job' = [job EXCEPT ![w] = GoesOn(job[w], "kids", stack)]
    BY <2>4 DEF GoesOn
  <2> QED BY <1>2, <1>5, <2>3, <2>5, UnsavedGoes
<1>10. ASSUME NEW k \in AllIds, MoveKid(w, k) PROVE UnsavedInv'
  <2> DEFINE g == [f EXCEPT !.kids = f.kids \ {k}]
             kid == Frame(k, rec[k].name, f.new)
             rest == [s EXCEPT ![Len(s)] = g]
             stack == Append(rest, kid)
  <2>1. job' = [job EXCEPT ![w].pc = "upload", ![w].stack = stack]
    BY <1>10 DEF MoveKid, SetTop
  <2>2. g.id = f.id /\ g \in Frames(Made)
    BY <1>1 DEF Frames
  <2>3. kid.id = k /\ UnsavedIn(k) = {}
    BY <1>10 DEF MoveKid, Frame
  <2> HIDE DEF g, kid
  <2>4. rest \in Seq(Frames(Made)) /\ Len(rest) = Len(s)
    <3> HIDE DEF Frames, s
    <3> QED BY <1>1, <2>2
  <2>5. \A i \in 1 .. Len(s) : UnsavedIn(rest[i].id) = {}
    <3> HIDE DEF s
    <3> QED BY <1>6, <2>2
  <2> HIDE DEF rest
  <2>6. DOMAIN stack = 1 .. Len(s) + 1 /\ stack[Len(s) + 1] = kid /\ \A i \in 1 .. Len(s) : stack[i] = rest[i]
    <3> HIDE DEF Frames, s
    <3> QED BY <1>1, <2>4
  <2> HIDE DEF stack
  <2>7. \A i \in DOMAIN stack : UnsavedIn(stack[i].id) = {}
    <3>1. \A i \in 1 .. Len(s) + 1 : i = Len(s) + 1 \/ i \in 1 .. Len(s)
      <4> HIDE DEF s
      <4> QED BY <1>1
    <3> HIDE DEF s
    <3> QED BY <2>3, <2>5, <2>6, <3>1
  <2>8. job' = [job EXCEPT ![w] = [job[w] EXCEPT !.pc = "upload", !.stack = stack]]
    BY <2>1, Zenon
  <2>9. job' = [job EXCEPT ![w] = GoesOn(job[w], "upload", stack)]
    BY <2>8 DEF GoesOn
  <2> QED BY <1>2, <1>5, <2>7, <2>9, UnsavedGoes
<1>11. CASE DropOld(w)
  <2> DEFINE stack == Front(s)
             pc == IF Len(s) = 1 THEN "replace" ELSE "kids"
  <2>1. job' = [job EXCEPT ![w].stack = stack, ![w].pc = pc]
    BY <1>11 DEF DropOld
  <2>2. stack = SubSeq(s, 1, Len(s) - 1)
    BY DEF Front
  <2> HIDE DEF stack
  <2>3. DOMAIN stack = 1 .. Len(s) - 1 /\ \A i \in 1 .. Len(s) - 1 : stack[i] = s[i]
    <3> HIDE DEF Frames, s
    <3> QED BY <1>1, <2>2
  <2>4. pc # "delete"
    OBVIOUS
  <2> HIDE DEF pc
  <2>5. \A i \in DOMAIN stack : UnsavedIn(stack[i].id) = {}
    <3> HIDE DEF s
    <3>1. \A i \in 1 .. Len(s) - 1 : i \in 1 .. Len(s)
      BY <1>1
    <3> QED BY <1>3, <2>3, <3>1
  <2>6. job' = [job EXCEPT ![w] = [job[w] EXCEPT !.stack = stack, !.pc = pc]]
    BY <2>1, Zenon
  <2>7. [job[w] EXCEPT !.stack = stack, !.pc = pc] = GoesOn(job[w], pc, stack)
    <3> HIDE DEF Frames
    <3> QED BY <1>1 DEF JobType, GoesOn
  <2> QED BY <1>2, <1>5, <2>4, <2>5, <2>6, <2>7, UnsavedGoes
<1> QED BY <1>7, <1>8, <1>9, <1>10, <1>11

LEMMA UnsavedElsewhere ==
  ASSUME FoldersInv, FoldersInv', UnsavedInv, NEW id \in AllIds,
         \/ \E n \in Names : CreateElsewhere(n) \/ RenameElsewhere(id, n)
         \/ UpgradeElsewhere(id) \/ DeleteElsewhere(id)
  PROVE  UnsavedInv'
<1>1. UNCHANGED <<index, pending, job>> /\ \E e : rec' = rec \/ rec' = [rec EXCEPT ![New] = e]
  BY DEF CreateElsewhere, RenameElsewhere, UpgradeElsewhere, DeleteElsewhere, StoreElsewhere
<1>2. Keeps(Made)
  BY <1>1, RecsKeep DEF FoldersInv
<1> QED BY <1>1, <1>2, UnsavedStill

LEMMA UnsavedSync ==
  ASSUME FoldersInv, UnsavedInv, ~MoveBusy, SyncSome
  PROVE  UnsavedInv'
<1>1. PICK gone \in SUBSET Ids(index), fresh \in SUBSET stored :
        \E g \in SetToSeqs(gone), f \in SetToSeqs(fresh) :
          Sync(g, f) /\ IsFiniteSet(gone) /\ IsFiniteSet(fresh)
  BY SyncIs
<1>2. PICK g \in SetToSeqs(gone), f \in SetToSeqs(fresh) :
        Sync(g, f) /\ IsFiniteSet(gone) /\ IsFiniteSet(fresh)
  BY <1>1
<1> DEFINE n == Cardinality(gone)
           m == Cardinality(fresh)
<1>3. n \in Nat /\ m \in Nat /\ DOMAIN g = 1 .. n /\ DOMAIN f = 1 .. m /\ \A i \in 1 .. m : f[i] \in fresh
  BY <1>2, ListIs
<1> HIDE DEF n, m
<1>4. \A i \in 1 .. m : f[i] \in 1 .. Made
  BY <1>3 DEF FoldersInv
<1>5. UNCHANGED <<rec, pending, job>> /\ \A k \in 1 .. n : UnsavedIn(g[k]) = {}
  BY <1>2, <1>3 DEF Sync
<1>6. index' = FoldLeft(LAMBDA ix, id : InsertEntry(ix, id, rec[id]),
                        FoldLeft(LAMBDA ix, id : RemoveEntry(ix, id), index, g), f)
  BY <1>2, Zenon DEF Sync
<1>7. Ids(index) \ RangeOf(g, 1 .. n) \subseteq Ids(index')
  BY <1>3, <1>4, <1>5, <1>6, IndexSyncs DEF FoldersInv
<1>8. \A p \in pending : p[1] \notin RangeOf(g, 1 .. n)
  BY <1>5 DEF RangeOf, UnsavedIn
<1>9. Keeps(Made)
  BY <1>5, SameKeeps DEF FoldersInv
<1> QED BY <1>5, <1>7, <1>8, <1>9, UnsavedStill

LEMMA UnsavedStepHolds ==
  ASSUME ~MoveBusy
  PROVE  FoldersInv /\ FoldersInv' /\ UnsavedInv /\ [Next]_vars => UnsavedInv'
<1> SUFFICES ASSUME FoldersInv, FoldersInv', UnsavedInv, [Next]_vars PROVE UnsavedInv'
  OBVIOUS
<1>1. ASSUME NEW d \in Seen, NEW n \in Names, Create(d, n) PROVE UnsavedInv'
  BY <1>1, UnsavedCreate
<1>2. ASSUME NEW d, NEW n, UnlinkPending(d, n) PROVE UnsavedInv'
  <2>1. UNCHANGED <<index, rec, job>> /\ pending' \subseteq pending
    BY <1>2 DEF UnlinkPending
  <2> QED BY <2>1, SameKeeps, UnsavedStill DEF FoldersInv
<1>3. ASSUME NEW d, NEW n, NEW w \in Workers, Mkdir(d, n, w) \/ Unlink(d, n, w) \/ Rmdir(d, n, w)
      PROVE  UnsavedInv'
  BY <1>3, UnsavedRequest
<1>4. ASSUME NEW d, NEW d2, NEW n, NEW n2, NEW w \in Workers, Rename(d, n, d2, n2, w) PROVE UnsavedInv'
  BY <1>4, UnsavedRename
<1>5. ASSUME NEW p \in pending, NEW w \in Workers, StartSave(p, w) PROVE UnsavedInv'
  BY <1>5, UnsavedRequest
<1>6. ASSUME NEW w \in Workers, WorkStep(w) PROVE UnsavedInv'
  <2>1. CASE UploadNew(w) \/ UploadFails(w) \/ IngestNew(w) \/ Saved(w)
    BY <2>1, UnsavedSaves
  <2>2. CASE Delete(w) \/ Replace(w)
    BY <2>2, UnsavedDelete
  <2>3. CASE UploadCopy(w) \/ IngestCopy(w) \/ ListKids(w) \/ DropOld(w) \/ (\E k \in AllIds : MoveKid(w, k))
    BY <2>3, UnsavedMoves
  <2> QED BY <1>6, <2>1, <2>2, <2>3 DEF WorkStep
<1>7. ASSUME NEW n \in Names, CreateElsewhere(n) PROVE UnsavedInv'
  <2>1. /\ New <= MaxId /\ New = Made + 1 /\ Made \in Nat /\ MaxId \in Nat
    BY <1>7, FoldersAssumption DEF CreateElsewhere, StoreElsewhere, New, FoldersInv, RecsOK
  <2>2. New \in AllIds
    BY <2>1 DEF AllIds
  <2> QED BY <1>7, <2>2, UnsavedElsewhere
<1>8. ASSUME NEW id \in AllIds, NEW n \in Names, RenameElsewhere(id, n) PROVE UnsavedInv'
  BY <1>8, UnsavedElsewhere
<1>9. ASSUME NEW id \in AllIds, UpgradeElsewhere(id) \/ DeleteElsewhere(id) PROVE UnsavedInv'
  BY <1>9, UnsavedElsewhere
<1>10. CASE SyncSome
  BY <1>10, UnsavedSync
<1>11. CASE UNCHANGED vars
  BY <1>11, SameKeeps, UnsavedStill DEF vars, FoldersInv
<1> QED BY <1>1, <1>2, <1>3, <1>4, <1>5, <1>6, <1>7, <1>8, <1>9, <1>10, <1>11 DEF Next

\* Where no folder with unsaved new files in it is moved, replaced or taken away by a sync,
\* a new file has a folder to be saved in: no removal, no replacement and no step of a move
\* of old entries, whatever comes between its check and its end, leaves one without.
THEOREM UnsavedKeepFolders ==
  ASSUME ~MoveBusy
  PROVE  Spec => []UnsavedHasFolder
<1>1. Init => UnsavedInv
  <2> SUFFICES ASSUME Init PROVE UnsavedInv
    OBVIOUS
  <2>1. \A w \in Workers : job[w] = NoJob
    BY DEF Init
  <2> QED BY <2>1, NoJobGuards DEF Init, UnsavedInv, UnsavedHasFolder
<1>2. FoldersInv /\ FoldersInv' /\ UnsavedInv /\ [Next]_vars => UnsavedInv'
  BY UnsavedStepHolds
<1>3. UnsavedInv => UnsavedHasFolder
  BY DEF UnsavedInv
<1> QED BY <1>1, <1>2, <1>3, Holds, PTL DEF Spec
=============================================================================
