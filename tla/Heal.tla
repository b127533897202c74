-------------------------------- MODULE Heal --------------------------------
(***************************************************************************)
(* The rules of heal.rs: which of the records of a vault are leftovers and *)
(* which record each leftover gives way to.  A pure function of a set of   *)
(* items.  An item is a record with the fields of HealItem:                *)
(*   ref      the node reference, None for an item whose key cannot be read*)
(*   from     the reference of the version the item replaced, or None      *)
(*   rev      the number of renames and moves, 0 for none                  *)
(*   folder   a folder, not a file                                         *)
(*   movable  a folder no record of the old format lies in                 *)
(*   print    the fingerprint of the stored record                         *)
(* Identifiers and references are numbers: the code compares the           *)
(* identifiers as text and only their order matters here.                  *)
(***************************************************************************)
EXTENDS Naturals, FiniteSets, FiniteSetsExt

None == 0

\* The records that give way to nobody under the first rule keep the
\* smallest identifier of the records with their fingerprint.
Keeper(items, i) == Min({j \in DOMAIN items : items[j].print = items[i].print})

Copies(items) == {i \in DOMAIN items : Keeper(items, i) # i}

\* Second rule: the records of one object, where the rule may look at them.
Comparable(items) ==
  {i \in DOMAIN items \ Copies(items) :
     items[i].ref # None /\ (items[i].folder => items[i].movable)}

Versions(items, i) ==
  {j \in Comparable(items) :
     items[j].ref = items[i].ref /\ items[j].folder = items[i].folder}

Newest(items, i) ==
  LET all == Versions(items, i)
  IN  {j \in all : \A k \in all : items[k].rev <= items[j].rev}

\* Mutant: only the version with the lowest number goes.
OlderOldest(items) ==
  {i \in Comparable(items) :
     /\ Cardinality(Newest(items, i)) = 1 /\ i \notin Newest(items, i)
     /\ \A k \in Versions(items, i) : items[i].rev <= items[k].rev}

Older(items) ==
  {i \in Comparable(items) :
     Cardinality(Newest(items, i)) = 1 /\ i \notin Newest(items, i)}

\* Third rule: a file that says it was saved over another one replaces it.
Files(items) ==
  {i \in DOMAIN items \ (Copies(items) \cup Older(items)) : ~items[i].folder}

\* Mutant: two saves of one version are taken for saves of each other.
SavesOfSiblings(items, i) ==
  {n \in Files(items) \ {i} :
     items[n].from # None /\ (items[n].from = items[i].ref \/ items[n].from = items[i].from)}

SavesOf(items, i) ==
  {n \in Files(items) \ {i} :
     /\ items[i].ref # None
     /\ items[n].from = items[i].ref
     /\ items[n].from # items[n].ref}

NextSave(items) ==
  [i \in {j \in Files(items) : SavesOf(items, j) # {}} |-> Min(SavesOf(items, i))]

\* Mutant: a chain that goes round in a cycle is cut somewhere.
LastSaveAny(items) ==
  LET next == NextSave(items)
      walk[n \in 0..Cardinality(DOMAIN items)] ==
        [i \in DOMAIN items |->
           IF n = 0 \/ i \notin DOMAIN next THEN i ELSE walk[n - 1][next[i]]]
  IN  [i \in DOMAIN next |-> walk[Cardinality(DOMAIN items)][i]]

\* The last save of every chain of saves that ends; a chain ends within as
\* many steps as there are items or goes round in a cycle, and cycles are left
\* alone.
LastSave(items) ==
  LET next == NextSave(items)
      walk[n \in 0..Cardinality(DOMAIN items)] ==
        [i \in DOMAIN items |->
           IF n = 0 \/ i \notin DOMAIN next THEN i ELSE walk[n - 1][next[i]]]
      end(i) == walk[Cardinality(DOMAIN items)][i]
  IN  [i \in {j \in DOMAIN next : end(j) \notin DOMAIN next} |-> end(i)]

\* plan(): the leftovers, each with its successor and the kind of leftover.
Plan(items) ==
  LET last  == LastSave(items)
      older == Older(items)
  IN  [i \in Copies(items) \cup older \cup DOMAIN last |->
         IF i \in Copies(items)
         THEN [succ |-> Keeper(items, i), identical |-> TRUE]
         ELSE IF i \in older
         THEN [succ |-> CHOOSE j \in Newest(items, i) : TRUE, identical |-> FALSE]
         ELSE [succ |-> last[i], identical |-> FALSE]]
=============================================================================
