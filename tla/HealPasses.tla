----------------------------- MODULE HealPasses -----------------------------
(***************************************************************************)
(* Several clients cleaning one vault.  Each has made its plan from what   *)
(* its own listing showed, which may be old or miss records, and removes   *)
(* one leftover at a time, whose successor it has read back before; what   *)
(* it has read back may be gone when the leftover is removed.              *)
(***************************************************************************)
EXTENDS Heal, Functions

CONSTANT Vaults \* the vaults to start from: sets of items by identifier

\* Records of one fingerprint are one record stored twice.
ASSUME VaultsAssumption ==
  \A v \in Vaults :
    /\ IsFiniteSet(DOMAIN v) /\ DOMAIN v \subseteq Nat
    /\ \A i \in DOMAIN v : v[i].rev \in Nat
    /\ \A i, j \in DOMAIN v : v[i].print = v[j].print => v[i] = v[j]

VARIABLES first,   \* the items there were, for the properties
          items,   \* the items still stored
          verified \* the items that some client has read back

vars == <<first, items, verified>>

Init == first \in Vaults /\ items = first /\ verified = {}

\* The planned leftovers of a client that has seen the records in view.
Leftovers(view) == Plan(Restrict(first, view))

\* The two calls of a round of heal_pending().  Others delete between them, also after
\* the one and before the other call of the same client; as any client reads back
\* what any plan names, which one it was makes no difference.
ReadBack(plan) ==
  /\ \E i \in DOMAIN plan :
       /\ plan[i].succ \in DOMAIN items
       /\ verified' = verified \cup {plan[i].succ}
  /\ UNCHANGED <<first, items>>

CleanOne(plan) ==
  /\ \E i \in DOMAIN plan \cap DOMAIN items :
       /\ plan[i].succ \in verified
       /\ items' = Restrict(items, DOMAIN items \ {i})
  /\ UNCHANGED <<first, verified>>

Next ==
  \E plan \in {Leftovers(view) : view \in SUBSET DOMAIN first} :
    ReadBack(plan) \/ CleanOne(plan)

Spec == Init /\ [][Next]_vars

-----------------------------------------------------------------------------
\* The records that hold what i holds or a later version of it: a copy, a
\* rename of the same object, a save over one of these.
Follows(s, i, j) ==
  \/ s[j].print = s[i].print
  \/ s[i].ref # None /\ s[j].ref = s[i].ref /\ s[j].folder = s[i].folder
  \/ s[i].ref # None /\ s[j].from = s[i].ref /\ ~s[i].folder /\ ~s[j].folder

Heirs(s, i) ==
  LET found[n \in 0..Cardinality(DOMAIN s)] ==
        IF n = 0
        THEN {i}
        ELSE LET before == found[n - 1]
             IN  before \cup {j \in DOMAIN s : \E k \in before : Follows(s, k, j)}
  IN  found[Cardinality(DOMAIN s)]

\* Of any objects one was not saved over by another of them.  A save gives the file a
\* new reference, so no history leads elsewhere.
NoCircle(s) ==
  \A R \in SUBSET {s[i].ref : i \in DOMAIN s} :
    R = {} \/ \E r \in R : \A i \in DOMAIN s :
                ~s[i].folder /\ s[i].ref \in R /\ s[i].from = r => s[i].ref = r

\* Whatever each client has seen and in whatever order they clean, of every
\* record there is still a copy, a rename or a later version: of two edits of
\* one version neither is ever removed for the other.  Reading the successor back
\* does not ensure this, as others may have removed it since; that all clients
\* follow one order does (plan).
EveryVersionHasAnHeir ==
  NoCircle(first) => \A i \in DOMAIN first : Heirs(first, i) \cap DOMAIN items # {}

\* The successors named by one plan lead to a record that the plan leaves
\* alone, so following them never ends at a record that is to be removed.
SuccessorsEnd ==
  LET plan == Plan(items)
      step == [i \in DOMAIN items |-> IF i \in DOMAIN plan THEN plan[i].succ ELSE i]
  IN  \A i \in DOMAIN items :
        LET at[n \in 0..Cardinality(DOMAIN items)] == IF n = 0 THEN i ELSE step[at[n - 1]]
        IN  at[Cardinality(DOMAIN items)] \notin DOMAIN plan

\* A vault that one client has cleaned completely shows it no new leftover, so
\* the cleaning ends and does not go on removing what it kept.
OnePassSettles ==
  LET plan == Plan(items)
  IN  DOMAIN Plan(Restrict(items, DOMAIN items \ DOMAIN plan)) = {}
=============================================================================
