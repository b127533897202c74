---------------------------- MODULE MCHealPasses ----------------------------
EXTENDS HealPasses, TLC

CONSTANTS Long, Short \* how many items a vault has

File(ref, from, rev, print) ==
  [ref |-> ref, from |-> from, rev |-> rev, folder |-> FALSE, movable |-> FALSE, print |-> print]

\* One more item: a new file, or a copy, a rename or a save of one there is.
Grown(v) ==
  LET k == Cardinality(DOMAIN v) + 1
  IN  {v @@ (k :> File(k, None, 0, k))}
        \cup {v @@ (k :> v[j]) : j \in DOMAIN v}
        \cup {v @@ (k :> [v[j] EXCEPT !.rev = @ + 1, !.print = k]) : j \in DOMAIN v}
        \cup {v @@ (k :> File(k, v[j].ref, 0, k)) : j \in DOMAIN v}

Histories ==
  LET after[n \in 1..Long] ==
        IF n = 1 THEN {1 :> File(1, None, 0, 1)} ELSE UNION {Grown(v) : v \in after[n - 1]}
  IN  after[Long]

\* Any order of the identifiers: they say nothing of the age of a record.
Shuffled(v) == {[i \in DOMAIN v |-> v[p[i]]] : p \in Permutations(DOMAIN v)}

\* Items of every sort, in combinations no history leads to: references in a
\* circle, folders, and records whose key cannot be read.
Odd ==
  [ref : 1..3, from : 0..3, rev : {0}, folder : {FALSE}, movable : {FALSE}] \cup
  [ref : {1}, from : {None}, rev : {1}, folder : BOOLEAN, movable : {TRUE}] \cup
  [ref : {1}, from : {None}, rev : {0}, folder : {TRUE}, movable : BOOLEAN] \cup
  [ref : {None}, from : {None}, rev : {0}, folder : {FALSE}, movable : {FALSE}]

MCVaults ==
  UNION {Shuffled(v) : v \in Histories} \cup
  {[i \in 1..Short |-> [print |-> i] @@ f[i]] : f \in [1..Short -> Odd]}
=============================================================================
