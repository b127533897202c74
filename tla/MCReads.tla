------------------------------ MODULE MCReads -------------------------------
(***************************************************************************)
(* Instances of Reads.tla for TLC: small vaults and what is open in them.  *)
(***************************************************************************)
EXTENDS Reads

CONSTANTS h1, h2

Mount(kind, size, from, first, second, workers, permits, most, bad) ==
  [kind |-> kind, size |-> size, from |-> from, open |-> (h1 :> first) @@ (h2 :> second),
   workers |-> workers, permits |-> permits, reads |-> most, faults |-> bad]

\* Two small files that do not fit the cache together; one of them is renamed.
SmallFiles ==
  Mount([a |-> "small", b |-> "small", a2 |-> "small"], [a |-> 1, b |-> 2, a2 |-> 1],
        [a |-> None, b |-> None, a2 |-> "a"], "a", "b", 1, 1, 3, 0)
SmallFails == [SmallFiles EXCEPT !.reads = 2, !.faults = 1, !.workers = 2]
\* A file of two chunks, opened twice.
OneLarge ==
  Mount([c |-> "chunked"], [c |-> 2], [c |-> None], "c", "c", 2, 2, 2, 1)
\* A file of chunks and one that comes whole and is renamed, too large for the cache
\* together.
TwoLarge ==
  Mount([c |-> "chunked", w |-> "whole", w2 |-> "whole"], [c |-> 2, w |-> 1, w2 |-> 1],
        [c |-> None, w |-> None, w2 |-> "w"], "c", "w", 1, 1, 2, 1)

\* A file of two chunks that is open twice and renamed.
RenamedLarge ==
  Mount([c |-> "chunked", c2 |-> "chunked"], [c |-> 2, c2 |-> 2], [c |-> None, c2 |-> "c"],
        "c", "c", 1, 1, 2, 0)

RenamedWorld == {RenamedLarge}
AllWorlds == {SmallFiles, SmallFails, OneLarge, TwoLarge}
=============================================================================
