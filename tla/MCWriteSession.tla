--------------------------- MODULE MCWriteSession ---------------------------
(***************************************************************************)
(* Instances of WriteSession.tla for TLC.  MCSessionSaves.cfg: one open    *)
(* file among renames, truncates, failures and another client;             *)
(* MCSessionHandles.cfg: two handles that share a buffer.                  *)
(***************************************************************************)
EXTENDS WriteSession, TLC

\* The threads of the pool do not differ.
Symmetry == Permutations(Workers)
=============================================================================
