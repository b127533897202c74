---------------------------- MODULE MCVaultSync ----------------------------
(***************************************************************************)
(* Instances of VaultSync.tla for TLC: the vaults a mount finds.           *)
(***************************************************************************)
EXTENDS VaultSync

Vault(rec0, store0) == [rec |-> rec0, store |-> store0]

OneFile == {Vault(2 :> File(2, None, "a", "x"), <<2>>)}

\* A file whose upload was stored twice.
TwoCopies == {Vault((1 :> File(1, None, "a", "x")) @@ (2 :> File(1, None, "a", "x")), <<2, 1>>)}

\* A save that did not come to remove the old version, and whose new version
\* may be damaged; two files that were uploaded twice under one name.
Leftover ==
  {Vault((1 :> File(1, None, "a", "x")) @@ (2 :> File(2, 1, "a", c)), <<2, 1>>) : c \in {"y", "damaged"}}
TwoUploads ==
  {Vault((1 :> File(1, None, "a", "x")) @@ (2 :> File(2, None, "a", c)), <<2, 1>>) : c \in {"x", "damaged"}}

CleanWorlds == TwoCopies \cup Leftover \cup TwoUploads
=============================================================================
