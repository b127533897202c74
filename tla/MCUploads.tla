----------------------------- MODULE MCUploads ------------------------------
(***************************************************************************)
(* Instances of Uploads.tla for TLC: small vaults, two uploads, and one    *)
(* other request that meets them.                                          *)
(***************************************************************************)
EXTENDS Uploads, TLC

CONSTANTS a, b

Vault(first, second, quota, request, most) ==
  [kind |-> (a :> first) @@ (b :> second), size |-> (a :> 1) @@ (b :> 2), parts |-> 1,
   quota |-> quota, other |-> request, faults |-> most]

\* Uploads of 1 and 2, and a quota that has no room for both, or has.
AllWorlds ==
  {Vault("file", "file", 2, "none", 2), Vault("file", "parts", 2, "none", 2)} \cup
  {Vault("file", "file", 3, x, 2) : x \in {"delete", "wipe", "rotate"}} \cup
  {Vault("file", "parts", 3, x, 1) : x \in {"delete", "wipe", "rotate"}} \cup
  {[Vault("parts", "parts", 3, "none", 1) EXCEPT !.parts = 2]}
=============================================================================
