----------------------------- MODULE MCFolders ------------------------------
(***************************************************************************)
(* Instances of Folders.tla for TLC: the vaults a mount finds, and names.  *)
(***************************************************************************)
EXTENDS Folders

\* "a", "b", "a (2)" as a name of its own, and two names that are cut to one alias.
A      == <<1>>
B      == <<2>>
A2     == <<1, 2>>
LongX  == <<3, 0>>
LongY  == <<3, -9>>

E(name0, ref0) == [NoEntry EXCEPT !.name = name0, !.ref = ref0]
Folder(name0, ref0) == [E(name0, ref0) EXCEPT !.folder = TRUE]
In(entry, d, world) == [entry EXCEPT !.parent = d, !.pref = world[d].ref]
Old(entry) == [entry EXCEPT !.v2 = FALSE, !.pref = None]

Top1 == 1 :> Folder(B, 1)
\* A folder "b" with a file "a (2)" in it; in the new format and in the old one.
NewVault == Top1 @@ (2 :> In(E(A2, 2), 1, Top1))
OldVault == [id \in 1 .. 2 |-> Old(NewVault[id])]

\* Two files of one name, and one whose own name is the alias of the second.
TwinVault == 1 :> E(A, 1) @@ 2 :> E(A, 2) @@ 3 :> E(A2, 3)
\* Two names too long for a number, twice each.
LongVault == 1 :> E(LongX, 1) @@ 2 :> E(LongX, 2) @@ 3 :> E(LongY, 3) @@ 4 :> E(LongY, 4)
LongOnes  == {LongX, LongY}

\* A folder with a file of the old format and a folder in it.
NestedVault == Top1 @@ 2 :> Old(In(E(A, 2), 1, Top1)) @@ 3 :> In(Folder(A2, 3), 1, Top1)

OneName     == {A}
NewOnly     == {NewVault}
NestedOnly  == {NestedVault}
SmallWorlds == {NewVault, OldVault, TwinVault, LongVault}
AnyWorker   == Permutations(Workers)
=============================================================================
