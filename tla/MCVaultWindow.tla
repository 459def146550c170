--------------------------- MODULE MCVaultWindow ----------------------------
(* Instances of VaultWindow for TLC. *)
EXTENDS VaultWindow

Symmetry == Permutations(Window)

(* The file starts empty, or with one entry. *)
Empty == {<<>>}
One == {<<entry>> : entry \in Window \X {1}}
=============================================================================
