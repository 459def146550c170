-------------------------- MODULE MCVaultStorage ---------------------------
(* Instances of VaultStorage for TLC. *)
EXTENDS VaultStorage, TLC

WithoutPortable == Operation \ {"import", "export"}
WithPortable == {"save", "create", "import", "export"}
Symmetry == Permutations(Process)
=============================================================================
