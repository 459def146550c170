------------------------- MODULE MCLegacyMigration --------------------------
(* Instances of LegacyMigration for TLC. *)
EXTENDS LegacyMigration, TLC

Symmetry == Permutations(Process)
=============================================================================
