--------------------------- MODULE MCVaultMigration ---------------------------
(* VaultMigration with two items. *)
EXTENDS VaultMigration, TLC

CONSTANTS i1, i2

TwoItems == {i1, i2}
AnyRuntime == BOOLEAN
ItemSymmetry == Permutations(TwoItems)
===============================================================================
