------------------------------ MODULE MCVaultKeys -----------------------------
(* VaultKeys with one item, one attachment and two passwords. *)
EXTENDS VaultKeys, TLC

CONSTANTS i1, a1, p1, p2

AnyRuntime == BOOLEAN
WebOnly == {FALSE}
AnyBackend == {"file", "sqlite"}
SqliteOnly == {"sqlite"}
OneItem == {i1}
OneAttachment == {a1}
TwoPasswords == {p1, p2}
PasswordSymmetry == Permutations(TwoPasswords)
===============================================================================
