---------------------------- MODULE MCVaultSession ----------------------------
(* VaultSession with one submission of the form, the biometric prompt and    *)
(* one rebuild by the restore panel.                                         *)
EXTENDS VaultSession

CONSTANTS f1, p1

OneForm == {f1}
OnePanel == {p1}
===============================================================================
