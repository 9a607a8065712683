---------------------------- MODULE MCVaultBackups ----------------------------
(* VaultBackups with few of everything. *)
EXTENDS VaultBackups, TLC

CONSTANTS i1, i2, c1, j1

TwoItems == {i1, i2}
OneCapture == {c1}
OneJob == {j1}
OnLockAndDaily == {"on_lock", "daily"}
Apart == [on_lock |-> 1, daily |-> 1, weekly |-> 2]
Both == {"opfs", "wasqlite"}
TwoOrThree == {2, 3}
===============================================================================
