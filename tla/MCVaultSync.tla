------------------------------ MODULE MCVaultSync ------------------------------
(* The instances of VaultSync that TLC checks. *)
EXTENDS VaultSync, TLC

CONSTANTS d1, d2, a, b

TwoDevices == {d1, d2}
OneId == {a}
TwoIds == {a, b}
WithAndWithoutETags == {TRUE, FALSE}
WithoutETags == {FALSE}
OneOfEach == d1 :> "file" @@ d2 :> "wa-sqlite"
AllFiles == [d \in Devices |-> "file"]

\* The ids are interchangeable; the devices have different backends.
SymSync == Permutations(TwoIds)

=============================================================================
