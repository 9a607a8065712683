---------------------------- MODULE MCVaultStore ----------------------------
(* The instances of VaultStore that TLC checks. *)
EXTENDS VaultStoreRefinement, TLC

CONSTANTS t1, t2, o1, o2, o3, o4, a, b

OneTab == {t1}
TwoTabs == {t1, t2}
TwoOps == {o1, o2}
ThreeOps == {o1, o2, o3}
FourOps == {o1, o2, o3, o4}
MCValues(ops) == ops \cup {Seed, Forged}
ValuesOfTwo == MCValues(TwoOps)
ValuesOfThree == MCValues(ThreeOps)
ValuesOfFour == MCValues(FourOps)
OneId == {a}
TwoIds == {a, b}
OneKey == {Key}
Native == {"native"}
Mirror == {"mirror"}
NativeAndOpfs == {"native", "opfs"}
NativeAndMirror == {"native", "mirror"}

\* The operations are interchangeable, and so are the ids and the tabs.
SymTwoOps == Permutations(TwoOps) \cup Permutations(TwoIds)
SymTabs == Permutations(FourOps) \cup Permutations(TwoTabs)

=============================================================================
