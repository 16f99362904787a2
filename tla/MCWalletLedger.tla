--------------------------- MODULE MCWalletLedger ---------------------------
(* Model values and symmetry for checking WalletLedger with TLC. *)
EXTENDS WalletLedger, TLC

CONSTANTS p1, p2, p3, r1

OneProc    == {p1}
TwoProcs   == {p1, p2}
ThreeProcs == {p1, p2, p3}
OneReference == {r1}
OneOrTwo   == {0, 1, 2}
CollectionOnly == {"COLLECTION"}
BothWallets    == Wallets

ProcSymmetry == Permutations(Procs)
=============================================================================
