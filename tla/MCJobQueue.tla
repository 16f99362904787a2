----------------------------- MODULE MCJobQueue -----------------------------
(* Model values and symmetry for checking JobQueue with TLC. *)
EXTENDS JobQueue, TLC

CONSTANTS w1, w2

OneWorker  == {w1}
TwoWorkers == {w1, w2}

WorkerSymmetry == Permutations(Workers)
=============================================================================
