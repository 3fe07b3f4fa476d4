----------------------------- MODULE MCPauseGate -----------------------------
(* Small instances of PauseGate.                                            *)
EXTENDS PauseGate, TLC

CONSTANTS beat, tray, w1, w2, j1, j2

BeatOnly == {beat}
BothHands == {beat, tray}
OneWorker == {w1}
TwoWorkers == {w1, w2}
OneJob == {j1}
TwoJobs == {j1, j2}

Symmetry == Permutations(Workers) \cup Permutations(Jobs)
=============================================================================
