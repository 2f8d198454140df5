---------------------------- MODULE MCRemoteScan ----------------------------
(* Small instances of remote execution: a ring of two workers.               *)
EXTENDS RemoteScan, TLC

CONSTANTS r1, r2, w1, w2

Ring == [w \in {w1, w2} |-> IF w = w1 THEN w2 ELSE w1]
Alone == [w \in {w1} |-> w1]
Symmetry == Permutations(Runs)
=============================================================================
