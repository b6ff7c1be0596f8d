---------------------------- MODULE MCEnvServer ----------------------------
(* Small instances of the environment server.                              *)
EXTENDS EnvServer, TLC

CONSTANTS r1, r2, r3, r4, r5, r6, w1, w2, w3, w4

FourReqs == {r1, r2, r3, r4}
FiveReqs == {r1, r2, r3, r4, r5}
SixReqs  == {r1, r2, r3, r4, r5, r6}
TwoWorkers  == {w1, w2}
FourWorkers == {w1, w2, w3, w4}

Symmetry == Permutations(Reqs) \cup Permutations(Workers)
=============================================================================
