----------------------------- MODULE MCTrainer -----------------------------
(* Small instances of the training loop.                                   *)
EXTENDS Trainer, TLC

CONSTANTS rank0, rank1

OneRank == {rank0}
TwoRanks == {rank0, rank1}

Symmetry == Permutations(Ranks)
=============================================================================
