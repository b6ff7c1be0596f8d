---------------------------- MODULE MCEnvClient ----------------------------
(* Small instances of EnvClient. *)
EXTENDS EnvClient, TLC

CONSTANTS game, sim1, sim2

OneSim == {sim1}
TwoSims == {sim1, sim2}
Symmetry == Permutations(TwoSims)

OnlyRefusals == {"refuse"}
AllFaults == {"refuse", "break", "timeout"}
OnlyTimeouts == {"timeout"}
NoFaults == {}
=============================================================================
