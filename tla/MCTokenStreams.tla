-------------------------- MODULE MCTokenStreams ---------------------------
(* Small instances of the token streams.                                   *)
EXTENDS TokenStreams

Config(mode, horizon, turn2, readjust, steps, length) ==
    [mode |-> mode, horizon |-> horizon, turn2 |-> turn2, readjust |-> readjust,
     steps |-> steps, length |-> length]

(* Two moves without simulating further than one turn, whole and cut; one  *)
(* move with two turns of simulation, in the response and left out of it.  *)
SmallConfigs ==
    {Config(mode, 1, TRUE, readjust, 1, length) :
        mode \in Modes, readjust \in BOOLEAN, length \in {18, 60}}
    \cup {Config(mode, 2, turn2, FALSE, 0, 60) : mode \in Modes, turn2 \in BOOLEAN}

(* Two moves, each with two turns of simulation in the response.           *)
TwoTurns == {Config("op-sd", 2, TRUE, FALSE, 1, 60)}
=============================================================================
