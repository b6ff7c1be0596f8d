---------------------------- MODULE MCInferLoops ----------------------------
(* Small instances of the two loops that play without planning.            *)
EXTENDS InferLoops

InferConfig(loop, window, steps, random, validate, length) ==
  [loop |-> loop, window |-> window, steps |-> steps, random |-> random,
   validate |-> validate, length |-> length]

(* Each loop with messages and without; a window that is wider than the    *)
(* game so far and one the game outgrows; responses whole and cut.         *)
SmallInfer ==
  {InferConfig("value", 2, 1, TRUE, TRUE, 30), InferConfig("value", 0, 1, FALSE, TRUE, 30),
   InferConfig("value", 3, 3, TRUE, TRUE, 9), InferConfig("local", 3, 3, TRUE, FALSE, 30),
   InferConfig("local", 0, 2, TRUE, TRUE, 5)}

(* The value loop without a window.                                        *)
Aliasing == {InferConfig("value", 0, 1, FALSE, TRUE, 30)}
=============================================================================
