---------------------------- MODULE EngineLeases ----------------------------
(***************************************************************************)
(* What the engine pool promises its callers, with no queues and no        *)
(* generations: an engine comes up once, is lent to one caller at a time   *)
(* and, once it has been quit, never runs again.                           *)
(***************************************************************************)
EXTENDS FiniteSets

CONSTANTS
  Engines,  \* engines that may ever be started
  Callers   \* whom they may be lent to

VARIABLES
  life,   \* of each engine: not started, up, or quit
  holders \* whom each engine is lent to

leaseVars == <<life, holders>>

LeaseInit ==
  /\ life = [e \in Engines |-> "none"]
  /\ holders = [e \in Engines |-> {}]

Boot(e) ==
  /\ life[e] = "none"
  /\ life' = [life EXCEPT ![e] = "up"]
  /\ UNCHANGED holders

Lend(e, c) ==
  /\ life[e] # "none"
  /\ holders[e] = {}
  /\ holders' = [holders EXCEPT ![e] = {c}]
  /\ UNCHANGED life

GiveBack(e, c) ==
  /\ holders[e] = {c}
  /\ holders' = [holders EXCEPT ![e] = {}]
  /\ UNCHANGED life

\* Engines are quit whether they are lent or not.
Quit(es) ==
  /\ \A e \in es : life[e] = "up"
  /\ life' = [e \in Engines |-> IF e \in es THEN "quit" ELSE life[e]]
  /\ UNCHANGED holders

LeaseNext ==
  \/ \E e \in Engines : Boot(e)
  \/ \E e \in Engines, c \in Callers : Lend(e, c) \/ GiveBack(e, c)
  \/ \E es \in SUBSET Engines : Quit(es)

LeaseSpec == LeaseInit /\ [][LeaseNext]_leaseVars
=============================================================================
