------------------------------- MODULE EnvPool -------------------------------
(***************************************************************************)
(* What the environment server promises its callers, with no workers and   *)
(* no queues: a pool of environments, at most PoolSize of which hold a     *)
(* slot at any time.  EnvServer implements it; the episodes of the agent   *)
(* loop are composed over it.                                              *)
(***************************************************************************)
EXTENDS Naturals, FiniteSets

CONSTANTS
  Envs,     \* environments that may ever be created
  PoolSize  \* slots of the pool

VARIABLES
  phase,  \* the life of each environment
  up      \* the server has not been shut down

poolVars == <<phase, up>>

Phases == {"none", "starting", "live", "ending", "gone"}

EnvsIn(ph) == {e \in Envs : phase[e] \in ph}
Held == EnvsIn({"starting", "live", "ending"})

PoolInit ==
  /\ phase = [e \in Envs |-> "none"]
  /\ up = TRUE

\* A create gets a slot.
Grant(e) ==
  /\ up
  /\ phase[e] = "none"
  /\ Cardinality(Held) < PoolSize
  /\ phase' = [phase EXCEPT ![e] = "starting"]
  /\ up' = up

Ready(e) ==
  /\ up
  /\ phase[e] = "starting"
  /\ phase' = [phase EXCEPT ![e] = "live"]
  /\ up' = up

\* A close takes a live environment; it keeps its slot until the game is down.
Retire(e) ==
  /\ up
  /\ phase[e] = "live"
  /\ phase' = [phase EXCEPT ![e] = "ending"]
  /\ up' = up

\* The slot of a failed create or of a finished close becomes free ...
Release(e) ==
  /\ up
  /\ phase[e] \in {"starting", "ending"}
  /\ phase' = [phase EXCEPT ![e] = "gone"]
  /\ up' = up

\* ... or goes straight to a create that was waiting for one.
HandOver(e, f) ==
  /\ up
  /\ phase[e] \in {"starting", "ending"}
  /\ phase[f] = "none"
  /\ phase' = [phase EXCEPT ![e] = "gone", ![f] = "starting"]
  /\ up' = up

Shutdown ==
  /\ up
  /\ up' = FALSE
  /\ phase' = [e \in Envs |-> IF phase[e] = "none" THEN "none" ELSE "gone"]

PoolNext ==
  \/ \E e \in Envs : Grant(e) \/ Ready(e) \/ Retire(e) \/ Release(e)
  \/ \E e, f \in Envs : HandOver(e, f)
  \/ Shutdown

PoolSpec == PoolInit /\ [][PoolNext]_poolVars
=============================================================================
