------------------------------ MODULE Episodes ------------------------------
(***************************************************************************)
(* Concurrent episodes of the value loop over one environment pool.        *)
(*                                                                         *)
(* run_lpm keeps a main environment for the whole episode.  Before every   *)
(* move, policy-centric planning opens a simulator only to read the state, *)
(* closes it, and then opens one environment per candidate move, all of    *)
(* them before the first is stepped.  Creates block until the pool has a   *)
(* slot: an episode holds environments while it waits for more.            *)
(*                                                                         *)
(* The pool is EnvPool, which EnvServer implements; creates are served in  *)
(* the order they were sent.  Abstracted: prompts, tokens and rewards, and *)
(* what the language model answers, which is any answer.                   *)
(***************************************************************************)
EXTENDS Naturals, Sequences, FiniteSets

CONSTANTS
  Eps,         \* episodes of one batch
  MaxTraj,     \* max_plan_traj_n: trajectories of a plan
  MaxHorizon,  \* max_plan_horizon: turns of a plan
  MaxSteps,    \* max_steps of an episode
  PoolSize,    \* slots of the server
  MaxFailures  \* calls that may raise, in a whole run

ASSUME EpisodesAssumption ==
  /\ IsFiniteSet(Eps)
  /\ MaxTraj \in Nat \ {0}
  /\ MaxHorizon \in Nat \ {0}
  /\ MaxSteps \in Nat
  /\ PoolSize \in Nat \ {0}
  /\ MaxFailures \in Nat

\* What an episode opens environments for: the game, one trajectory of the
\* plan each, and the simulator that reads the state.
Main == 0
Traj == 1 .. MaxTraj
Sim  == MaxTraj + 1
Roles == 0 .. MaxTraj + 1

\* Planning opens new environments at every step of the game.
EnvIds == Eps \X Roles \X (0 .. MaxSteps)

VARIABLES
  phase,     \* the life of each environment, on the server
  line,      \* creates waiting for a slot
  pc,        \* where each episode is
  target,    \* the environment it is creating or closing
  after,     \* where it goes once that is done
  step,      \* moves made in the game
  n,         \* expanded_traj_n: trajectories of the current plan
  turn,      \* plan_step
  cursor,    \* the trajectory being looked at
  ended,     \* group_simulation_done
  failures   \* calls that have raised

planVars == <<step, n, turn, cursor, ended>>
vars == <<phase, line, pc, target, after, planVars, failures>>

Pool == INSTANCE EnvPool WITH Envs <- EnvIds, up <- TRUE

PCs == {"idle", "create", "close", "round", "peek", "expand", "group", "turn",
        "cleanup", "act", "finish", "done", "failed"}

Env(ep, r) == <<ep, r, IF r = Main THEN 0 ELSE step[ep]>>

Init ==
  /\ phase = [e \in EnvIds |-> "none"]
  /\ line = <<>>
  /\ pc = [ep \in Eps |-> "idle"]
  /\ target = [ep \in Eps |-> <<ep, Main, 0>>]
  /\ after = [ep \in Eps |-> "idle"]
  /\ step = [ep \in Eps |-> 0]
  /\ n = [ep \in Eps |-> 0]
  /\ turn = [ep \in Eps |-> 1]
  /\ cursor = [ep \in Eps |-> 1]
  /\ ended = [ep \in Eps |-> {}]
  /\ failures = 0

-----------------------------------------------------------------------------
(* The pool, as the episodes see it.                                       *)

\* Send a create and wait for its answer.
Ask(ep, r, st) ==
  /\ pc' = [pc EXCEPT ![ep] = "create"]
  /\ target' = [target EXCEPT ![ep] = Env(ep, r)]
  /\ after' = [after EXCEPT ![ep] = st]
  /\ line' = Append(line, Env(ep, r))
  /\ UNCHANGED phase

\* Send a close and wait for its answer.
Close(ep, r, st) ==
  /\ pc' = [pc EXCEPT ![ep] = "close"]
  /\ target' = [target EXCEPT ![ep] = Env(ep, r)]
  /\ after' = [after EXCEPT ![ep] = st]
  /\ Pool!Retire(Env(ep, r))
  /\ UNCHANGED line

Goto(ep, st) ==
  /\ pc' = [pc EXCEPT ![ep] = st]
  /\ UNCHANGED <<phase, line, target, after>>

\* The slot of e is free again, or goes to the first create in line.
GiveBack(e) ==
  IF line # <<>>
    THEN Pool!HandOver(e, Head(line)) /\ line' = Tail(line)
    ELSE Pool!Release(e) /\ UNCHANGED line

Grant ==
  /\ line # <<>>
  /\ Pool!Grant(Head(line))
  /\ line' = Tail(line)
  /\ UNCHANGED <<pc, target, after, planVars, failures>>

Return(ep) ==
  /\ pc' = [pc EXCEPT ![ep] = after[ep]]
  /\ UNCHANGED <<target, after, planVars, failures>>

Created(ep) ==
  /\ pc[ep] = "create"
  /\ Pool!Ready(target[ep])
  /\ Return(ep)
  /\ UNCHANGED line

Closed(ep) ==
  /\ pc[ep] = "close"
  /\ phase[target[ep]] = "ending"
  /\ GiveBack(target[ep])
  /\ Return(ep)

-----------------------------------------------------------------------------
(* One episode.                                                            *)

\* build_env
Start(ep) ==
  /\ pc[ep] = "idle"
  /\ Ask(ep, Main, "round")
  /\ UNCHANGED <<planVars, failures>>

\* The simulator of this step of the game.
OpenSimulator(ep) ==
  /\ pc[ep] = "round"
  /\ Ask(ep, Sim, "peek")
  /\ UNCHANGED <<planVars, failures>>

\* [mutant] the simulator stays open while the plan is simulated.
KeepSimulator(ep) ==
  /\ pc[ep] = "peek"
  /\ Goto(ep, "expand")
  /\ UNCHANGED <<planVars, failures>>

CloseSimulator(ep) ==
  /\ pc[ep] = "peek"
  /\ Close(ep, Sim, "expand")
  /\ UNCHANGED <<planVars, failures>>

\* The model proposes k moves; each will get an environment of its own.
Expand(ep) ==
  /\ pc[ep] = "expand"
  /\ \E k \in 0 .. MaxTraj : n' = [n EXCEPT ![ep] = k]
  /\ cursor' = [cursor EXCEPT ![ep] = 1]
  /\ turn' = [turn EXCEPT ![ep] = 1]
  /\ ended' = [ended EXCEPT ![ep] = {}]
  /\ Goto(ep, IF n'[ep] = 0 THEN "cleanup" ELSE "group")
  /\ UNCHANGED <<step, failures>>

OpenGroup(ep) ==
  /\ pc[ep] = "group"
  /\ cursor[ep] <= n[ep]
  /\ cursor' = [cursor EXCEPT ![ep] = @ + 1]
  /\ Ask(ep, cursor[ep], "group")
  /\ UNCHANGED <<step, n, turn, ended, failures>>

GroupOpen(ep) ==
  /\ pc[ep] = "group"
  /\ cursor[ep] > n[ep]
  /\ cursor' = [cursor EXCEPT ![ep] = 1]
  /\ Goto(ep, "turn")
  /\ UNCHANGED <<step, n, turn, ended, failures>>

\* [mutant] a simulation whose environment is closed but that is not ended.
SimulateUnmarked(ep) ==
  /\ pc[ep] = "turn"
  /\ cursor[ep] <= n[ep]
  /\ cursor[ep] \notin ended[ep]
  /\ cursor' = [cursor EXCEPT ![ep] = @ + 1]
  /\ UNCHANGED <<step, n, turn, ended, failures>>
  /\ \/ Close(ep, cursor[ep], "turn")
     \/ turn[ep] < MaxHorizon /\ Goto(ep, "turn")

\* A move is played in simulation i; if it ends the game or is the last of
\* the horizon, the environment is closed at once.
Simulate(ep) ==
  /\ pc[ep] = "turn"
  /\ cursor[ep] <= n[ep]
  /\ cursor[ep] \notin ended[ep]
  /\ cursor' = [cursor EXCEPT ![ep] = @ + 1]
  /\ UNCHANGED <<step, n, turn, failures>>
  /\ \/ /\ ended' = [ended EXCEPT ![ep] = @ \cup {cursor[ep]}]
        /\ Close(ep, cursor[ep], "turn")
     \/ /\ turn[ep] < MaxHorizon
        /\ Goto(ep, "turn")
        /\ UNCHANGED ended

\* From the second turn on the model may name no valid move: the trajectory
\* ends, its environment stays open.
NoMove(ep) ==
  /\ pc[ep] = "turn"
  /\ turn[ep] > 1
  /\ cursor[ep] <= n[ep]
  /\ cursor[ep] \notin ended[ep]
  /\ cursor' = [cursor EXCEPT ![ep] = @ + 1]
  /\ ended' = [ended EXCEPT ![ep] = @ \cup {cursor[ep]}]
  /\ Goto(ep, "turn")
  /\ UNCHANGED <<step, n, turn, failures>>

SkipEnded(ep) ==
  /\ pc[ep] = "turn"
  /\ cursor[ep] <= n[ep]
  /\ cursor[ep] \in ended[ep]
  /\ cursor' = [cursor EXCEPT ![ep] = @ + 1]
  /\ Goto(ep, "turn")
  /\ UNCHANGED <<step, n, turn, ended, failures>>

\* [mutant] a turn that does not count.
EndTurnUncounted(ep) ==
  /\ pc[ep] = "turn"
  /\ cursor[ep] > n[ep]
  /\ cursor' = [cursor EXCEPT ![ep] = 1]
  /\ Goto(ep, IF turn[ep] > MaxHorizon \/ ended[ep] = 1 .. n[ep]
                THEN "cleanup" ELSE "turn")
  /\ UNCHANGED <<step, n, turn, ended, failures>>

EndTurn(ep) ==
  /\ pc[ep] = "turn"
  /\ cursor[ep] > n[ep]
  /\ cursor' = [cursor EXCEPT ![ep] = 1]
  /\ turn' = [turn EXCEPT ![ep] = @ + 1]
  /\ Goto(ep, IF turn'[ep] > MaxHorizon \/ ended[ep] = 1 .. n[ep]
                THEN "cleanup" ELSE "turn")
  /\ UNCHANGED <<step, n, ended, failures>>

\* [mutant] only the simulations that are not over are closed.
CleanUpOpenOnes(ep) ==
  /\ pc[ep] = "cleanup"
  /\ cursor[ep] <= n[ep]
  /\ cursor' = [cursor EXCEPT ![ep] = @ + 1]
  /\ IF cursor[ep] \notin ended[ep] THEN Close(ep, cursor[ep], "cleanup")
                                    ELSE Goto(ep, "cleanup")
  /\ UNCHANGED <<step, n, turn, ended, failures>>

\* Closing a client whose environment is closed already does nothing.
CleanUp(ep) ==
  /\ pc[ep] = "cleanup"
  /\ cursor[ep] <= n[ep]
  /\ cursor' = [cursor EXCEPT ![ep] = @ + 1]
  /\ IF phase[Env(ep, cursor[ep])] = "live"
       THEN Close(ep, cursor[ep], "cleanup")
       ELSE Goto(ep, "cleanup")
  /\ UNCHANGED <<step, n, turn, ended, failures>>

CleanedUp(ep) ==
  /\ pc[ep] = "cleanup"
  /\ cursor[ep] > n[ep]
  /\ Goto(ep, "act")
  /\ UNCHANGED <<planVars, failures>>

\* Without a valid action the episode is over ...
NoAction(ep) ==
  /\ pc[ep] = "act"
  /\ Goto(ep, "finish")
  /\ UNCHANGED <<planVars, failures>>

\* ... otherwise the move is played, until the game or the budget ends.
Act(ep) ==
  /\ pc[ep] = "act"
  /\ step' = [step EXCEPT ![ep] = @ + 1]
  /\ \/ Goto(ep, "finish")
     \/ step'[ep] <= MaxSteps /\ Goto(ep, "round")
  /\ UNCHANGED <<n, turn, cursor, ended, failures>>

Finish(ep) ==
  /\ pc[ep] = "finish"
  /\ Close(ep, Main, "done")
  /\ UNCHANGED <<planVars, failures>>

-----------------------------------------------------------------------------
(* Failures.  A call that raises (the create or another call timed out,    *)
(* the server answered an error, the game ended in a state nobody knows)   *)
(* leaves the coroutine of the episode: nothing in it closes what it has   *)
(* open.  The server goes on serving what it was asked.                    *)

Raise(ep) ==
  /\ failures < MaxFailures
  /\ pc[ep] \notin {"idle", "done", "failed"}
  /\ failures' = failures + 1
  /\ Goto(ep, "failed")
  /\ UNCHANGED planVars

\* The game does not start: the slot is free again, the create is answered
\* with an error.
CreateFails(ep) ==
  /\ failures < MaxFailures
  /\ pc[ep] = "create"
  /\ phase[target[ep]] = "starting"
  /\ GiveBack(target[ep])
  /\ failures' = failures + 1
  /\ pc' = [pc EXCEPT ![ep] = "failed"]
  /\ UNCHANGED <<target, after, planVars>>

\* The server finishes what a failed episode had asked for.
ServeFailed(ep) ==
  /\ pc[ep] = "failed"
  /\ \/ Pool!Ready(target[ep]) /\ UNCHANGED line
     \/ phase[target[ep]] = "ending" /\ GiveBack(target[ep])
  /\ UNCHANGED <<pc, target, after, planVars, failures>>

-----------------------------------------------------------------------------
EpisodeStep(ep) ==
  \/ Start(ep) \/ Created(ep) \/ Closed(ep)
  \/ OpenSimulator(ep) \/ CloseSimulator(ep) \/ Expand(ep)
  \/ OpenGroup(ep) \/ GroupOpen(ep)
  \/ Simulate(ep) \/ NoMove(ep) \/ SkipEnded(ep) \/ EndTurn(ep)
  \/ CleanUp(ep) \/ CleanedUp(ep)
  \/ NoAction(ep) \/ Act(ep) \/ Finish(ep)

Failure(ep) == Raise(ep) \/ CreateFails(ep) \/ ServeFailed(ep)

Next ==
  \/ Grant
  \/ \E ep \in Eps : EpisodeStep(ep) \/ Failure(ep)

Spec == Init /\ [][Next]_vars

\* The server serves, the language model answers and the event loop runs
\* every coroutine that can go on.
Fairness == WF_vars(Grant) /\ \A ep \in Eps : WF_vars(EpisodeStep(ep))

FairSpec == Spec /\ Fairness

-----------------------------------------------------------------------------
TypeOK ==
  /\ phase \in [EnvIds -> Pool!Phases]
  /\ line \in Seq(EnvIds)
  /\ pc \in [Eps -> PCs]
  /\ target \in [Eps -> EnvIds]
  /\ after \in [Eps -> PCs]
  /\ step \in [Eps -> 0 .. MaxSteps + 1]
  /\ n \in [Eps -> 0 .. MaxTraj]
  /\ turn \in [Eps -> 1 .. MaxHorizon + 1]
  /\ cursor \in [Eps -> 1 .. MaxTraj + 1]
  /\ ended \in [Eps -> SUBSET Traj]
  /\ failures \in 0 .. MaxFailures

HeldBy(ep) == {e \in Pool!Held : e[1] = ep}

\* An episode that ran to its end has returned every environment it ever
\* opened: simulators, trajectories that won, lost, ran out of horizon or of
\* valid moves, and its own game.
DoneHoldsNothing == \A ep \in Eps : pc[ep] = "done" => HeldBy(ep) = {}

\* The next move of a plan goes to an environment the server still has.
SimulatesOpenEnvs ==
  \A ep \in Eps : pc[ep] = "turn" =>
    \A i \in 1 .. n[ep] : i \notin ended[ep] => phase[Env(ep, i)] = "live"

InLine(ep) == pc[ep] = "create" /\ phase[target[ep]] = "none"

\* Episodes that hold environments never all wait for each other's: with room
\* for MaxTraj environments of each episode, one more for each that failed and
\* one more, some create can be granted or some episode that is not in line
\* goes on.
NoCircularWait ==
  Cardinality(Eps) * MaxTraj + Cardinality({ep \in Eps : pc[ep] = "failed"}) < PoolSize
    /\ (\E ep \in Eps : InLine(ep))
  => \/ Cardinality(Pool!Held) < PoolSize
     \/ \E ep \in Eps : pc[ep] \notin {"idle", "done", "failed"} /\ ~InLine(ep)

\* As long as no call raises every episode that was started ends, so every
\* create it sent was served.
EpisodesEnd == \A ep \in Eps : pc[ep] # "idle" ~> (pc[ep] = "done" \/ failures > 0)

\* An episode left by an exception returns its environments, too.
FailedReturnAll == \A ep \in Eps : pc[ep] = "failed" ~> HeldBy(ep) = {}

\* It never does: an environment that was open when its episode failed is
\* open ever after.
LeaksStay ==
  [][\A ep \in Eps : pc[ep] = "failed" =>
       /\ pc'[ep] = "failed"
       /\ \A e \in EnvIds : e[1] = ep /\ phase[e] = "live" => phase'[e] = "live"]_vars

\* All that episodes ever do to environments is what the pool offers.
UsesPool == Pool!PoolSpec

-----------------------------------------------------------------------------
(* The inductive invariant behind the theorems of EpisodesProofs.          *)

\* The stage an episode is in, or waits to get to.
Stage(x) == IF pc[x] \in {"create", "close"} THEN after[x] ELSE pc[x]

\* The roles whose environments it may hold there, besides the one it is
\* closing ...
Keeps(x) ==
  IF Stage(x) \in {"idle", "done"} THEN {}
  ELSE IF Stage(x) = "peek" THEN {Main, Sim}
  ELSE IF Stage(x) = "group" THEN 0 .. cursor[x] - 1
  ELSE IF Stage(x) = "turn" THEN 0 .. n[x]
  ELSE IF Stage(x) = "cleanup" THEN {Main} \cup (cursor[x] .. n[x])
  ELSE {Main}

\* ... the ones whose environments have no life yet at this step ...
Unopened(x) ==
  IF Stage(x) \in {"idle", "round"} THEN Roles \ {Main}
  ELSE IF Stage(x) \in {"peek", "expand"} THEN Traj
  ELSE IF Stage(x) = "group" THEN cursor[x] .. MaxTraj
  ELSE {}

\* ... and the trajectories whose environments are open.
Opened(x) ==
  IF Stage(x) = "group"
    THEN 1 .. (IF pc[x] = "create" THEN cursor[x] - 2 ELSE cursor[x] - 1)
  ELSE IF Stage(x) = "turn" THEN (1 .. n[x]) \ ended[x]
  ELSE {}

\* The role of the environment it waits for.
Awaited(x) ==
  IF after[x] \in {"round", "done"} THEN Main
  ELSE IF after[x] \in {"peek", "expand"} THEN Sim
  ELSE cursor[x] - 1

BoundsOK(x) ==
  /\ Stage(x) \notin {"finish", "done", "failed"} => step[x] <= MaxSteps
  /\ Stage(x) \in {"group", "turn"} => turn[x] <= MaxHorizon
  /\ Stage(x) \in {"group", "cleanup"} => cursor[x] <= n[x] + 1

WaitOK(x) ==
  /\ target[x][1] = x /\ target[x][3] <= step[x]
  /\ pc[x] = "create" => after[x] \in {"round", "peek", "group"}
  /\ pc[x] = "close" => after[x] \in {"expand", "turn", "cleanup", "done"}
  /\ pc[x] \in {"create", "close"} =>
       /\ target[x] = Env(x, Awaited(x))
       /\ after[x] \in {"group", "turn", "cleanup"} => cursor[x] \in 2 .. n[x] + 1

HoldsOK(x) ==
  pc[x] # "failed" =>
    \A e \in HeldBy(x) :
      \/ \E r \in Keeps(x) : e = Env(x, r)
      \/ pc[x] = "close" /\ e = target[x]

FreshOK(x) ==
  /\ \A r \in Roles \ {Main}, k \in 0 .. MaxSteps :
       k > step[x] \/ (k = step[x] /\ r \in Unopened(x))
         => phase[<<x, r, k>>] = "none"
  /\ pc[x] = "idle" => phase[<<x, Main, 0>>] = "none"

LiveOK(x) == \A i \in Opened(x) : phase[Env(x, i)] = "live"

\* Only what it waits for is between two lives.
BetweenOK(x) ==
  \A e \in EnvIds : e[1] = x /\ phase[e] \in {"starting", "ending"} =>
    /\ target[x] = e
    /\ pc[x] \in {"failed", IF phase[e] = "starting" THEN "create" ELSE "close"}

EpisodeOK(x) ==
  BoundsOK(x) /\ WaitOK(x) /\ HoldsOK(x) /\ FreshOK(x) /\ LiveOK(x) /\ BetweenOK(x)

\* The line holds distinct environments without a life, each the one its
\* episode waits for, or waited for when it failed.
LineOK ==
  /\ \A i \in 1 .. Len(line) :
       /\ phase[line[i]] = "none"
       /\ target[line[i][1]] = line[i]
       /\ pc[line[i][1]] \in {"create", "failed"}
  /\ \A i, j \in 1 .. Len(line) : line[i] = line[j] => i = j

\* What it leaves behind is its game with either the simulator or trajectories.
FailedOK(x) ==
  pc[x] = "failed" =>
    \E R \in {{Main, Sim}, 0 .. MaxTraj} :
      \A e \in EnvIds : e[1] = x /\ (e \in Pool!Held \/ \E i \in 1 .. Len(line) : line[i] = e)
        => \E r \in R : e = Env(x, r)

IInv == TypeOK /\ LineOK /\ \A x \in Eps : EpisodeOK(x)
=============================================================================
