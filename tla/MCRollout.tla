----------------------------- MODULE MCRollout ------------------------------
(* Small instances of what serves one rollout: the token streams of each   *)
(* loop, the engine pool, the rate limiter and the choice of a server.     *)
(* They share no state, so a behaviour is one of one of them: part, which  *)
(* never changes, says of which, and the others stay where they start.     *)
EXTENDS MCTokenStreams, MCInferLoops, LocalPlanner, PolicyStreams, StockfishPool,
        RateLimiter, ServerChoice

CONSTANTS
  c1, c2, c3, c4,  \* callers of the engine pool, or conversations
  p1, p2           \* processes that share the limiter

PlanConfig(trajs, horizon, early, randomPlan, randomAct, readjust, steps, length) ==
  [trajs |-> trajs, horizon |-> horizon, early |-> early, randomPlan |-> randomPlan,
   randomAct |-> randomAct, readjust |-> readjust, steps |-> steps, length |-> length]

(* Two trajectories of two moves, three of one, and two plans in a row.    *)
SmallPlans ==
  {PlanConfig(2, 2, FALSE, FALSE, TRUE, TRUE, 0, 60),
   PlanConfig(2, 2, FALSE, TRUE, FALSE, FALSE, 0, 60),
   PlanConfig(2, 1, TRUE, FALSE, TRUE, TRUE, 1, 20),
   PlanConfig(3, 1, FALSE, FALSE, FALSE, FALSE, 0, 60)}

PolicyConfig(trajs, horizon, turn2, readjust, steps, length) ==
  [trajs |-> trajs, horizon |-> horizon, turn2 |-> turn2, readjust |-> readjust,
   steps |-> steps, length |-> length]

(* Two trajectories over two turns, with and without the later turn in the *)
(* response, a long one that is cut, three at once.                        *)
SmallPolicies ==
  {PolicyConfig(2, 2, TRUE, FALSE, 1, 60), PolicyConfig(2, 2, FALSE, TRUE, 0, 60),
   PolicyConfig(1, 3, TRUE, TRUE, 0, 9), PolicyConfig(3, 2, TRUE, FALSE, 0, 60)}

VARIABLE part

streamVars == <<config, pc, step, turn, running, todo, plan, out, granted, output>>

rolloutVars == <<part, streamVars, inferVars, planVars, policyVars, engineVars, limiterVars, serverVars>>

Only(name, first) == part = name \/ first

MCInit ==
  /\ part \in {"streams", "infer", "planner", "policy", "engines", "limiter", "servers"}
  /\ Init /\ Only("streams", config = CHOOSE c \in Configs : TRUE)
  /\ InferInit /\ Only("infer", game = CHOOSE g \in InferConfigs : TRUE)
  /\ PlanInit /\ Only("planner", setup = CHOOSE s \in PlanConfigs : TRUE)
  /\ PolicyInit /\ Only("policy", policy = CHOOSE p \in PolicyConfigs : TRUE)
  /\ EnginesInit /\ LimiterInit /\ ServerInit

StreamsStep ==
  /\ part = "streams" /\ Next
  /\ UNCHANGED <<part, inferVars, planVars, policyVars, engineVars, limiterVars, serverVars>>

InferStep ==
  /\ part = "infer" /\ InferNext
  /\ UNCHANGED <<part, streamVars, planVars, policyVars, engineVars, limiterVars, serverVars>>

PlanningStep ==
  /\ part = "planner" /\ PlanNext
  /\ UNCHANGED <<part, streamVars, inferVars, policyVars, engineVars, limiterVars, serverVars>>

PolicyStep ==
  /\ part = "policy" /\ PolicyNext
  /\ UNCHANGED <<part, streamVars, inferVars, planVars, engineVars, limiterVars, serverVars>>

EnginesStep ==
  /\ part = "engines" /\ EnginesNext
  /\ UNCHANGED <<part, streamVars, inferVars, planVars, policyVars, limiterVars, serverVars>>

LimiterStep ==
  /\ part = "limiter" /\ LimiterNext
  /\ UNCHANGED <<part, streamVars, inferVars, planVars, policyVars, engineVars, serverVars>>

ServerStep ==
  /\ part = "servers" /\ ServerNext
  /\ UNCHANGED <<part, streamVars, inferVars, planVars, policyVars, engineVars, limiterVars>>

MCNext ==
  \/ StreamsStep \/ InferStep \/ PlanningStep \/ PolicyStep
  \/ EnginesStep \/ LimiterStep \/ ServerStep

MCSpec == MCInit /\ [][MCNext]_rolloutVars /\ EnginesFairness
=============================================================================
