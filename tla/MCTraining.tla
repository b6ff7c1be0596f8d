----------------------------- MODULE MCTraining -----------------------------
(* Small instances of the training loop with its crashes, of the way of a  *)
(* batch through one of its steps, and of the division of rows the latter  *)
(* takes for granted.  They share no state: side, which never changes,     *)
(* says which of them a behaviour is of.                                   *)
EXTENDS MCTrainer, Balancing, BatchFlow

Call(len, k, equal) == [len |-> len, k |-> k, equal |-> equal]

(* Every batch of three or four rows of three lengths, and some of six.    *)
SmallCalls ==
  {c \in [len : UNION {[1 .. n -> {1, 2, 5}] : n \in {3, 4}}, k : {2, 3}, equal : BOOLEAN] :
     c.equal => Len(c.len) % c.k = 0}
  \cup {Call(<<5, 5, 4, 3, 3, 1>>, k, equal) : k \in {2, 3}, equal \in BOOLEAN}
  \cup {Call(<<1, 7, 1, 2, 2, 9>>, k, equal) : k \in {2, 3}, equal \in BOOLEAN}

Flow(prompts, n, workers, devices, parallel, balance, async, dynamic, len) ==
  [prompts |-> prompts, n |-> n, workers |-> workers, devices |-> devices, parallel |-> parallel,
   balance |-> balance, async |-> async, dynamic |-> dynamic, limit |-> 4, logprobMicro |-> 2,
   micro |-> 1, mini |-> 2, epochs |-> 2, len |-> len]

(* Two or three devices, groups of two or three, mini-batches of which the *)
(* last is short, one or several micro-batches.                            *)
SmallFlows ==
  {Flow(3, 2, 3, 2, TRUE, TRUE, TRUE, TRUE, <<1, 1, 4, 2, 1, 3>>),
   Flow(2, 2, 2, 2, FALSE, TRUE, FALSE, TRUE, <<4, 1, 2, 1>>),
   Flow(2, 3, 2, 2, TRUE, TRUE, FALSE, FALSE, <<1, 2, 3, 4, 1, 2>>),
   Flow(2, 3, 2, 3, TRUE, FALSE, TRUE, TRUE, <<1, 1, 3, 4, 1, 4>>)}

VARIABLE side

trainingVars == <<side, vars, balanceVars, flowVars>>

Only(name, first) == side = name \/ first

MCInit ==
  /\ side \in {"job", "balancing", "batch"}
  /\ Init
  /\ BalanceInit /\ Only("balancing", call = Call(<<1, 2, 5>>, 3, FALSE))
  /\ FlowInit /\ Only("batch", flow = CHOOSE f \in Flows : TRUE)

JobStep == side = "job" /\ Next /\ UNCHANGED <<side, balanceVars, flowVars>>
BalancingStep == side = "balancing" /\ BalanceNext /\ UNCHANGED <<side, vars, flowVars>>
BatchStep == side = "batch" /\ FlowNext /\ UNCHANGED <<side, vars, balanceVars>>

MCNext == JobStep \/ BalancingStep \/ BatchStep

MCSpec == MCInit /\ [][MCNext]_trainingVars
=============================================================================
