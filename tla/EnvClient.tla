----------------------------- MODULE EnvClient -----------------------------
(***************************************************************************)
(* The HTTP clients of one episode and the environment server.             *)
(*                                                                         *)
(* An episode drives its game and the simulators of its plans through one  *)
(* AsyncScienceWorldEnvClient each and awaits every call, so one call is   *)
(* under way at a time.  _request sends it again when the connection is    *)
(* refused or breaks, but nothing identifies a call: what an attempt did   *)
(* on the server before its connection broke stays done, and an attempt    *)
(* still queued there is served later, after other calls.                  *)
(*                                                                         *)
(* Abstracted: a game is the number of moves made in it since it started;  *)
(* the server is a pool of such games, served one request at a time.       *)
(***************************************************************************)
EXTENDS Naturals, FiniteSets, SequencesExt

CONSTANTS
  Game,        \* the client of the episode's own game
  Sims,        \* the clients of its simulators
  MaxRetries,  \* attempts _request makes
  PoolSize,    \* slots of the server
  Faults,      \* what may happen to an attempt: "refuse", "break", "timeout"
  MaxMoves,    \* bound: moves the episode makes in one game
  MaxBreaks    \* bound: connections that break in a run

ASSUME EnvClientAssumption ==
  /\ Game \notin Sims /\ IsFiniteSet(Sims)
  /\ MaxRetries \in Nat \ {0}
  /\ PoolSize \in Nat \ {0}
  /\ Faults \subseteq {"refuse", "break", "timeout"}
  /\ MaxMoves \in Nat /\ MaxBreaks \in Nat

Clients == {Game} \cup Sims
None == 0
Ids == 1 .. MaxRetries * Cardinality(Clients)

VARIABLES
  open,       \* environments on the server
  moves,      \* moves made in each of them since its game started
  issued,     \* environments created so far
  stage,      \* where each client is in its life
  envId,      \* env_id of each client
  history,    \* length of full_action_history of each client
  played,     \* (auxiliary) moves each game should have had
  call,       \* the call under way, with its attempt
  wait,       \* what the caller waits for
  answer,     \* the server's answer to this attempt
  abandoned,  \* requests on the server nobody waits for any more
  lost,       \* (auxiliary) attempts that broke or timed out
  lostSteps,  \* (auxiliary) those that were steps of each client
  lostResets  \* (auxiliary) clients that lost a reset or reset_state

server == <<open, moves, issued>>
client == <<stage, envId, history, played>>
losses == <<lost, lostSteps, lostResets>>
vars == <<server, client, call, wait, answer, abandoned, losses>>

Ops == {"create", "reset", "reset_state", "step", "close"}
NoAnswer == [kind |-> "none", id |-> None]

Init ==
  /\ open = {} /\ issued = 0
  /\ moves = [i \in Ids |-> 0]
  /\ stage = [c \in Clients |-> "new"]
  /\ envId = [c \in Clients |-> None]
  /\ history = [c \in Clients |-> 0]
  /\ played = [c \in Clients |-> 0]
  /\ call = [of |-> Game, op |-> "create", arg |-> 0, attempt |-> 1]
  /\ wait = "idle" /\ answer = NoAnswer
  /\ abandoned = <<>> /\ lost = 0
  /\ lostSteps = [c \in Clients |-> 0] /\ lostResets = {}

Raised == \E c \in Clients : stage[c] = "raised"

-----------------------------------------------------------------------------
(* The server.                                                             *)

\* [mutant] a close that leaves the environment in the table.
ServeCloseKept(req, ans) ==
  \/ /\ req.op = "create"
     /\ Cardinality(open) < PoolSize
     /\ issued' = issued + 1
     /\ open' = open \cup {issued'}
     /\ ans = [kind |-> "ok", id |-> issued']
     /\ UNCHANGED moves
  \/ /\ req.op # "create" /\ req.env \in open
     /\ ans = [kind |-> "ok", id |-> req.env]
     /\ UNCHANGED server

\* What a request does; a create is served when there is a free slot.
Serve(req, ans) ==
  \/ /\ req.op = "create"
     /\ Cardinality(open) < PoolSize
     /\ issued' = issued + 1
     /\ open' = open \cup {issued'}
     /\ ans = [kind |-> "ok", id |-> issued']
     /\ UNCHANGED moves
  \/ /\ req.op # "create"
     /\ req.env \in open
     /\ ans = [kind |-> "ok", id |-> req.env]
     /\ open' = IF req.op = "close" THEN open \ {req.env} ELSE open
     /\ moves' = IF req.op = "step" THEN [moves EXCEPT ![req.env] = @ + 1]
                 ELSE IF req.op = "reset" THEN [moves EXCEPT ![req.env] = 0]
                 ELSE IF req.op = "reset_state" THEN [moves EXCEPT ![req.env] = req.arg]
                 ELSE moves
     /\ UNCHANGED issued
  \/ /\ req.op # "create"
     /\ req.env \notin open
     /\ ans = [kind |-> "missing", id |-> None]
     /\ UNCHANGED server

Request == [op |-> call.op, env |-> envId[call.of], arg |-> call.arg]

ServeCall ==
  /\ wait = "answer" /\ answer = NoAnswer
  /\ \E ans \in [kind : {"ok", "missing"}, id : Ids \cup {None}] :
       Serve(Request, ans) /\ answer' = ans
  /\ UNCHANGED <<client, call, wait, abandoned, losses>>

\* Several workers serve what was left behind, in any order.
ServeAbandoned ==
  \E i \in DOMAIN abandoned :
    /\ \E ans \in [kind : {"ok", "missing"}, id : Ids \cup {None}] :
         Serve(abandoned[i], ans)
    /\ abandoned' = RemoveAt(abandoned, i)
    /\ UNCHANGED <<client, call, wait, answer, losses>>

-----------------------------------------------------------------------------
(* The client.                                                             *)

Closed(c) == stage[c] \in {"new", "closed"}

\* The calls of the value loop: connect and reset its game; connect and
\* reset_state simulators to it; step and close them; step and close the game.
MayCall(c, op) ==
  \/ op = "create" /\ stage[c] = "new" /\ (c = Game \/ stage[Game] = "ready")
  \/ op = "reset" /\ c = Game /\ stage[c] = "created"
  \/ op = "reset_state" /\ c # Game /\ stage[c] = "created"
  \/ /\ op \in {"step", "close"}
     /\ stage[c] = "ready"
     /\ c = Game => \A s \in Sims : Closed(s)
     /\ op = "step" => played[c] < MaxMoves

Begin(c, op) ==
  /\ wait = "idle" /\ ~Raised
  /\ MayCall(c, op)
  /\ call' = [of |-> c, op |-> op, attempt |-> 1,
              arg |-> IF op = "reset_state" THEN history[Game] ELSE 0]
  /\ wait' = "send"
  /\ UNCHANGED <<server, client, answer, abandoned, losses>>

Send ==
  /\ wait = "send"
  /\ wait' = "answer"
  /\ UNCHANGED <<server, client, call, answer, abandoned, losses>>

\* An exception leaves the call, and with it the episode; close forgets the
\* environment all the same.
RaiseCall ==
  /\ stage' = [stage EXCEPT ![call.of] = "raised"]
  /\ envId' = [envId EXCEPT ![call.of] = IF call.op = "close" THEN None ELSE @]
  /\ wait' = "idle" /\ answer' = NoAnswer
  /\ UNCHANGED <<history, played, call>>

TryAgain ==
  IF call.attempt < MaxRetries
    THEN /\ call' = [call EXCEPT !.attempt = @ + 1]
         /\ wait' = "send" /\ answer' = NoAnswer
         /\ UNCHANGED client
    ELSE RaiseCall

\* [mutant] a client that does not forget an environment it has closed.
ReceiveKeepingId ==
  /\ wait = "answer" /\ answer.kind = "ok"
  /\ wait' = "idle" /\ answer' = NoAnswer
  /\ stage' = [stage EXCEPT ![call.of] = IF call.op = "create" THEN "created" ELSE "ready"]
  /\ envId' = [envId EXCEPT ![call.of] = answer.id]
  /\ history' = [history EXCEPT ![call.of] = IF call.op = "step" THEN @ ELSE 0]
  /\ played' = [played EXCEPT ![call.of] = IF call.op = "step" THEN @ + 1 ELSE call.arg]
  /\ UNCHANGED <<server, call, abandoned, losses>>

\* reset and reset_state empty the client's copy of the history; step does
\* not add to it.
Receive ==
  /\ wait = "answer" /\ answer.kind = "ok"
  /\ wait' = "idle" /\ answer' = NoAnswer
  /\ stage' = [stage EXCEPT ![call.of] =
       IF call.op = "create" THEN "created" ELSE IF call.op = "close" THEN "closed" ELSE "ready"]
  /\ envId' = [envId EXCEPT ![call.of] = IF call.op = "close" THEN None ELSE answer.id]
  /\ history' = [history EXCEPT ![call.of] =
       IF call.op \in {"reset", "reset_state"} THEN 0 ELSE @]
  /\ played' = [played EXCEPT ![call.of] =
       IF call.op = "step" THEN @ + 1 ELSE call.arg]
  /\ UNCHANGED <<server, call, abandoned, losses>>

\* The server answers with an error.
ReceiveError ==
  /\ wait = "answer" /\ answer.kind = "missing"
  /\ RaiseCall
  /\ UNCHANGED <<server, abandoned, losses>>

\* [mutant] an attempt is given up as refused although it was sent.
RefuseSent ==
  /\ "refuse" \in Faults
  /\ wait = "send"
  /\ TryAgain
  /\ abandoned' = Append(abandoned, Request)
  /\ UNCHANGED <<server, losses>>

\* httpx.ConnectError: the request never got to the server.
Refuse ==
  /\ "refuse" \in Faults
  /\ wait = "send"
  /\ TryAgain
  /\ UNCHANGED <<server, abandoned, losses>>

LeaveBehind ==
  /\ abandoned' = IF answer = NoAnswer THEN Append(abandoned, Request) ELSE abandoned
  /\ lost' = lost + 1
  /\ lostSteps' = IF call.op = "step" THEN [lostSteps EXCEPT ![call.of] = @ + 1] ELSE lostSteps
  /\ lostResets' = IF call.op \in {"reset", "reset_state"} THEN lostResets \cup {call.of}
                   ELSE lostResets

\* httpx.ReadError: the request may have been served, or may still be.
Break ==
  /\ "break" \in Faults /\ lost < MaxBreaks
  /\ wait = "answer"
  /\ LeaveBehind
  /\ TryAgain
  /\ UNCHANGED server

\* [mutant] a timeout is one more transient error, and never the last.
TimeoutRetried ==
  /\ "timeout" \in Faults
  /\ wait = "answer" /\ answer = NoAnswer
  /\ wait' = "send"
  /\ UNCHANGED <<server, client, call, answer, abandoned, losses>>

\* httpx.ReadTimeout is not retried.
Timeout ==
  /\ "timeout" \in Faults
  /\ wait = "answer" /\ answer = NoAnswer
  /\ LeaveBehind
  /\ RaiseCall
  /\ UNCHANGED server

-----------------------------------------------------------------------------
Next ==
  \/ \E c \in Clients, op \in Ops : Begin(c, op)
  \/ Send \/ Receive \/ ReceiveError
  \/ Refuse \/ Break \/ Timeout
  \/ ServeCall \/ ServeAbandoned

Spec == Init /\ [][Next]_vars

\* The server serves what it can, the client goes on, a timeout that is not
\* overtaken by an answer expires.
Fairness ==
  /\ WF_vars(Send) /\ WF_vars(Receive) /\ WF_vars(ReceiveError)
  /\ WF_vars(ServeCall) /\ WF_vars(Timeout)

FairSpec == Spec /\ Fairness

-----------------------------------------------------------------------------
TypeOK ==
  /\ open \subseteq Ids /\ issued \in Ids \cup {0}
  /\ moves \in [Ids -> Nat]
  /\ stage \in [Clients -> {"new", "created", "ready", "closed", "raised"}]
  /\ envId \in [Clients -> Ids \cup {None}]
  /\ history \in [Clients -> Nat] /\ played \in [Clients -> Nat]
  /\ call \in [of : Clients, op : Ops, arg : Nat, attempt : 1 .. MaxRetries]
  /\ wait \in {"idle", "send", "answer"}
  /\ answer \in [kind : {"none", "ok", "missing"}, id : Ids \cup {None}]
  /\ abandoned \in Seq([op : Ops, env : Ids \cup {None}, arg : Nat])
  /\ lost \in Nat
  /\ lostSteps \in [Clients -> Nat] /\ lostResets \subseteq Clients

Known == {envId[c] : c \in Clients}

\* Between two calls, a game has had every move its client made, and at most
\* one more for each of its own steps that was lost: a refused attempt leaves no
\* trace, one that was sent again or comes late counts twice at most, and
\* moves only disappear where a reset comes late.
GameInStep ==
  wait = "idle" /\ ~Raised =>
    \A c \in Clients : stage[c] = "ready" =>
      /\ moves[envId[c]] <= played[c] + lostSteps[c]
      /\ c \notin lostResets => moves[envId[c]] >= played[c]

\* An environment nobody can close any more was paid for by an attempt whose
\* connection broke or that timed out, or by a close that raised.
OrphansPaid ==
  Cardinality(open \ (Known \cup {answer.id})) <= lost + (IF Raised THEN 1 ELSE 0)

\* "Not found" is only ever answered to a close that was sent before.
MissingOnlyWhenClosingAgain ==
  answer.kind = "missing" => call.op = "close" /\ call.attempt > 1

\* A simulator starts at the position of the game it was opened for.
SimulatorsStartAtGame ==
  [][\A s \in Sims : stage[s] = "created" /\ stage'[s] = "ready"
       => moves'[envId'[s]] = moves'[envId'[Game]]]_vars

\* It starts where every game starts, wherever its game is.
SimulatorsStartAgain ==
  [][\A s \in Sims : stage[s] = "created" /\ stage'[s] = "ready" =>
       /\ moves'[envId'[s]] = 0
       /\ moves'[envId'[Game]] <= played[Game] + lostSteps[Game]
       /\ Game \notin lostResets => moves'[envId'[Game]] >= played[Game]]_vars

\* Every call returns or raises.
CallsReturn == wait # "idle" ~> wait = "idle"
=============================================================================
