---------------------------- MODULE LocalPlanner ----------------------------
(***************************************************************************)
(* The local planning loop.  For every move of the game the planner tries  *)
(* trajectories in a simulator, by talking to the model about them, until  *)
(* the model or the budget ends it; then a summary names the move.         *)
(*                                                                         *)
(* The planner keeps its conversation twice, as messages and as tokens     *)
(* with mask and rewards, and appends to the two at different times.  The  *)
(* environment is the puzzle one: it alone has the coroutines that the     *)
(* loop awaits.                                                            *)
(*                                                                         *)
(* A text is one token; a message has one more for its role.  All state    *)
(* belongs to one coroutine: an action is an inference with what follows.  *)
(* Left out are the bonus for a move Stockfish would make, the scales of   *)
(* rewards and whether the summary is asked for in a prompt of its own,    *)
(* which changes nothing that is recorded.                                 *)
(***************************************************************************)
EXTENDS Integers, Sequences, SequencesExt, TokenLists

CONSTANTS
  PlanConfigs, \* the configurations an episode may be run with
  GameRewards  \* what a game may come to (a bound)

(* early: early_stop_answer; randomPlan, randomAct:                        *)
(* random_move_when_invalid_plan and _act; readjust:                       *)
(* final_reward_readjustment; steps: max_steps; length: response_length.   *)
PlanConfigType ==
  [trajs : Nat \ {0}, horizon : Nat \ {0}, early : BOOLEAN, randomPlan : BOOLEAN,
   randomAct : BOOLEAN, readjust : BOOLEAN, steps : Nat, length : Nat \ {0}]

ASSUME PlanAssumption ==
  /\ PlanConfigs \subseteq PlanConfigType
  /\ GameRewards \subseteq Int

Fine == 1 \* plan_action_format_penality and act_action_format_penality

VARIABLES
  setup,     \* the configuration of this episode
  at,        \* what the coroutine does next
  played,    \* step
  planTurn,  \* plan_turn: which trajectory
  planStep,  \* plan_step: which move of it
  sim,       \* the simulator: moves from the root, and whether its game ended
  talk,      \* plan_message, plan_ids, plan_response_mask, plan_reward_lst
  decision,  \* whether the planner names a move, and a legal one
  whole,     \* prompt_ids, response_mask, reward_lst
  paid,      \* the sum of the rewards given so far
  result     \* AgentLoopOutput after padding; <<>> before the loop returns

planVars == <<setup, at, played, planTurn, planStep, sim, talk, decision,
              whole, paid, result>>

PhraseAt(what, turn, move) == [what |-> what, step |-> played, turn |-> turn, move |-> move]

Phrase(what) == PhraseAt(what, planTurn, planStep)

RoleToken(role) == [what |-> role, step |-> 0, turn |-> 0, move |-> 0]

Generate == <<RoleToken("assistant")>>

Template(message) == <<RoleToken(message.role)>> \o message.texts

\* A text for the model joins what it is about to be told.
AddUser(said, text) ==
  IF Last(said).role = "user"
    THEN [said EXCEPT ![Len(said)].texts = Append(@, text)]
    ELSE Append(said, [role |-> "user", texts |-> <<text>>])

\* Tokens that the model did not write.
Unmasked(lists, text) ==
  [lists EXCEPT !.ids = @ \o text, !.mask = @ \o Zeros(Len(text)),
                !.rewards = @ \o Zeros(Len(text))]

-----------------------------------------------------------------------------
(* The planner.                                                            *)

Fresh == [moved |-> 0, end |-> "no"]

FirstWords == <<[role |-> "system", texts |-> <<PhraseAt("instruction", 1, 1)>>],
                [role |-> "user", texts |-> <<PhraseAt("query", 1, 1)>>]>>

\* [mutant] one simulator for the whole game.
BeginPlanAgain ==
  /\ at = "plan"
  /\ planTurn' = 1 /\ planStep' = 1
  /\ sim' = sim
  /\ talk' = [said |-> FirstWords, ids |-> Template(FirstWords[1]) \o Template(FirstWords[2])
                                              \o Generate,
              mask |-> Zeros(Len(Template(FirstWords[2]))),
              rewards |-> Zeros(Len(Template(FirstWords[2])))]
  /\ at' = "think"
  /\ UNCHANGED <<setup, played, decision, whole, paid, result>>

\* A new simulator at the state of the game.  The mask counts the query alone;
\* plan_ids has the system prompt and a generation prompt besides.
BeginPlan ==
  /\ at = "plan"
  /\ planTurn' = 1 /\ planStep' = 1
  /\ sim' = Fresh
  /\ talk' = [said |-> FirstWords, ids |-> Template(FirstWords[1]) \o Template(FirstWords[2])
                                              \o Generate,
              mask |-> Zeros(Len(Template(FirstWords[2]))),
              rewards |-> Zeros(Len(Template(FirstWords[2])))]
  /\ at' = "think"
  /\ UNCHANGED <<setup, played, decision, whole, paid, result>>

\* [mutant] the tokens the model is told are not counted.
HeardUnmasked(text) ==
  LET told == IF Len(talk.said) > 2
                THEN [talk EXCEPT !.ids = @ \o Template(Last(talk.said)) \o Generate]
                ELSE talk
  IN  [told EXCEPT !.ids = Append(@, text), !.mask = Append(@, 1),
                   !.rewards = Append(@, 0),
                   !.said = Append(@, [role |-> "assistant", texts |-> <<text>>])]

\* The model is told the last message, unless it heard it with the prompt, and
\* answers.
Heard(text) ==
  LET told == IF Len(talk.said) > 2
                THEN Unmasked(talk, Template(Last(talk.said)) \o Generate) ELSE talk
  IN  [told EXCEPT !.ids = Append(@, text), !.mask = Append(@, 1),
                   !.rewards = Append(@, 0),
                   !.said = Append(@, [role |-> "assistant", texts |-> <<text>>])]

\* The next trajectory.  reset_state is a coroutine that nobody awaits: the
\* simulator is where the last trajectory left it.
Restart(now, t) ==
  /\ planTurn' = planTurn + 1 /\ planStep' = 1
  /\ sim' = now
  /\ talk' = [t EXCEPT !.said = AddUser(@, PhraseAt("restart", planTurn', now.moved))]
  /\ at' = "think"

ToSummary(now, t) ==
  /\ talk' = t
  /\ sim' = now
  /\ at' = "summarise"
  /\ UNCHANGED <<planTurn, planStep>>

LastTurn == planTurn = setup.trajs

\* An answer, when it may come early.
AnswerNow ==
  /\ at = "think" /\ setup.early
  /\ talk' = Heard(Phrase("answer"))
  /\ decision' \in {"legal", "illegal"}
  /\ at' = "join"
  /\ UNCHANGED <<setup, played, planTurn, planStep, sim, whole, paid, result>>

\* The model ends the trajectory with a tag, or has no move and none is drawn:
\* then it is told so.
EndTurn ==
  /\ at = "think"
  /\ \E feedback \in BOOLEAN :
       /\ feedback => ~setup.randomPlan
       /\ LET heard == Heard(Phrase("thought"))
              t == IF feedback THEN [heard EXCEPT !.said = AddUser(@, Phrase("no move"))]
                               ELSE heard
          IN  IF LastTurn THEN ToSummary(sim, t) ELSE Restart(sim, t)
  /\ UNCHANGED <<setup, played, decision, whole, paid, result>>

EndPlanning ==
  /\ at = "think"
  /\ ToSummary(sim, Heard(Phrase("thought")))
  /\ UNCHANGED <<setup, played, decision, whole, paid, result>>

\* A move of the model, or one drawn at random.  Every simulated move is fined,
\* the valid ones too.
Moved(r) ==
  LET heard == Heard(Phrase("thought"))
  IN  [heard EXCEPT !.rewards = AddToLast(@, r - Fine),
                    !.said = AddUser(@, Phrase("feedback"))]

SimulateOn ==
  /\ at = "think" /\ sim.end # "shut" /\ planStep + 1 <= setup.horizon
  /\ planStep' = planStep + 1
  /\ sim' = [sim EXCEPT !.moved = @ + 1]
  /\ talk' = [Moved(0) EXCEPT !.said = AddUser(@, Phrase("state"))]
  /\ paid' = paid - Fine
  /\ UNCHANGED <<setup, at, played, planTurn, decision, whole, result>>

\* [mutant] the last words of the last trajectory are not told.
LastWordsUnheard(t) == t

\* The last trajectory's end is told before the summary is asked for.
LastWords(t) == Unmasked(t, Template(Last(t.said)))

\* The trajectory ends with its budget or with the simulated game.
SimulateLast ==
  /\ at = "think" /\ sim.end # "shut"
  /\ \E over \in {"no", "open", "shut"}, r \in GameRewards :
       /\ over = "no" => planStep + 1 > setup.horizon /\ r = 0
       /\ LET t == [Moved(r) EXCEPT !.said =
                      AddUser(@, Phrase(IF over = "no" THEN "budget spent" ELSE "game over"))]
              now == [moved |-> sim.moved + 1, end |-> IF over = "no" THEN sim.end ELSE over]
          IN  IF LastTurn THEN ToSummary(now, LastWords(t)) ELSE Restart(now, t)
       /\ paid' = paid + r - Fine
  /\ UNCHANGED <<setup, played, decision, whole, result>>

\* In a game that is over there is no legal move to draw, or it is not the
\* model's turn: the exception ends the episode.
SimulateFails ==
  /\ at = "think" /\ sim.end = "shut"
  /\ at' = "raised"
  /\ talk' = Heard(Phrase("thought"))
  /\ UNCHANGED <<setup, played, planTurn, planStep, sim, decision, whole, paid, result>>

\* The summary is asked for in its own message, also after another one.
Summarise ==
  /\ at = "summarise"
  /\ LET prompt == [role |-> "user", texts |-> <<Phrase("summary prompt")>>]
         told == Unmasked(talk, Template(prompt) \o Generate)
         text == Phrase("summary")
     IN  talk' = [told EXCEPT !.ids = Append(@, text), !.mask = Append(@, 1),
                              !.rewards = Append(@, 0),
                              !.said = @ \o <<prompt, [role |-> "assistant", texts |-> <<text>>]>>]
  /\ decision' \in {"none", "legal", "illegal"}
  /\ at' = "join"
  /\ UNCHANGED <<setup, played, planTurn, planStep, sim, whole, paid, result>>

-----------------------------------------------------------------------------
(* The game.                                                               *)

\* The system prompt is cut off by counting from the end.
JoinPlan ==
  /\ at = "join"
  /\ whole' = [ids |-> whole.ids \o LastOf(talk.ids, Len(talk.mask)),
               mask |-> whole.mask \o talk.mask,
               rewards |-> whole.rewards \o talk.rewards]
  /\ at' = "act"
  /\ UNCHANGED <<setup, played, planTurn, planStep, sim, talk, decision, paid, result>>

FinalText == <<RoleToken("user"), Phrase("end")>>

\* The reward of the last move goes to the last token before the final text,
\* or to the last of it.
Ending(r) ==
  IF setup.readjust
    THEN Unmasked([whole EXCEPT !.rewards = AddToLast(@, r)], FinalText)
    ELSE LET told == Unmasked(whole, FinalText)
         IN  [told EXCEPT !.rewards = AddToLast(@, r)]

NoLegalMove ==
  /\ at = "act"
  /\ decision # "legal" /\ ~setup.randomAct
  /\ whole' = Ending(-Fine - 1)
  /\ paid' = paid - Fine - 1
  /\ at' = "return"
  /\ UNCHANGED <<setup, played, planTurn, planStep, sim, talk, decision, result>>

MayMove == at = "act" /\ (decision = "legal" \/ setup.randomAct)

Gain(r) == IF decision = "legal" THEN r ELSE r - Fine

PlayOn ==
  /\ MayMove
  /\ played + 1 <= setup.steps
  /\ played' = played + 1
  /\ whole' = Unmasked([whole EXCEPT !.rewards = AddToLast(@, Gain(0))],
                       <<RoleToken("user"), Phrase("state")>>)
  /\ paid' = paid + Gain(0)
  /\ at' = "plan"
  /\ UNCHANGED <<setup, planTurn, planStep, sim, talk, decision, result>>

PlayLast ==
  /\ MayMove
  /\ played' = played + 1
  /\ \E r \in GameRewards :
       /\ whole' = Ending(Gain(r))
       /\ paid' = paid + Gain(r)
  /\ at' = "return"
  /\ UNCHANGED <<setup, planTurn, planStep, sim, talk, decision, result>>

ReturnPlay ==
  /\ at = "return"
  /\ LET Cut(s) == FirstOf(s, setup.length)
         response == Cut(LastOf(whole.ids, Len(whole.mask)))
     IN  result' = [response |-> response, mask |-> Padded(Cut(whole.mask), response),
                    rewards |-> Cut(whole.rewards)]
  /\ at' = "done"
  /\ UNCHANGED <<setup, played, planTurn, planStep, sim, talk, decision, whole, paid>>

-----------------------------------------------------------------------------
PlanInit ==
  /\ setup \in PlanConfigs
  /\ at = "plan" /\ played = 0
  /\ planTurn = 1 /\ planStep = 1
  /\ sim = Fresh /\ talk = <<>> /\ decision = "none"
  /\ whole = [ids |-> <<Phrase("instruction"), Phrase("query")>>, mask |-> <<>>, rewards |-> <<>>]
  /\ paid = 0 /\ result = <<>>

PlannerStep ==
  \/ BeginPlan \/ AnswerNow \/ EndTurn \/ EndPlanning
  \/ SimulateOn \/ SimulateLast \/ SimulateFails \/ Summarise

GameStep == JoinPlan \/ NoLegalMove \/ PlayOn \/ PlayLast \/ ReturnPlay

PlanNext == PlannerStep \/ GameStep

PlanSpec == PlanInit /\ [][PlanNext]_planVars

-----------------------------------------------------------------------------
PlanTypeOK ==
  /\ setup \in PlanConfigs
  /\ at \in {"plan", "think", "summarise", "join", "act", "return", "done", "raised"}
  /\ played \in 0 .. setup.steps + 1
  /\ planTurn \in 1 .. setup.trajs /\ planStep \in 1 .. setup.horizon
  /\ sim.moved \in 0 .. setup.trajs * setup.horizon
  /\ sim.end \in {"no", "open", "shut"}
  /\ decision \in {"none", "legal", "illegal"}

WrittenByModel == {"thought", "answer", "summary"}

MarksFit(ids, marks) ==
  LET tail == LastOf(ids, Len(marks))
  IN  \A i \in 1 .. Len(marks) : (tail[i].what \in WrittenByModel) <=> (marks[i] = 1)

(* Counted from the end, the mask of the plan and that of the episode say  *)
(* of every token who wrote it, and the rewards have their length; what    *)
(* the cut takes away beside the system prompt is one token of the query.  *)
(* No reward is lost or given twice before the response is cut.            *)
PlanInStep ==
  /\ Len(whole.ids) = Len(whole.mask) + 2 /\ Len(whole.rewards) = Len(whole.mask)
  /\ MarksFit(whole.ids, whole.mask)
  /\ talk # <<>> =>
       /\ Len(talk.ids) = Len(talk.mask) + 3 /\ Len(talk.rewards) = Len(talk.mask)
       /\ MarksFit(talk.ids, talk.mask)
  /\ Sum(whole.rewards) +
       (IF at \in {"think", "summarise", "join", "raised"} THEN Sum(talk.rewards) ELSE 0) = paid

\* Of a list of messages: all their texts.
Texts(said) == Joined([i \in 1 .. Len(said) |-> said[i].texts])

Roles == {"system", "user", "assistant"}

TextOfLoop == {"instruction", "query", "restart", "no move", "feedback", "state",
               "budget spent", "game over", "summary prompt", "end"}

TokenOf(whats) == [what : whats, step : Nat, turn : Nat, move : Nat]
TextToken == TokenOf(TextOfLoop \cup WrittenByModel)
Token == TokenOf(TextOfLoop \cup WrittenByModel \cup Roles)

(* The model hears what the messages say, each text once and in order,     *)
(* except that the last trajectory ended for want of a move.               *)
HeardIsSaid ==
  at \in {"think", "summarise", "join"} =>
    LET said == IF at = "think" /\ Len(talk.said) > 2 THEN Front(talk.said) ELSE talk.said
        Told == {t \in TextToken : ~(t.what = "no move" /\ t.turn = setup.trajs)}
    IN  Among(talk.ids, TextToken) = Among(Texts(said), Told)

(* The episode fails only where an earlier trajectory of the same plan     *)
(* ended the simulated game, and the simulator was not taken back.         *)
FailsOnlyAfterEnd ==
  at = "raised" =>
    \E i \in 1 .. Len(Texts(talk.said)) :
      Texts(talk.said)[i].what = "game over" /\ Texts(talk.said)[i].turn < planTurn

-----------------------------------------------------------------------------
(* The inductive invariant behind the theorems of LoopProofs.              *)

Marks == {0, 1}

Message == [role : Roles, texts : Seq(TextToken)]

\* Counted from the end, leaving k tokens, the lists say the same.
Fits(lists, k) ==
  /\ lists.ids \in Seq(Token) /\ lists.mask \in Seq(Marks) /\ lists.rewards \in Seq(Int)
  /\ Len(lists.ids) = Len(lists.mask) + k /\ Len(lists.rewards) = Len(lists.mask)
  /\ \A i \in 1 .. Len(lists.mask) :
       (lists.ids[i + k].what \in WrittenByModel) <=> (lists.mask[i] = 1)

\* The model is told nothing as if it had written it.
TalkFits(t) ==
  /\ t \in [said : Seq(Message), ids : Seq(Token), mask : Seq(Marks), rewards : Seq(Int)]
  /\ Fits(t, 3) /\ Len(t.mask) > 0 /\ Len(t.said) > 1
  /\ \A i \in 1 .. Len(t.said) : t.said[i].role # "assistant" =>
       \A j \in 1 .. Len(t.said[i].texts) : t.said[i].texts[j].what \notin WrittenByModel

WholeFits ==
  /\ whole \in [ids : Seq(Token), mask : Seq(Marks), rewards : Seq(Int)]
  /\ Fits(whole, 2) /\ (at = "act" => Len(whole.mask) > 0)
  /\ Sum(whole.rewards) +
       (IF at \in {"think", "summarise", "join", "raised"} THEN Sum(talk.rewards) ELSE 0) = paid

Ended(t, turn) ==
  \E i \in 1 .. Len(Texts(t.said)) :
    Texts(t.said)[i].what = "game over" /\ Texts(t.said)[i].turn < turn

\* The last message waits to be told, and is told whole.
Thinking ==
  /\ Last(talk.said).role = "user"
  /\ Among(talk.ids, TextToken)
       = Texts(IF Len(talk.said) > 2 THEN Front(talk.said) ELSE talk.said)
  /\ \A i \in 1 .. Len(Texts(talk.said)) :
       Texts(talk.said)[i].what = "no move" => Texts(talk.said)[i].turn < planTurn
  /\ sim.end = "shut" => Ended(talk, planTurn)
  /\ sim.moved <= (planTurn - 1) * setup.horizon + planStep - 1

PlanIInv ==
  /\ PlanTypeOK /\ paid \in Int
  /\ at \notin {"return", "done"} => played <= setup.steps
  /\ talk = <<>> \/ TalkFits(talk)
  /\ at \in {"think", "summarise", "join", "raised"} => TalkFits(talk)
  /\ WholeFits
  /\ at = "think" => Thinking
  /\ HeardIsSaid /\ FailsOnlyAfterEnd
=============================================================================
