----------------------------- MODULE InferLoops -----------------------------
(***************************************************************************)
(* The two loops that play a game without planning: the value loop asks    *)
(* for an understanding of the state and then for a move, the local loop   *)
(* for a move.  Each keeps the conversation twice: as tokens with their    *)
(* mask and rewards, for training, and as messages turn by turn, from      *)
(* which the prompt is made when only the last turns are to be shown.      *)
(*                                                                         *)
(* A text is what it is and the move it belongs to; of the model's texts   *)
(* the length varies, the environment's have one token.  The lists are     *)
(* local to a coroutine: an action is an inference or a move.              *)
(***************************************************************************)
EXTENDS Integers, Sequences, FiniteSets, SequencesExt, TokenLists

CONSTANTS
  InferConfigs, \* the configurations an episode may be run with
  InferLengths, \* lengths of the model's texts (a bound)
  MoveRewards   \* what the environment may give for a move (a bound)

(* window: max_window_size, 0 for None; steps: max_steps; random:          *)
(* random_move_when_invalid_act; validate: validate_action; length:        *)
(* response_length.  conversation_prefix is "user".                        *)
InferConfigType ==
  [loop : {"value", "local"}, window : Nat, steps : Nat, random : BOOLEAN,
   validate : BOOLEAN, length : Nat \ {0}]

ASSUME InferAssumption ==
  /\ InferConfigs \subseteq InferConfigType
  /\ InferLengths \subseteq Nat \ {0}
  /\ MoveRewards \subseteq Int

Penalty == 1 \* act_action_format_penality

VARIABLES
  game,    \* the configuration of this episode
  stage,   \* what the coroutine does next
  moves,   \* step
  tokens,  \* prompt_ids
  mask,    \* response_mask
  rewards, \* reward_lst
  turns,   \* turn_message
  shown,   \* the texts of the last prompt that was made of messages
  earned,  \* what every move was worth so far
  handed   \* AgentLoopOutput after padding; <<>> before the episode returns

inferVars == <<game, stage, moves, tokens, mask, rewards, turns, shown, earned, handed>>

Value == game.loop = "value"

(* What the model writes.                                                  *)
Written == {"understanding", "move"}

Words(what, n) == [k \in 1 .. n |-> [what |-> what, move |-> moves, at |-> k]]

Says(role, text) == [role |-> role, texts |-> <<[what |-> text, move |-> moves]>>]

InferInit ==
  /\ game \in InferConfigs
  /\ stage = "infer" /\ moves = 0
  /\ tokens = Words("instruction", 1) \o Words("query", 1)
  /\ mask = <<>> /\ rewards = <<>>
  /\ turns = <<<<Says("user", "query")>>>>
  /\ shown = <<>> /\ earned = <<>> /\ handed = <<>>

-----------------------------------------------------------------------------
(* The prompt made of messages.                                            *)

First(ts, n) == IF Len(ts) > n THEN Len(ts) - n + 1 ELSE 1

\* Two users in a row: what a turn ended with and the query of the next.
UserTwice(ts, k) == k < Len(ts) /\ Last(ts[k]).role = "user"

\* [mutant] the two are not made one message.
MergeNothing(ts, from) == ts

\* The second is added to the message of the first, the one that turn_message
\* holds: it is longer from then on.
Merge(ts, from) ==
  [k \in 1 .. Len(ts) |->
     IF k >= from /\ UserTwice(ts, k)
       THEN [ts[k] EXCEPT ![Len(ts[k])].texts = @ \o ts[k + 1][1].texts]
       ELSE ts[k]]

TextsOf(messages) == Joined([i \in 1 .. Len(messages) |-> messages[i].texts])

\* All messages from a turn on but those that were added to another.
Shown(ts, from) ==
  Joined([j \in 1 .. Len(ts) - from + 1 |->
    LET k == from + j - 1
    IN  TextsOf(IF k > from /\ UserTwice(ts, k - 1) THEN Tail(ts[k]) ELSE ts[k])])

-----------------------------------------------------------------------------
(* An inference.                                                           *)

Spoken(n, k) ==
  IF Value
    THEN Words("value prompt", 1) \o Words("understanding", n)
           \o Words("move prompt", 1) \o Words("move", k)
    ELSE Words("move", k)

MaskOfSpoken(n, k) ==
  IF Value THEN Zeros(1) \o Ones(n) \o Zeros(1) \o Ones(k) ELSE Ones(k)

\* Without a window input_ids is prompt_ids itself: the value inference
\* appends to it, and the loop appends what came back once more.
Aliased == Value /\ game.window = 0

Appended(text) == tokens \o (IF Aliased THEN text \o text ELSE text)

Infer ==
  /\ stage = "infer"
  /\ \E n, k \in InferLengths :
       /\ tokens' = Appended(Spoken(n, k))
       /\ mask' = mask \o MaskOfSpoken(n, k)
       /\ rewards' = rewards \o Zeros(Len(MaskOfSpoken(n, k)))
  /\ LET from == First(turns, game.window)
         merged == IF game.window = 0 THEN turns ELSE Merge(turns, from)
     IN  /\ shown' = IF game.window = 0 THEN <<>> ELSE Shown(merged, from)
         /\ turns' = [merged EXCEPT ![Len(merged)] = Append(@, Says("assistant", "answer"))]
  /\ stage' = "act"
  /\ UNCHANGED <<game, moves, earned, handed>>

-----------------------------------------------------------------------------
(* A move.                                                                 *)

\* Tokens that the model did not write.
Tell(text) ==
  /\ tokens' = tokens \o text
  /\ mask' = mask \o Zeros(Len(text))

\* No move is found and none is drawn at random: the game is over.  What goes
\* to turn_message is never read again.
NoMove ==
  /\ stage = "act"
  /\ Value /\ ~game.random
  /\ Tell(Words("no move", 1))
  /\ rewards' = Append(rewards, 0)
  /\ stage' = "return"
  /\ UNCHANGED <<game, moves, turns, shown, earned, handed>>

\* [mutant] the move is rewarded after the answer to it was added.
RewardAfter(r, text) == rewards \o [k \in 1 .. Len(text) |-> IF k = Len(text) THEN r ELSE 0]

\* reward_lst[-1] = reward, and zeros for what the model is told.
Reward(r, text) == [rewards EXCEPT ![Len(rewards)] = r] \o Zeros(Len(text))

Worth(r, valid) == IF valid THEN r ELSE r - Penalty

\* The move is made; an invalid one gives way to a random one or, in the
\* local loop without validation, goes to the environment as it is.
Play(r, valid, over) ==
  /\ stage = "act"
  /\ moves' = moves + 1
  /\ earned' = Append(earned, Worth(r, valid))
  /\ LET answer == Value \/ ~valid \/ game.validate
         told == IF answer THEN [turns EXCEPT ![Len(turns)] = Append(@, Says("user", "feedback"))]
                           ELSE turns
         query == [role |-> "user", texts |-> <<[what |-> "query", move |-> moves + 1]>>]
         text == Words(IF over THEN "end" ELSE "state", 1)
     IN  /\ turns' = IF over THEN told ELSE Append(told, <<query>>)
         /\ rewards' = Reward(Worth(r, valid), text)
         /\ Tell(text)
  /\ stage' = IF over THEN "return" ELSE "infer"
  /\ UNCHANGED <<game, shown, handed>>

GoOn == \E r \in MoveRewards, valid \in BOOLEAN :
  moves + 1 <= game.steps /\ Play(r, valid, FALSE)

\* The environment ends the game, or step > max_steps does.
EndGame == \E r \in MoveRewards, valid \in BOOLEAN : Play(r, valid, TRUE)

-----------------------------------------------------------------------------
HandOver ==
  /\ stage = "return"
  /\ LET Cut(s) == FirstOf(s, game.length)
         response == Cut(LastOf(tokens, Len(mask)))
     IN  handed' = [prompt |-> FirstOf(tokens, Len(tokens) - Len(mask)),
                    response |-> response,
                    mask |-> Padded(Cut(mask), response),
                    rewards |-> Cut(rewards)]
  /\ stage' = "done"
  /\ UNCHANGED <<game, moves, tokens, mask, rewards, turns, shown, earned>>

InferNext == Infer \/ NoMove \/ GoOn \/ EndGame \/ HandOver

InferSpec == InferInit /\ [][InferNext]_inferVars

-----------------------------------------------------------------------------
InferTypeOK ==
  /\ game \in InferConfigs
  /\ stage \in {"infer", "act", "return", "done"}
  /\ moves \in 0 .. game.steps + 1
  /\ mask \in Seq({0, 1}) /\ rewards \in Seq(Int) /\ earned \in Seq(Int)
  /\ Len(tokens) >= Len(mask) + 2
  /\ \A k \in 1 .. Len(turns) : turns[k] # <<>> /\ turns[k][1].role = "user"

\* Where a text of the model ends, and how many end up to there.
Ends(m) == {i \in 1 .. Len(m) : m[i] = 1 /\ (i < Len(m) => m[i + 1] = 0)}
TextsTo(m, i) == Cardinality({j \in Ends(m) : j <= i})

PerMove == IF Value THEN 2 ELSE 1

RewardAt(m, worth, i) ==
  LET nth == TextsTo(m, i)
  IN  IF i \in Ends(m) /\ nth % PerMove = 0 /\ nth \div PerMove <= Len(worth)
        THEN worth[nth \div PerMove] ELSE 0

RewardsAre(m, r, worth) ==
  Len(r) = Len(m) /\ \A i \in 1 .. Len(m) : r[i] = RewardAt(m, worth, i)

\* After two tokens, the mask says who wrote each.
SaysWhoWrote(m, ids) ==
  /\ Len(ids) = Len(m) + 2
  /\ \A i \in 1 .. Len(m) : (ids[i + 2].what \in Written) <=> (m[i] = 1)

(* The reward of a move is at the last token the model wrote for it, where *)
(* training looks for it, and at no other; an episode loses none.  With a  *)
(* window, or in the local loop, the tokens are the first prompt and then, *)
(* one for one, what the mask says: the model's where it is 1.             *)
MovesRewarded ==
  /\ RewardsAre(mask, rewards, earned)
  /\ ~Aliased => SaysWhoWrote(mask, tokens)

(* A prompt made of messages shows all texts of the last turns and none of *)
(* an earlier one.  A query that follows a feedback comes again with every *)
(* further prompt that shows both, never more than window - 1 times.       *)
ShownIsWindow ==
  stage = "act" /\ game.window > 0 =>
    LET from == First(turns, game.window)
        Copies(m, what) == Cardinality({i \in 1 .. Len(shown) :
                                          shown[i] = [what |-> what, move |-> m]})
        Most == IF game.window > 2 THEN game.window - 1 ELSE 1
    IN  /\ \A i \in 1 .. Len(shown) : shown[i].move >= from - 1
        /\ \A m \in from - 1 .. moves : Copies(m, "query") \in 1 .. Most
        /\ \A m \in from - 1 .. moves - 1 : Copies(m, "answer") = 1

(* What the trainer is told of a response: "1 for LLM generated tokens, 0  *)
(* for observation/padding tokens."                                        *)
MaskIsOfModel ==
  stage = "done" =>
    \A i \in 1 .. Len(handed.response) :
      handed.mask[i] = 1 <=> handed.response[i].what \in Written

-----------------------------------------------------------------------------
(* The inductive invariant behind the theorems of LoopProofs.              *)

InferWhats == Written \cup {"instruction", "query", "value prompt", "move prompt",
                            "no move", "state", "end"}

InferToken == [what : InferWhats, move : Nat, at : Nat]

\* Each text of the model was begun after one that is not, and all of them
\* were rewarded but those of the move that is being made.
EndsOK ==
  /\ stage = "infer" =>
       /\ mask = <<>> \/ mask[Len(mask)] = 0
       /\ Cardinality(Ends(mask)) = PerMove * Len(earned)
  /\ stage = "act" =>
       /\ mask # <<>> /\ mask[Len(mask)] = 1
       /\ Cardinality(Ends(mask)) = PerMove * (Len(earned) + 1)

\* The messages of a turn: a query, an answer, and what was said to it, to
\* which the query of the next turn was added n times.
QueryOf(m) == [role |-> "user", texts |-> <<[what |-> "query", move |-> m]>>]
AnswerOf(m) == [role |-> "assistant", texts |-> <<[what |-> "answer", move |-> m]>>]
FeedbackOf(m, n) ==
  [role |-> "user", texts |-> <<[what |-> "feedback", move |-> m]>>
                                \o [i \in 1 .. n |-> [what |-> "query", move |-> m + 1]]]

\* How many of so many prompts showed turn k and the one after it.
Together(k, prompts) ==
  IF game.window = 0 THEN 0
  ELSE IF prompts - k < game.window THEN prompts - k ELSE game.window - 1

InferMessage ==
  [role : {"user", "assistant"}, texts : Seq([what : {"query", "answer", "feedback"}, move : Nat])]

\* The turns before the present one, after so many prompts.
TurnsAre(ts, prompts) ==
  /\ ts \in Seq(Seq(InferMessage)) /\ Len(ts) = moves + 1
  /\ \A k \in 1 .. moves :
       \/ ts[k] = <<QueryOf(k - 1), AnswerOf(k - 1)>>
       \/ ts[k] = <<QueryOf(k - 1), AnswerOf(k - 1), FeedbackOf(k - 1, Together(k, prompts))>>

TurnsOK ==
  /\ stage = "infer" => TurnsAre(turns, moves) /\ turns[moves + 1] = <<QueryOf(moves)>>
  /\ stage = "act" => TurnsAre(turns, moves + 1)
                        /\ turns[moves + 1] = <<QueryOf(moves), AnswerOf(moves)>>

InferIInv ==
  /\ InferTypeOK /\ tokens \in Seq(InferToken)
  /\ stage \in {"infer", "act"} => moves <= game.steps
  /\ EndsOK /\ TurnsOK /\ MovesRewarded
=============================================================================
