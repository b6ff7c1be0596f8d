---------------------------- MODULE PolicyStreams ----------------------------
(***************************************************************************)
(* The tokens, mask and rewards of an episode that is planned in the       *)
(* policy-centric way: the model names some moves, each of which is        *)
(* followed in a simulator of its own, turn by turn, one inference a       *)
(* trajectory; then the model decides.  All inferences of a turn are made  *)
(* of the same tokens, those of the turns before it, and are added to the  *)
(* response one after the other.                                           *)
(*                                                                         *)
(* A planner is prompted with the system prompt and the state alone        *)
(* (max_window_size 1, as wherever this planner is configured).  A token   *)
(* is the text it belongs to and its place there.  The environments are    *)
(* in Episodes; here their answers are choices.                            *)
(***************************************************************************)
EXTENDS Integers, Sequences, SequencesExt, TokenLists

CONSTANTS
  PolicyConfigs, \* the configurations an episode may be run with
  TextLengths    \* lengths of the model's texts (a bound)

(* trajs: max_plan_traj_n; horizon: max_plan_horizon; turn2:               *)
(* include_turn2_simulation_in_response; readjust:                         *)
(* final_reward_readjustment; steps: max_steps; length: response_length.   *)
PolicyConfigType ==
  [trajs : Nat, horizon : Nat \ {0}, turn2 : BOOLEAN, readjust : BOOLEAN,
   steps : Nat, length : Nat \ {0}]

ASSUME PolicyAssumption ==
  /\ PolicyConfigs \subseteq PolicyConfigType
  /\ TextLengths \subseteq Nat \ {0}

VARIABLES
  policy,  \* the configuration of this episode
  doing,   \* what the coroutine does next
  ply,     \* step: moves made in the game
  depth,   \* idx and plan_step, which go up together
  alive,   \* trajectories that are not in group_simulation_done
  asking,  \* those that have still to be asked in this turn
  draft,   \* plan_ids, plan_response_mask, plan_reward_lst
  pending, \* new_plan_ids, new_infer_response_mask, ...: what this turn will add
  saw,     \* of each text of the model in this plan: what it was made of
  story,   \* prompt_ids, response_mask, reward_lst
  given    \* AgentLoopOutput after padding; <<>> before the episode returns

policyVars == <<policy, doing, ply, depth, alive, asking, draft, pending, saw, story, given>>

-----------------------------------------------------------------------------
(* Texts and lists.                                                        *)

Passage(what, traj, n) ==
  [k \in 1 .. n |-> [what |-> what, ply |-> ply, depth |-> depth, traj |-> traj, at |-> k]]

StateText(n) == <<[what |-> "state", ply |-> n, depth |-> 0, traj |-> 0, at |-> 1]>>

System == <<[what |-> "system", ply |-> 0, depth |-> 0, traj |-> 0, at |-> 1]>>

Nil == [ids |-> <<>>, mask |-> <<>>, reward |-> <<>>]

\* What the model did not write, and what it did.
NotWritten(text) == [ids |-> text, mask |-> Zeros(Len(text)), reward |-> Zeros(Len(text))]
ModelWritten(text) == [ids |-> text, mask |-> Ones(Len(text)), reward |-> Zeros(Len(text))]

Plus(lists, more) ==
  [ids |-> lists.ids \o more.ids, mask |-> lists.mask \o more.mask,
   reward |-> lists.reward \o more.reward]

PolicyInit ==
  /\ policy \in PolicyConfigs
  /\ doing = "plan" /\ ply = 0 /\ depth = 0
  /\ alive = {} /\ asking = {}
  /\ draft = Nil /\ pending = Nil /\ saw = <<>>
  /\ story = [Nil EXCEPT !.ids = System \o StateText(0)]
  /\ given = <<>>

-----------------------------------------------------------------------------
(* The planner.                                                            *)

\* The messages with no mask of their own.
StartPolicy ==
  /\ doing = "plan"
  /\ depth' = 1
  /\ draft' = [Nil EXCEPT !.ids = System \o StateText(ply)]
  /\ pending' = Nil /\ saw' = <<>>
  /\ doing' = "expand"
  /\ UNCHANGED <<policy, ply, alive, asking, story, given>>

Query(traj) == NotWritten(Passage("query", traj, 1))

\* A text of the model, and the tokens it was made of.
Note(traj, ids) == Append(saw, [depth |-> depth, traj |-> traj, ids |-> ids])

\* The first turn: all moves in one text.  How many of them are found, or are
\* drawn at random for those that are not legal, is a choice.
NameMoves(n, found) ==
  /\ doing = "expand"
  /\ found \in 0 .. policy.trajs
  /\ LET asked == Plus(draft, Query(0))
     IN  /\ saw' = Note(0, asked.ids)
         /\ draft' = Plus(Plus(asked, ModelWritten(Passage("moves", 0, n))),
                          NotWritten(Passage("feedback", 0, 1)))
  /\ alive' = 1 .. found
  /\ doing' = IF found = 0 THEN "summarise" ELSE "execute"
  /\ UNCHANGED <<policy, ply, depth, asking, pending, story, given>>

\* [mutant] the inference appends to the list it is given.
MadeOfPending(traj) == Plus(Plus(draft, pending), Query(traj))

\* What an inference of a later turn is made of: the plan as this turn found
\* it, copied, and a query.
MadeOf(traj) == Plus(draft, Query(traj))

\* A later turn: one inference for every trajectory that goes on.  After the
\* last the texts of all are added, if they are to be in the response.
ThinkOn(i, n) ==
  /\ doing = "think"
  /\ i \in asking /\ \A j \in asking : i <= j
  /\ saw' = Note(i, MadeOf(i).ids)
  /\ asking' = asking \ {i}
  /\ LET texts == Plus(Plus(Query(i), ModelWritten(Passage("moves", i, n))),
                       NotWritten(Passage("feedback", i, 1)))
         all == Plus(pending, texts)
     IN  IF asking' = {}
           THEN /\ draft' = IF policy.turn2 THEN Plus(draft, all) ELSE draft
                /\ pending' = Nil
                /\ doing' = "execute"
           ELSE /\ pending' = all
                /\ UNCHANGED <<draft, doing>>
  /\ UNCHANGED <<policy, ply, depth, alive, story, given>>

\* The moves are made in the simulators.  Those in over name no legal move or
\* end their game; at the horizon all end.
ExecuteTurn(over) ==
  /\ doing = "execute"
  /\ over \subseteq alive
  /\ alive' = IF depth >= policy.horizon THEN {} ELSE alive \ over
  /\ asking' = alive'
  /\ draft' = IF depth > 1 /\ ~policy.turn2 THEN draft
              ELSE Plus(draft, NotWritten(Passage("results", 0, 1)))
  /\ depth' = depth + 1
  /\ doing' = IF depth' > policy.horizon \/ alive' = {} THEN "summarise" ELSE "think"
  /\ UNCHANGED <<policy, ply, pending, saw, story, given>>

\* The decision.  Everything after the messages goes to the episode: as many
\* tokens, from the end, as the mask has.
Decide(n) ==
  /\ doing = "summarise"
  /\ LET asked == Plus(draft, NotWritten(Passage("summary prompt", 0, 1)))
         full == Plus(asked, ModelWritten(Passage("summary", 0, n)))
     IN  /\ saw' = Note(0, asked.ids)
         /\ draft' = full
         /\ story' = Plus(story, [full EXCEPT !.ids = LastOf(@, Len(full.mask))])
  /\ doing' = "act"
  /\ UNCHANGED <<policy, ply, depth, alive, asking, pending, given>>

-----------------------------------------------------------------------------
(* The game.                                                               *)

\* The last reward goes before the text that ends the game, or to its end.
FinishWith(r) ==
  LET text == NotWritten(Passage("end", 0, 1))
  IN  /\ story' = IF policy.readjust
                    THEN Plus([story EXCEPT !.reward = AddToLast(@, r)], text)
                    ELSE [Plus(story, text) EXCEPT !.reward = AddToLast(@, r)]
      /\ doing' = "return"
      /\ UNCHANGED <<policy, depth, alive, asking, draft, pending, saw, given>>

NoDecision ==
  /\ doing = "act"
  /\ FinishWith(-2)
  /\ UNCHANGED ply

PlayAndEnd(r) ==
  /\ doing = "act"
  /\ ply' = ply + 1
  /\ FinishWith(r)

PlayAndGoOn(r) ==
  /\ doing = "act"
  /\ ply + 1 <= policy.steps
  /\ ply' = ply + 1
  /\ story' = Plus([story EXCEPT !.reward = AddToLast(@, r)], NotWritten(StateText(ply + 1)))
  /\ doing' = "plan"
  /\ UNCHANGED <<policy, depth, alive, asking, draft, pending, saw, given>>

GiveStory ==
  /\ doing = "return"
  /\ LET Cut(s) == FirstOf(s, policy.length)
         response == Cut(LastOf(story.ids, Len(story.mask)))
     IN  given' = [response |-> response, mask |-> Padded(Cut(story.mask), response),
                   reward |-> Cut(story.reward)]
  /\ doing' = "done"
  /\ UNCHANGED <<policy, ply, depth, alive, asking, draft, pending, saw, story>>

PolicyNext ==
  \/ StartPolicy
  \/ \E n \in TextLengths, found \in 0 .. policy.trajs : NameMoves(n, found)
  \/ \E i \in asking, n \in TextLengths : ThinkOn(i, n)
  \/ \E over \in SUBSET alive : ExecuteTurn(over)
  \/ \E n \in TextLengths : Decide(n)
  \/ NoDecision
  \/ \E r \in {0, 1} : PlayAndEnd(r) \/ PlayAndGoOn(r)
  \/ GiveStory

PolicySpec == PolicyInit /\ [][PolicyNext]_policyVars

-----------------------------------------------------------------------------
PolicyPlaces == {"plan", "expand", "think", "execute", "summarise", "act", "return", "done"}

PolicyTypeOK ==
  /\ policy \in PolicyConfigs /\ doing \in PolicyPlaces
  /\ ply \in 0 .. policy.steps + 1 /\ depth \in 0 .. policy.horizon + 1
  /\ alive \subseteq 1 .. policy.trajs /\ asking \subseteq alive
  /\ doing = "think" <=> asking # {}
  /\ pending # Nil => doing = "think"

PolicyBit(token) == IF token.what \in {"moves", "summary"} THEN 1 ELSE 0

\* After some tokens without a mask: one bit and one reward for every token,
\* the bit 1 of what the model wrote.
Agree(lists, before) ==
  /\ Len(lists.ids) = before + Len(lists.mask) /\ Len(lists.reward) = Len(lists.mask)
  /\ \A k \in 1 .. Len(lists.mask) : lists.mask[k] = PolicyBit(lists.ids[before + k])

(* In the planner, in the episode and in what the trainer gets, however it *)
(* is cut, tokens and mask agree.                                          *)
PolicyInStep ==
  /\ Agree(story, 2) /\ Agree(pending, 0)
  /\ doing \in {"expand", "think", "execute", "summarise"} => Agree(draft, 2)
  /\ doing = "done" =>
       \A k \in 1 .. Len(given.response) : given.mask[k] = PolicyBit(given.response[k])

PolicyWhats == {"system", "state", "query", "moves", "feedback", "results",
                "summary prompt", "summary", "end"}

PolicyToken == [what : PolicyWhats, ply : Nat, depth : Nat, traj : Nat, at : Nat]

\* The tokens that are not of another trajectory of the turn of t.
NotOfOthers(t) == {u \in PolicyToken : ~(u.depth = t.depth /\ u.traj \notin {0, t.traj})}

\* A text of the model that starts with t was made of these tokens.
MadeFrom(t, ids) ==
  \E j \in 1 .. Len(saw) : saw[j].depth = t.depth /\ saw[j].traj = t.traj /\ saw[j].ids = ids

StartsText(t) == PolicyBit(t) = 1 /\ t.at = 1

WroteAfter(ids) ==
  \A k \in 1 .. Len(ids) :
    StartsText(ids[k]) => MadeFrom(ids[k], Among(FirstOf(ids, k - 1), NotOfOthers(ids[k])))

(* What the model wrote in a plan it wrote after exactly the tokens that   *)
(* stand before it in the response since the state, except those of the    *)
(* other trajectories of its turn.                                         *)
WroteAfterWhatStandsBefore == WroteAfter(draft.ids)

LearnsAsWritten == PolicyInStep /\ WroteAfterWhatStandsBefore

-----------------------------------------------------------------------------
(* The inductive invariant behind the theorems of LoopProofs.              *)

PolicyLists == [ids : Seq(PolicyToken), mask : Seq({0, 1}), reward : Seq(Int)]

AllIn(ids, S) == \A k \in 1 .. Len(ids) : ids[k] \in S

EarlierThan(d) == {u \in PolicyToken : u.depth < d}
NotAfter(d) == {u \in PolicyToken : u.depth <= d}
EarlierOrShared(d) == {u \in PolicyToken : u.depth < d \/ (u.depth = d /\ u.traj = 0)}
OfOthers(d, trajs) == {u \in PolicyToken : u.depth = d /\ u.traj # 0 /\ u.traj \notin trajs}

\* No token of a trajectory of this turn is in the plan before the turn's end;
\* until then they wait, and are of the trajectories that have been asked.
TurnsInOrder ==
  /\ doing = "think" => AllIn(draft.ids, EarlierThan(depth))
  /\ doing = "execute" => AllIn(draft.ids, NotAfter(depth))
  /\ doing \in {"expand", "summarise"} => AllIn(draft.ids, EarlierOrShared(depth))
  /\ AllIn(pending.ids, OfOthers(depth, asking))

PolicyIInv ==
  /\ PolicyTypeOK
  /\ doing \in {"expand", "think", "execute"} => depth \in 1 .. policy.horizon
  /\ doing \notin {"return", "done"} => ply <= policy.steps
  /\ draft \in PolicyLists /\ pending \in PolicyLists /\ story \in PolicyLists
  /\ saw \in Seq([depth : Nat, traj : Nat, ids : Seq(PolicyToken)])
  /\ PolicyInStep
  /\ TurnsInOrder
  /\ WroteAfter(draft.ids) /\ WroteAfter(draft.ids \o pending.ids)
=============================================================================
