---------------------------- MODULE TokenStreams ----------------------------
(***************************************************************************)
(* The token streams one episode of the value loop hands to training:      *)
(* run_lpm with run_parallel_planning, the two inferences they call, and   *)
(* the cut and padding that follow.                                        *)
(*                                                                         *)
(* Every text that is read or generated is appended to several lists that  *)
(* are never joined: the tokens, the mask of the model's own tokens, the   *)
(* rewards, and, for self-distillation, a second version of the tokens and *)
(* one mask for each of student and teacher.  With "supervised-sd" the     *)
(* second version is the student's: the first understanding of a state is  *)
(* replaced by the summary made after simulating.  With "op-sd" it is the  *)
(* teacher's: the summary is replaced by the first understanding.          *)
(*                                                                         *)
(* A token is the text it belongs to and its place there.  Texts of the    *)
(* environment have one token; the model's have one of the lengths in      *)
(* Lengths.  The lists are local to one coroutine, so an action is a whole *)
(* inference or a whole turn.                                              *)
(***************************************************************************)
EXTENDS Integers, Sequences, TokenLists

CONSTANTS
    Configs,    \* the configurations an episode may be run with
    MaxTraj,    \* max_plan_traj_n
    Lengths     \* the lengths of the texts the model generates (a bound)

Modes == {"supervised-sd", "op-sd"}

(* mode: distillation_mode; horizon: max_plan_horizon; turn2:              *)
(* include_turn2_simulation_in_response; readjust:                         *)
(* final_reward_readjustment; steps: max_steps; length: response_length.   *)
ConfigType ==
    [mode : Modes, horizon : Nat \ {0}, turn2 : BOOLEAN, readjust : BOOLEAN,
     steps : Nat, length : Nat \ {0}]

ASSUME ConfigAssumption ==
    /\ Configs \subseteq ConfigType
    /\ MaxTraj \in Nat
    /\ Lengths \subseteq Nat \ {0}

VARIABLES
    config,    \* the configuration of this episode
    pc,        \* what the coroutine does next
    step,      \* moves made in the game
    turn,      \* idx and plan_step of the planner, which go up together
    running,   \* the trajectories that are not in group_simulation_done
    todo,      \* those this turn has still to add to the response
    plan,      \* the lists of run_parallel_planning
    out,       \* the lists of run_lpm
    granted,   \* the rewards the episode has given so far
    output     \* what the trainer gets; <<>> before the episode returns

vars == <<config, pc, step, turn, running, todo, plan, out, granted, output>>

Supervised == config.mode = "supervised-sd"

-----------------------------------------------------------------------------
(* Texts and lists                                                         *)

(* The texts whose mask is 1: what the model generates, or what is written *)
(* in its place when it fails to name a move.                              *)
Generated == {"understanding", "moves", "summary", "answer"}

Text(what, traj, n) ==
    [k \in 1..n |-> [what |-> what, step |-> step, turn |-> turn,
                     traj |-> traj, at |-> k]]

(* The four parts of an inference in two stages: the prompt for a value,   *)
(* the value, the prompt for moves, the moves.                             *)
Parts(value, moves, traj, n, k) ==
    <<Text("value prompt", traj, 1), Text(value, traj, n),
      Text("move prompt", traj, 1), Text(moves, traj, k)>>

AllFour(p) == p[1] \o p[2] \o p[3] \o p[4]

\* [mutant] the prompt between value and moves is taken for the model's.
MaskWithPrompt(p) ==
    Zeros(Len(p[1])) \o Ones(Len(p[2])) \o Ones(Len(p[3])) \o Ones(Len(p[4]))

MaskOf(p) == Zeros(Len(p[1])) \o Ones(Len(p[2])) \o Zeros(Len(p[3])) \o Ones(Len(p[4]))

(* Only the second part: what is distilled.                                *)
ValueMaskOf(p) ==
    Zeros(Len(p[1])) \o Ones(Len(p[2])) \o Zeros(Len(p[3])) \o Zeros(Len(p[4]))

SystemPrompt == Text("system prompt", 0, 2)

\* [mutant] the rewards are not filled up.
ToldWithoutReward(lists, text) ==
    [lists EXCEPT
        !.ids = @ \o text,
        !.mask = @ \o Zeros(Len(text)),
        !.alt = @ \o text,
        !.teacherMask = @ \o Zeros(Len(text)),
        !.studentMask = @ \o Zeros(Len(text))]

(* A text that the model did not write goes to every list.                 *)
Told(lists, text) ==
    [lists EXCEPT
        !.ids = @ \o text,
        !.mask = @ \o Zeros(Len(text)),
        !.reward = @ \o Zeros(Len(text)),
        !.alt = @ \o text,
        !.teacherMask = @ \o Zeros(Len(text)),
        !.studentMask = @ \o Zeros(Len(text))]

-----------------------------------------------------------------------------
(* The planner                                                             *)

(* The planner's own prompt and the state to plan for.  hole is where the  *)
(* summary will go in the student's version; root is the first             *)
(* understanding.                                                          *)
NewPlan ==
    LET query == Text("query", 0, 1)
    IN  [ids |-> SystemPrompt \o query, mask |-> Zeros(1), reward |-> Zeros(1),
         alt |-> SystemPrompt \o query, teacherMask |-> Zeros(1),
         studentMask |-> Zeros(1), hole |-> 0, root |-> <<>>]

NoLists ==
    [ids |-> <<>>, mask |-> <<>>, reward |-> <<>>, alt |-> <<>>,
     teacherMask |-> <<>>, studentMask |-> <<>>, hole |-> 0, root |-> <<>>]

StartPlan ==
    /\ pc = "plan"
    /\ plan' = NewPlan
    /\ turn' = 1
    /\ pc' = "expand"
    /\ UNCHANGED <<config, step, running, todo, out, granted, output>>

(* What every inference adds to the response's own lists.                  *)
Inferred(lists, p) ==
    [lists EXCEPT
        !.ids = @ \o AllFour(p),
        !.mask = @ \o MaskOf(p),
        !.reward = @ \o Zeros(Len(AllFour(p)))]

\* [mutant] the summary goes before the prompt that asks for the value.
HoleBeforePrompt(p) == Len(plan.alt)

(* The place of the first understanding in the student's version.          *)
Hole(p) == Len(plan.alt) + Len(p[1])

(* The first understanding and the moves to simulate.  The student's       *)
(* version leaves the understanding out, for the summary to come.          *)
Expanded(p) ==
    LET lists == Inferred(plan, p)
        zeros == Zeros(Len(AllFour(p)))
    IN  IF Supervised
        THEN [lists EXCEPT
                !.hole = Hole(p),
                !.alt = @ \o p[1] \o p[3] \o p[4],
                !.teacherMask = @ \o zeros]
        ELSE [lists EXCEPT
                !.root = p[2],
                !.alt = @ \o AllFour(p),
                !.teacherMask = @ \o zeros,
                !.studentMask = @ \o ValueMaskOf(p)]

Expand(n, k, found) ==
    /\ pc = "expand"
    /\ plan' = Told(Expanded(Parts("understanding", "moves", 0, n, k)),
                    Text("feedback", 0, 1))
    /\ running' = 1..found
    /\ pc' = IF found = 0 THEN "summarize" ELSE "execute"
    /\ UNCHANGED <<config, step, turn, todo, out, granted, output>>

(* The text that says which move was found goes to the response but not to *)
(* the second version, while the masks count it.                           *)
SimulatedBy(lists, p, feedback) ==
    LET added == Told(Inferred(lists, p), feedback)
    IN  [added EXCEPT
            !.alt = lists.alt \o AllFour(p),
            !.teacherMask = lists.teacherMask \o Zeros(Len(AllFour(p)) + Len(feedback)),
            !.studentMask = lists.studentMask \o Zeros(Len(AllFour(p)) + Len(feedback))]

(* One inference per trajectory that still runs; their texts are added in  *)
(* the order of the trajectories.                                          *)
Simulate(i, n) ==
    /\ pc = "simulate"
    /\ \A j \in todo : i <= j
    /\ plan' = IF config.turn2
               THEN SimulatedBy(plan, Parts("understanding", "moves", i, n, 1),
                                Text("feedback", i, 1))
               ELSE plan
    /\ todo' = todo \ {i}
    /\ pc' = IF todo' = {} THEN "execute" ELSE "simulate"
    /\ UNCHANGED <<config, step, turn, running, out, granted, output>>

(* The moves are made in the simulators; those in over are invalid or end  *)
(* their game, and at the horizon all do.                                  *)
Execute(over) ==
    /\ pc = "execute"
    /\ over \subseteq running
    /\ running' = IF turn >= config.horizon THEN {} ELSE running \ over
    /\ todo' = running'
    /\ plan' = IF turn > 1 /\ ~config.turn2 THEN plan
               ELSE Told(plan, Text("results", 0, 1))
    /\ turn' = turn + 1
    /\ pc' = IF turn' > config.horizon \/ running' = {} THEN "summarize" ELSE "simulate"
    /\ UNCHANGED <<config, step, out, granted, output>>

\* [mutant] the teacher keeps its summary.
Unswapped(p) == p

(* The teacher's version has the first understanding for the summary.      *)
Swapped(p) == [p EXCEPT ![2] = plan.root]

(* The summary, and the answer it leads to.                                *)
Summarized(p) ==
    LET told == Told(plan, Text("summary prompt", 0, 1))
        lists == Inferred(told, p)
    IN  IF Supervised
        THEN [lists EXCEPT
                !.alt = @ \o AllFour(p),
                !.teacherMask = @ \o ValueMaskOf(p)]
        ELSE [lists EXCEPT
                !.alt = @ \o AllFour(Swapped(p)),
                !.teacherMask = @ \o ValueMaskOf(Swapped(p)),
                !.studentMask = @ \o Zeros(Len(AllFour(p)))]

(* The second version, with the summary in the hole of the student's.      *)
Filled(lists, summary) ==
    IF Supervised
    THEN FirstOf(lists.alt, lists.hole) \o summary
            \o LastOf(lists.alt, Len(lists.alt) - lists.hole)
    ELSE lists.alt

FilledMask(lists, summary) ==
    IF Supervised
    THEN Zeros(lists.hole) \o Ones(Len(summary)) \o Zeros(Len(lists.alt) - lists.hole)
    ELSE lists.studentMask

(* What run_parallel_planning returns: the planner's own prompt, which has *)
(* no mask, is dropped from each list that has it.                         *)
Returned(lists, summary) ==
    LET before == Len(lists.ids) - Len(lists.mask)
        alt == Filled(lists, summary)
        mask == FilledMask(lists, summary)
    IN  [lists EXCEPT
            !.ids = LastOf(lists.ids, Len(lists.mask)),
            !.alt = LastOf(alt, Len(alt) - before),
            !.studentMask = IF Supervised THEN LastOf(mask, Len(mask) - before) ELSE mask]

Joining(lists, added) ==
    [lists EXCEPT
        !.ids = @ \o added.ids,
        !.mask = @ \o added.mask,
        !.reward = @ \o added.reward,
        !.alt = @ \o added.alt,
        !.teacherMask = @ \o added.teacherMask,
        !.studentMask = @ \o added.studentMask]

Summarize(n, k) ==
    LET p == Parts("summary", "answer", 0, n, k)
    IN  /\ pc = "summarize"
        /\ out' = Joining(out, Returned(Summarized(p), p[2]))
        /\ plan' = NoLists
        /\ pc' = "act"
        /\ UNCHANGED <<config, step, turn, running, todo, granted, output>>

-----------------------------------------------------------------------------
(* The game                                                                *)

\* [mutant] the last reward always goes to the end of all texts.
RewardedAtEnd(r, text) == AddToLast(out.reward \o Zeros(Len(text)), r)

(* The last reward goes to the last token of the answer, or to the last    *)
(* token of the text that ends the episode.                                *)
Rewarded(r, text) ==
    IF config.readjust
    THEN AddToLast(out.reward, r) \o Zeros(Len(text))
    ELSE AddToLast(out.reward \o Zeros(Len(text)), r)

EndWith(r) ==
    LET text == Text("end", 0, 1)
    IN  /\ out' = [Told(out, text) EXCEPT !.reward = Rewarded(r, text)]
        /\ granted' = granted + r
        /\ pc' = "return"
        /\ UNCHANGED <<config, turn, running, todo, plan, output>>

(* The answer names no action: the episode is lost.                        *)
NoAction ==
    /\ pc = "act"
    /\ EndWith(-2)
    /\ UNCHANGED step

(* The move ends the game, or is one more than max_steps.                  *)
LastMove(r) ==
    /\ pc = "act"
    /\ step' = step + 1
    /\ EndWith(r)

(* Not step > max_steps, after the move is counted.                        *)
MayGoOn == step + 1 <= config.steps

Move(r) ==
    /\ pc = "act"
    /\ MayGoOn
    /\ step' = step + 1
    /\ out' = Told([out EXCEPT !.reward = AddToLast(@, r)], Text("state", 0, 1))
    /\ granted' = granted + r
    /\ pc' = "plan"
    /\ UNCHANGED <<config, turn, running, todo, plan, output>>

(* AgentLoopOutput: each list is cut by itself, then padded.               *)
Return ==
    LET Cut(s) == FirstOf(s, config.length)
        response == Cut(LastOf(out.ids, Len(out.mask)))
        other == Cut(LastOf(out.alt, IF Supervised THEN Len(out.studentMask)
                                                   ELSE Len(out.teacherMask)))
        student == IF Supervised THEN other ELSE response
        teacher == IF Supervised THEN response ELSE other
    IN  /\ pc = "return"
        /\ output' = [response |-> response,
                      mask |-> Padded(Cut(out.mask), response),
                      reward |-> Cut(out.reward),
                      student |-> student,
                      studentMask |-> Padded(Cut(out.studentMask), student),
                      teacher |-> teacher,
                      teacherMask |-> Padded(Cut(out.teacherMask), teacher)]
        /\ pc' = "done"
        /\ UNCHANGED <<config, step, turn, running, todo, plan, out, granted>>

-----------------------------------------------------------------------------
Init ==
    /\ config \in Configs
    /\ pc = "plan"
    /\ step = 0
    /\ turn = 0
    /\ running = {}
    /\ todo = {}
    /\ plan = NoLists
    /\ out = [NoLists EXCEPT !.ids = SystemPrompt, !.alt = SystemPrompt]
    /\ granted = 0
    /\ output = <<>>

Next ==
    \/ StartPlan
    \/ \E n, k \in Lengths, found \in 0..MaxTraj : Expand(n, k, found)
    \/ \E i \in todo, n \in Lengths : Simulate(i, n)
    \/ \E over \in SUBSET running : Execute(over)
    \/ \E n, k \in Lengths : Summarize(n, k)
    \/ NoAction
    \/ \E r \in {0, 1} : LastMove(r) \/ Move(r)
    \/ Return

Spec == Init /\ [][Next]_vars

-----------------------------------------------------------------------------
(* Properties                                                              *)

(* The text of a token, and what the lists may hold.                       *)
Kinds == Generated \cup {"system prompt", "query", "value prompt", "move prompt",
                         "feedback", "results", "summary prompt", "state", "end"}

TokenType ==
    [what : Kinds, step : Nat, turn : Nat, traj : 0..MaxTraj, at : Nat \ {0}]

Bits == {0, 1}

ListsType ==
    [ids : Seq(TokenType), mask : Seq(Bits), reward : Seq(Int),
     alt : Seq(TokenType), teacherMask : Seq(Bits), studentMask : Seq(Bits),
     hole : Nat, root : Seq(TokenType)]

OutputType ==
    [response : Seq(TokenType), mask : Seq(0..2), reward : Seq(Int),
     student : Seq(TokenType), studentMask : Seq(0..2),
     teacher : Seq(TokenType), teacherMask : Seq(0..2)]

(* Types; a game has at most one move more than max_steps, a plan no more  *)
(* turns than its horizon, and every mask is of 0s and 1s until padding.   *)
TypeOK ==
    /\ config \in Configs
    /\ pc \in {"plan", "expand", "execute", "simulate", "summarize", "act",
               "return", "done"}
    /\ step \in 0..(config.steps + 1)
    /\ turn \in 0..(config.horizon + 1)
    /\ running \subseteq 1..MaxTraj
    /\ todo \subseteq running
    /\ plan \in ListsType
    /\ out \in ListsType
    /\ granted \in Int
    /\ IF pc = "done" THEN output \in OutputType ELSE output = <<>>

(* The second version of an op-sd plan lacks the texts that say which move *)
(* was found in later turns: its masks are longer than its tokens, and are *)
(* aligned with them at the end only.                                      *)
TextsLeftOut == config.horizon > 1 /\ config.turn2

Planning == pc \in {"expand", "execute", "simulate", "summarize"}

Aligned(lists) ==
    /\ Len(lists.ids) = Len(SystemPrompt) + Len(lists.mask)
    /\ Len(lists.reward) = Len(lists.mask)
    /\ Supervised => Len(lists.teacherMask) = Len(lists.mask)
    /\ ~Supervised =>
          /\ Len(lists.studentMask) = Len(lists.mask)
          /\ TextsLeftOut \/ Len(lists.alt) = Len(SystemPrompt) + Len(lists.teacherMask)

(* At every moment, in the planner and in the episode, tokens, mask and    *)
(* rewards have one entry per token of the response (run_lpm asserts it of *)
(* what the planner returns), so have the masks of student and teacher for *)
(* the version they are about.                                             *)
StreamsInStep ==
    /\ Aligned(out)
    /\ Planning => Aligned(plan)
    /\ Supervised => Len(out.alt) = Len(SystemPrompt) + Len(out.studentMask)

Bit(token) == IF token.what \in Generated THEN 1 ELSE 0

(* The trainer learns from exactly the tokens the model wrote, however the *)
(* response was cut: the mask is 1 there and 0 on all others.              *)
MaskMarksModelText ==
    pc = "done" =>
        /\ Len(output.mask) = Len(output.response)
        /\ \A k \in 1..Len(output.mask) :
              output.mask[k] = Bit(output.response[k])

(* All rewards of the game reach the trainer, unless the response is cut;  *)
(* with final_reward_readjustment each is on a token the model is trained  *)
(* on, which advantages that skip the other tokens rely on.                *)
RewardsArrive ==
    pc = "done" =>
        /\ Len(out.reward) <= config.length => Sum(output.reward) = granted
        /\ config.readjust =>
              \A k \in 1..Len(output.reward) :
                  output.reward[k] # 0 => output.mask[k] = 1

(* The tokens of a list whose mask is m.                                   *)
Where(ids, mask, m) == Chosen(ids, {k \in 1..Len(ids) : mask[k] = m})

(* In place of which texts one version has others, and of which kind those *)
(* are: the summary is put for the first understanding, or the other way.  *)
Old == IF Supervised THEN "understanding" ELSE "summary"
New == IF Supervised THEN "summary" ELSE "understanding"

(* Any of the lists is longer than response_length: the summary may be     *)
(* longer than the understanding it replaces, so the two versions need not *)
(* be cut together.                                                        *)
Overlong ==
    \E n \in {Len(out.mask), Len(out.studentMask), Len(out.teacherMask)} :
        n > config.length

(* Student and teacher are compared on the same tokens, in the same order  *)
(* (the actor refuses a batch where only their number differs), of the     *)
(* kind the mode distills, unless a list is cut.                           *)
SameTokensDistilled ==
    pc = "done" =>
        LET taught == Where(output.teacher, output.teacherMask, 1)
        IN  /\ taught = Where(output.student, output.studentMask, 1)
            /\ \A k \in 1..Len(taught) : taught[k].what = New
            /\ taught # <<>>

DistilledAlike ==
    Overlong \/ (~Supervised /\ TextsLeftOut) \/ SameTokensDistilled

Replaced(t) == t.what = Old /\ t.traj = 0

Kept(ids) == Chosen(ids, {k \in 1..Len(ids) : ~Replaced(ids[k])})

(* The first tokens of the texts of a list.                                *)
FirstTokens(ids) == Chosen(ids, {k \in 1..Len(ids) : ids[k].at = 1})

(* The version has the texts of the response, in order and of the same     *)
(* moves, but for those replaced.                                          *)
SameTexts(ids, version) ==
    /\ Len(FirstTokens(version)) = Len(FirstTokens(ids))
    /\ \A k \in 1..Len(FirstTokens(ids)) :
          LET t == FirstTokens(ids)[k]
              v == FirstTokens(version)[k]
          IN  /\ v.what = IF Replaced(t) THEN New ELSE t.what
              /\ v.step = t.step /\ v.traj = t.traj

(* Both versions are the response with one text in the place of another:   *)
(* the student's has the summary where the first understanding was, the    *)
(* teacher's the first understanding where the summary was.  All other     *)
(* texts are there, whole and in the order of the response.                *)
SwappedInPlace ==
    (pc = "done" /\ ~Overlong /\ ~TextsLeftOut) =>
        LET version == IF Supervised THEN output.student ELSE output.teacher
            mask == IF Supervised THEN output.studentMask ELSE output.teacherMask
        IN  /\ Where(version, mask, 0) = Kept(output.response)
            /\ SameTexts(output.response, version)

-----------------------------------------------------------------------------
(* The inductive invariant behind the theorems of TokenStreamsProofs.      *)

(* The mask says of each token after the system prompt who wrote it.       *)
Marked(lists) ==
    \A k \in 1..Len(lists.mask) :
        lists.mask[k] = Bit(lists.ids[k + Len(SystemPrompt)])

(* The counters at each place of the coroutine.                            *)
CountersOK ==
    /\ pc \notin {"return", "done"} => step <= config.steps
    /\ pc \in {"expand", "execute", "simulate"} => turn \in 1..config.horizon
    /\ pc = "simulate" => config.horizon > 1
    /\ pc = "simulate" <=> todo # {}

(* The place for the summary lies after the planner's own prompt.          *)
HoleOK ==
    Planning =>
        /\ plan.hole <= Len(plan.alt)
        /\ Len(SystemPrompt) <= Len(plan.alt)

IInv ==
    /\ TypeOK /\ StreamsInStep /\ CountersOK /\ HoleOK
    /\ Marked(out)
    /\ Planning => Marked(plan)
    /\ MaskMarksModelText

(* What the episode was given is in its rewards, on tokens of the model if *)
(* the last reward is moved there; the planner's are zeros, and what a     *)
(* planner returns ends with a token of the model.                         *)
RewardsOK ==
    /\ Sum(out.reward) = granted
    /\ Planning => \A k \in 1..Len(plan.reward) : plan.reward[k] = 0
    /\ config.readjust =>
          \A k \in 1..Len(out.reward) : out.reward[k] # 0 => out.mask[k] = 1
    /\ pc = "act" => out.mask # <<>> /\ out.mask[Len(out.mask)] = 1

(* A list without the system prompt.                                       *)
Body(s) == SubSeq(s, Len(SystemPrompt) + 1, Len(s))

(* The mask of the version, and that of the response.                      *)
VersionMask(lists) == IF Supervised THEN lists.studentMask ELSE lists.teacherMask
ResponseMask(lists) == IF Supervised THEN lists.teacherMask ELSE lists.studentMask

Versions(s, version, mask) ==
    Where(version, mask, 0) = Kept(s) /\ SameTexts(s, version)

(* What the properties say of the output holds of the episode's lists at   *)
(* every moment.                                                           *)
VersionsOK ==
    (Supervised \/ ~TextsLeftOut) =>
        LET s == Body(out.ids)
            version == Body(out.alt)
            taught == Where(s, ResponseMask(out), 1)
        IN  /\ Where(version, VersionMask(out), 1) = taught
            /\ \A k \in 1..Len(taught) : taught[k].what = New
            /\ pc \in {"act", "return", "done"} => taught # <<>>
            /\ ~TextsLeftOut => Versions(s, version, VersionMask(out))

Plain(s) == \A k \in 1..Len(s) : ~Replaced(s[k])

IsUnderstanding(s) ==
    /\ s # <<>>
    /\ \A k \in 1..Len(s) : /\ s[k].what = "understanding" /\ s[k].traj = 0
                            /\ s[k].step = step /\ s[k].at = k

(* The planner's second version is the response, without the first         *)
(* understanding if the student's; before the summary only the first       *)
(* understanding is distilled, and that by the other mode.                 *)
PlanOK ==
    /\ (Planning /\ (Supervised \/ ~TextsLeftOut)) =>
          \A k \in 1..Len(plan.teacherMask) : plan.teacherMask[k] = 0
    /\ (Planning /\ Supervised /\ pc # "expand") => Len(SystemPrompt) <= plan.hole
    /\ (Planning /\ Supervised /\ ~TextsLeftOut) =>
          LET before == FirstOf(plan.alt, plan.hole)
              after == LastOf(plan.alt, Len(plan.alt) - plan.hole)
          IN  IF pc = "expand"
              THEN plan.alt = plan.ids /\ Plain(Body(plan.ids))
              ELSE /\ Plain(Body(before)) /\ Plain(after)
                   /\ \E n \in 1..(Len(plan.ids) - plan.hole) :
                         LET text == SubSeq(plan.ids, plan.hole + 1, plan.hole + n)
                         IN  /\ plan.ids = before \o text \o after
                             /\ IsUnderstanding(text)
    /\ (Planning /\ ~Supervised /\ ~TextsLeftOut) =>
          /\ plan.alt = plan.ids /\ Plain(Body(plan.ids))
          /\ Where(Body(plan.ids), plan.studentMask, 1) = plan.root
          /\ IF pc = "expand" THEN plan.root = <<>> ELSE IsUnderstanding(plan.root)
=============================================================================
