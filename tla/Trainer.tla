------------------------------- MODULE Trainer -------------------------------
(***************************************************************************)
(* The training loop of RayPPOTrainer and its checkpoints.                 *)
(*                                                                         *)
(* fit() trains on one batch per step and, every SaveFreq steps, saves: a  *)
(* shard of each part of the model per rank, the position of the data      *)
(* loader, and last the tracker file that names the step to restart from.  *)
(* A job may die at any time; what it had in memory is gone, files it had  *)
(* open are torn, and the next job resumes from what the tracker names     *)
(* (resume_mode "auto").                                                   *)
(*                                                                         *)
(* Abstracted: a part of the model is the number of updates made to it,    *)
(* the data loader the number of batches it has given; rollouts, rewards   *)
(* and validation, which change neither, are left out. The data loader has *)
(* a batch for every step: total_epochs does not end a job before its last *)
(* step.                                                                   *)
(***************************************************************************)
EXTENDS Integers, Sequences, FiniteSets

CONSTANTS
  Ranks,         \* the processes of the worker group, each with its shard
  UseCritic,     \* there is a critic to train and save next to the actor
  TotalSteps,    \* total_training_steps
  SaveFreq,      \* save_freq; not positive: never save
  KeepActor,     \* max_actor_ckpt_to_keep; 0: keep all
  KeepCritic,    \* max_critic_ckpt_to_keep
  CriticWarmup,  \* critic_warmup: the first step that updates the actor
  SftEnabled,    \* sft_loss.enable
  SftSize,       \* sft_data_max_size
  SftWarmup,     \* sft_loss.warmup_steps
  Expires,       \* the machine's lease may be about to expire (ESI)
  MaxRuns        \* bound: jobs started

ASSUME TrainerAssumption ==
  /\ IsFiniteSet(Ranks) /\ Ranks # {}
  /\ UseCritic \in BOOLEAN /\ SftEnabled \in BOOLEAN /\ Expires \in BOOLEAN
  /\ TotalSteps \in Nat \ {0} /\ SftSize \in Nat \ {0}
  /\ SaveFreq \in Int /\ KeepActor \in Nat /\ KeepCritic \in Nat
  /\ CriticWarmup \in Nat /\ SftWarmup \in Nat /\ MaxRuns \in Nat

\* A job that finished and is started again trains one step more.
Steps == 1 .. TotalSteps + MaxRuns

\* The parts of the model; the actor is saved first.
Parts == IF UseCritic THEN {"actor", "critic"} ELSE {"actor"}

VARIABLES
  \* in memory
  pc,        \* what the job is doing
  step,      \* global_steps
  position,  \* batches the data loader has given
  updates,   \* updates made to each part by reinforcement learning
  sft,       \* rounds of supervised fine-tuning the actor has had
  hasSft,    \* has_sft
  buffer,    \* sft_dataset_buffer_size
  part,      \* the part of the model being saved
  saved,     \* previous_saved_paths of each part
  \* on disk
  shard,     \* the file of each step, part and rank
  data,      \* data.pt of each step
  tracker,   \* latest_checkpointed_iteration.txt
  \* auxiliary
  run,       \* jobs started
  finished,  \* jobs that came to their last step
  lastSaved  \* the step of the last save that finished

learned == <<position, updates, sft, hasSft, buffer>>
disk == <<shard, data, tracker>>
history == <<run, finished, lastSaved>>
vars == <<pc, step, learned, part, saved, disk, history>>

\* A file: is it there, which job wrote it, and what it says.
NoFile == [is |-> "none", run |-> 0, at |-> 0, sft |-> 0]
Torn == [is |-> "torn", run |-> run, at |-> 0, sft |-> 0]
Whole(at, k) == [is |-> "whole", run |-> run, at |-> at, sft |-> k]

Init ==
  /\ pc = "down" /\ step = 0 /\ part = "actor"
  /\ position = 0 /\ updates = [p \in Parts |-> 0] /\ sft = 0
  /\ hasSft = FALSE /\ buffer = 0
  /\ saved = [p \in Parts |-> <<>>]
  /\ shard = [f \in Steps \X Parts \X Ranks |-> NoFile]
  /\ data = [s \in Steps |-> NoFile]
  /\ tracker = NoFile
  /\ run = 0 /\ finished = 0 /\ lastSaved = 0

-----------------------------------------------------------------------------
(* A job starts: _load_checkpoint.                                         *)

Start ==
  /\ pc \in {"down", "done"} /\ run < MaxRuns
  /\ run' = run + 1
  /\ hasSft' = ~SftEnabled /\ buffer' = 0
  /\ saved' = [p \in Parts |-> <<>>]
  /\ part' = "actor"
  /\ UNCHANGED <<disk, finished, lastSaved>>

\* Training from scratch.
StartFresh ==
  /\ Start
  /\ tracker.is = "none"
  /\ pc' = "step" /\ step' = 1
  /\ position' = 0 /\ updates' = [p \in Parts |-> 0] /\ sft' = 0

Loadable(s) ==
  /\ \A p \in Parts, r \in Ranks : shard[<<s, p, r>>].is = "whole"
  /\ data[s].is # "torn"

\* Without a data.pt the loader starts from its first batch.
Resume ==
  /\ Start
  /\ tracker.is = "whole" /\ Loadable(tracker.at)
  /\ pc' = "step" /\ step' = tracker.at + 1
  /\ position' = data[tracker.at].at
  /\ \E r \in Ranks :
       /\ updates' = [p \in Parts |-> shard[<<tracker.at, p, r>>].at]
       /\ sft' = shard[<<tracker.at, "actor", r>>].sft

\* The tracker is empty, or a file of its checkpoint is gone: the job raises,
\* and so will the next.
FailToStart ==
  /\ Start
  /\ tracker.is # "none"
  /\ tracker.is = "whole" => ~Loadable(tracker.at)
  /\ pc' = "broken"
  /\ UNCHANGED <<step, position, updates, sft>>

-----------------------------------------------------------------------------
(* One step of training.                                                   *)

\* [mutant] the last step is the one that hits the total exactly.
IsLastExactly(s) == s = TotalSteps

IsLast(s) == s >= TotalSteps

SaveDue(expiring) ==
  /\ SaveFreq > 0
  /\ IsLast(step) \/ step % SaveFreq = 0 \/ expiring

\* After its last step the job ends.
GoOn ==
  /\ pc' = IF IsLast(step) THEN "done" ELSE "step"
  /\ step' = step + 1
  /\ finished' = finished + (IF IsLast(step) THEN 1 ELSE 0)

FineTune ==
  /\ sft' = sft + 1
  /\ hasSft' = TRUE /\ buffer' = 0

\* Supervised fine-tuning, as soon as enough samples have been collected.
LearnFrom(collected) ==
  IF SftEnabled /\ ~hasSft /\ step >= SftWarmup /\ collected >= SftSize
    THEN FineTune
    ELSE /\ buffer' = IF hasSft THEN 0 ELSE collected
         /\ UNCHANGED <<sft, hasSft>>

\* The critic is updated, and after its warm-up so is the actor, unless it
\* still waits for its fine-tuning.
Update ==
  updates' = [p \in Parts |->
    IF p = "critic" \/ (hasSft /\ CriticWarmup <= step)
      THEN updates[p] + 1 ELSE updates[p]]

\* A batch is rolled out, scored and learned from; then the checkpoint is
\* saved, when it is due.
TrainStep ==
  /\ pc = "step"
  /\ position' = position + 1
  /\ Update
  /\ \E samples \in {0, 1} : LearnFrom(buffer + samples)
  /\ \E expiring \in {FALSE, Expires} :
       IF SaveDue(expiring)
         THEN pc' = "rotate" /\ part' = "actor" /\ UNCHANGED <<step, finished>>
         ELSE GoOn /\ UNCHANGED part
  /\ UNCHANGED <<saved, disk, run, lastSaved>>

-----------------------------------------------------------------------------
(* A save: _save_checkpoint, and save_checkpoint of each worker.           *)

Keep(p) == IF p = "actor" THEN KeepActor ELSE KeepCritic

\* [mutant] rotation leaves room for no other checkpoint.
RemovedAll(p) == Len(saved[p])

\* [mutant] rotation does not make room for the one to come.
RemovedTooFew(p) == Len(saved[p]) - Keep(p)

\* How many of the oldest checkpoints rotation removes, to keep Keep - 1.
Removed(p) == Len(saved[p]) - Keep(p) + 1

RotationDue == Keep(part) > 0 /\ Len(saved[part]) >= Keep(part)
Gone == {saved[part][i] : i \in 1 .. Removed(part)}

\* The first rank removes them before anything is written, a file at a time
\* and in any order (rmtree).
RemoveShard(r) ==
  /\ pc = "rotate" /\ RotationDue
  /\ \E s \in Gone :
       /\ shard[<<s, part, r>>] # NoFile
       /\ shard' = [shard EXCEPT ![<<s, part, r>>] = NoFile]
  /\ UNCHANGED <<pc, step, learned, part, saved, data, tracker, history>>

\* Nothing is left of them: they go off the list, and all ranks may write.
Rotate ==
  /\ pc = "rotate"
  /\ pc' = "shards"
  /\ IF RotationDue
       THEN /\ \A s \in Gone, r \in Ranks : shard[<<s, part, r>>] = NoFile
            /\ saved' = [saved EXCEPT ![part] = SubSeq(@, Removed(part) + 1, Len(@))]
       ELSE UNCHANGED saved
  /\ UNCHANGED <<step, learned, part, disk, history>>

Mine(r) == <<step, part, r>>

OpenShard(r) ==
  /\ pc = "shards"
  /\ shard[Mine(r)].run # run
  /\ shard' = [shard EXCEPT ![Mine(r)] = Torn]
  /\ UNCHANGED <<pc, step, learned, part, saved, data, tracker, history>>

CloseShard(r) ==
  /\ pc = "shards"
  /\ shard[Mine(r)] = Torn
  /\ shard' = [shard EXCEPT ![Mine(r)] = Whole(updates[part], sft)]
  /\ UNCHANGED <<pc, step, learned, part, saved, data, tracker, history>>

\* [mutant] no data.pt is written: the tracker comes right after the shards.
PartSavedWithoutData ==
  /\ pc = "shards"
  /\ \A r \in Ranks : shard[Mine(r)] = Whole(updates[part], sft)
  /\ saved' = [saved EXCEPT ![part] = Append(@, step)]
  /\ IF part = "actor" /\ UseCritic THEN pc' = "rotate" /\ part' = "critic"
                                    ELSE pc' = "tracker" /\ UNCHANGED part
  /\ UNCHANGED <<step, learned, disk, history>>

\* [mutant] there is no barrier: a rank that is done goes on without the others.
PartSavedByOne ==
  /\ pc = "shards"
  /\ \E r \in Ranks : shard[Mine(r)] = Whole(updates[part], sft)
  /\ saved' = [saved EXCEPT ![part] = Append(@, step)]
  /\ IF part = "actor" /\ UseCritic THEN pc' = "rotate" /\ part' = "critic"
                                    ELSE pc' = "data" /\ UNCHANGED part
  /\ UNCHANGED <<step, learned, disk, history>>

\* All ranks have passed the barrier.
PartSaved ==
  /\ pc = "shards"
  /\ \A r \in Ranks : shard[Mine(r)] = Whole(updates[part], sft)
  /\ saved' = [saved EXCEPT ![part] = Append(@, step)]
  /\ IF part = "actor" /\ UseCritic THEN pc' = "rotate" /\ part' = "critic"
                                    ELSE pc' = "data" /\ UNCHANGED part
  /\ UNCHANGED <<step, learned, disk, history>>

OpenData ==
  /\ pc = "data"
  /\ data[step].run # run
  /\ data' = [data EXCEPT ![step] = Torn]
  /\ UNCHANGED <<pc, step, learned, part, saved, shard, tracker, history>>

CloseData ==
  /\ pc = "data"
  /\ data[step] = Torn
  /\ data' = [data EXCEPT ![step] = Whole(position, 0)]
  /\ pc' = "tracker"
  /\ UNCHANGED <<step, learned, part, saved, shard, tracker, history>>

\* Opening the tracker for writing empties it.
OpenTracker ==
  /\ pc = "tracker"
  /\ tracker # Torn
  /\ tracker' = Torn
  /\ UNCHANGED <<pc, step, learned, part, saved, shard, data, history>>

CloseTracker ==
  /\ pc = "tracker"
  /\ tracker = Torn
  /\ tracker' = Whole(step, 0)
  /\ lastSaved' = step
  /\ GoOn
  /\ UNCHANGED <<learned, part, saved, shard, data, run>>

-----------------------------------------------------------------------------
\* The job dies; what it had in memory is gone.
Crash ==
  /\ pc \in {"step", "rotate", "shards", "data", "tracker"}
  /\ pc' = "down" /\ step' = 0 /\ part' = "actor"
  /\ position' = 0 /\ updates' = [p \in Parts |-> 0] /\ sft' = 0
  /\ hasSft' = FALSE /\ buffer' = 0
  /\ saved' = [p \in Parts |-> <<>>]
  /\ UNCHANGED <<disk, history>>

Next ==
  \/ StartFresh \/ Resume \/ FailToStart
  \/ TrainStep
  \/ Rotate \/ PartSaved
  \/ \E r \in Ranks : RemoveShard(r) \/ OpenShard(r) \/ CloseShard(r)
  \/ OpenData \/ CloseData \/ OpenTracker \/ CloseTracker
  \/ Crash

Spec == Init /\ [][Next]_vars

-----------------------------------------------------------------------------
Running == pc \in {"step", "rotate", "shards", "data", "tracker"}

Files == [is : {"none", "torn", "whole"}, run : 0 .. MaxRuns, at : Nat, sft : Nat]

TypeOK ==
  /\ pc \in {"down", "done", "broken", "step", "rotate", "shards", "data", "tracker"}
  /\ Running => step \in Steps
  /\ position \in Nat /\ updates \in [Parts -> Nat] /\ sft \in Nat
  /\ hasSft \in BOOLEAN /\ buffer \in Nat
  /\ part \in Parts
  /\ saved \in [Parts -> Seq(Steps)]
  /\ shard \in [Steps \X Parts \X Ranks -> Files]
  /\ data \in [Steps -> Files]
  /\ tracker \in Files
  /\ run \in 0 .. MaxRuns /\ finished \in 0 .. MaxRuns
  /\ lastSaved \in Steps \cup {0}

\* The checkpoint of step s: every shard and the loader's position, all from
\* one save.
Complete(s) ==
  /\ data[s].is = "whole"
  /\ \A p \in Parts, r \in Ranks :
       /\ shard[<<s, p, r>>].is = "whole"
       /\ shard[<<s, p, r>>].run = data[s].run
       /\ \A q \in Ranks : shard[<<s, p, r>>] = shard[<<s, p, q>>]

\* Whatever the tracker names is all there, wherever a job died, unless a
\* save removes the only checkpoint first.
TrackedIsComplete ==
  (\A p \in Parts : Keep(p) # 1) /\ tracker.is = "whole" => Complete(tracker.at)

\* The checkpoint the tracker names can be restarted from.
TrackerRestarts ==
  pc = "down" /\ tracker.is = "whole" => Loadable(tracker.at)

\* The data loader goes on where the model stopped, across restarts: every
\* batch before this step was given once, the critic has been updated with
\* each of them, and the actor with those after its warm-up; where it waits
\* for its fine-tuning, with none before that.
InStep ==
  pc = "step" =>
    /\ position = step - 1
    /\ UseCritic => updates["critic"] = position
    /\ IF SftEnabled
         THEN updates["actor"] <= position - CriticWarmup + 1 \/ updates["actor"] = 0
         ELSE updates["actor"] = Cardinality(CriticWarmup .. position \ {0})
    /\ SftEnabled /\ sft = 0 => updates["actor"] = 0

\* A job resumes after the last save that finished, and never before it.
NothingLost ==
  [][~Running /\ pc' = "step" => step' = lastSaved + 1]_vars

\* Rotation keeps at most Keep checkpoints of each job; it forgets those of
\* the jobs before.
KeptPerRun ==
  \A p \in Parts : Keep(p) > 0 =>
    Cardinality({s \in Steps : \E r \in Ranks : shard[<<s, p, r>>].is # "none"})
      <= Keep(p) * run

\* Training ends at TotalSteps; a job that is started again after that makes
\* one step more.
OverrunPaid == Running => step <= TotalSteps + finished

\* What a job has learned: all of it that a checkpoint holds.
Lesson(batches, counts, rounds) ==
  [position |-> batches, updates |-> counts, sft |-> rounds]

InMemory == IF Running THEN {Lesson(position, updates, sft)} ELSE {}

\* What a job would start with; all ranks load the same.
Loaded(s, r) ==
  Lesson(data[s].at, [p \in Parts |-> shard[<<s, p, r>>].at], shard[<<s, "actor", r>>].sft)

OnDisk ==
  IF tracker.is = "none" THEN {Lesson(0, [p \in Parts |-> 0], 0)}
  ELSE IF tracker.is = "whole" /\ Loadable(tracker.at)
    THEN {Loaded(tracker.at, CHOOSE r \in Ranks : TRUE)}
  ELSE {}

Snapshots == INSTANCE Checkpoints WITH
  Tunes <- SftEnabled, memory <- InMemory, tuned <- Running /\ hasSft,
  kept <- OnDisk, refused <- pc = "broken"

\* The shards, the loader's position and the tracker, written one after the
\* other by jobs that may die between any two of them, are one snapshot: every
\* step is a step of Checkpoints or changes nothing that was learned or kept.
ImplementsCheckpoints == Snapshots!CheckpointSpec

-----------------------------------------------------------------------------
(* The inductive invariants behind the theorems of TrainingProofs.          *)

\* Part p has been saved by the save under way.
PartDone(p) ==
  \/ pc \in {"data", "tracker"}
  \/ pc \in {"rotate", "shards"} /\ p = "actor" /\ part = "critic"

CountsOK ==
  /\ finished <= run
  /\ Running => finished < run /\ step <= TotalSteps + finished
  /\ lastSaved + 1 <= TotalSteps + finished

TrackerOK ==
  /\ tracker.is = "none" => lastSaved = 0
  /\ tracker.is = "whole" => tracker.at = lastSaved /\ tracker.at \in Steps
  /\ Running /\ tracker.is = "whole" => tracker.at < step
  /\ Running /\ pc # "tracker" => tracker.is # "torn"

\* A job lists the steps it has saved; only the last of a list can be the one
\* the tracker names or, once its part is saved, the present one.
SavedOK ==
  Running => \A p \in Parts : \A i \in 1 .. Len(saved[p]) :
    /\ saved[p][i] <= step
    /\ saved[p][i] = step => PartDone(p) /\ i = Len(saved[p])
    /\ tracker.is = "whole" /\ saved[p][i] = tracker.at
         => PartDone(p) \/ i = Len(saved[p])

WrittenOK ==
  Running =>
    /\ \A p \in Parts : PartDone(p) =>
         \A r \in Ranks : shard[<<step, p, r>>] = Whole(updates[p], sft)
    /\ pc = "tracker" => data[step] = Whole(position, 0)

IInv ==
  /\ TypeOK /\ CountsOK /\ TrackerOK /\ SavedOK /\ WrittenOK
  /\ TrackedIsComplete

\* What the batches up to step s leave of part p, when the actor has had
\* rounds of fine-tuning: the number of its updates.
UpdatedBy(p, s, number, rounds) ==
  IF p = "critic" THEN number = s
  ELSE IF SftEnabled
         THEN /\ number = 0 \/ number <= s - CriticWarmup + 1
              /\ rounds = 0 => number = 0
         ELSE number = Cardinality(CriticWarmup .. s \ {0})

\* A running job has given the batches up to this step, or the one before.
LearnedOK ==
  Running =>
    /\ position = IF pc = "step" THEN step - 1 ELSE step
    /\ \A p \in Parts : UpdatedBy(p, position, updates[p], sft)
    /\ IF SftEnabled THEN hasSft => sft # 0 ELSE hasSft

\* The files of the checkpoint the tracker names say what a job had learned
\* by that step; rotation may take some of them away, but nothing changes one.
TrackedOK ==
  tracker.is = "whole" =>
    /\ data[tracker.at].is = "whole" /\ data[tracker.at].at = tracker.at
    /\ \A p \in Parts, r \in Ranks : LET f == shard[<<tracker.at, p, r>>] IN
         f.is # "none" => f.is = "whole" /\ UpdatedBy(p, tracker.at, f.at, f.sft)

\* The ranks' shards in the checkpoint the tracker names say the same, where
\* rotation has left them; no job trains while that checkpoint is not all there.
AgreedOK ==
  tracker.is = "whole" =>
    /\ \A p \in Parts, r, q \in Ranks :
         LET f == shard[<<tracker.at, p, r>>]
             g == shard[<<tracker.at, p, q>>]
         IN f.is # "none" /\ g.is # "none" => f = g
    /\ pc = "step" => Loadable(tracker.at)

\* Steps of which there is a checkpoint of part p, all of it or some; of a
\* former job, and of this one.
Stored(p) == {s \in Steps : \E r \in Ranks : shard[<<s, p, r>>].is # "none"}
Old(p) == {s \in Steps : \E r \in Ranks :
             shard[<<s, p, r>>].is # "none" /\ shard[<<s, p, r>>].run # run}
Own(p) == {s \in Steps : \E r \in Ranks :
             shard[<<s, p, r>>].is # "none" /\ shard[<<s, p, r>>].run = run}

\* The checkpoints of this job are on its list, but for the one it writes.
KeptPart(p) ==
  /\ run > 0 => Cardinality(Old(p)) <= Keep(p) * (run - 1)
  /\ run = 0 => Stored(p) = {}
  /\ Cardinality(Own(p)) <= Keep(p)
  /\ Running =>
       /\ Len(saved[p]) + (IF pc = "shards" /\ part = p THEN 1 ELSE 0) <= Keep(p)
       /\ \A s \in Own(p) :
            \/ \E i \in 1 .. Len(saved[p]) : saved[p][i] = s
            \/ pc = "shards" /\ part = p /\ s = step

KeptOK ==
  /\ \A f \in DOMAIN shard : shard[f].run <= run
  /\ \A p \in Parts : Keep(p) > 0 => KeptPart(p)
=============================================================================
