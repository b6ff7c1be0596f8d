------------------------- MODULE TrainingProofs ---------------------------
(***************************************************************************)
(* Theorems about a training job, for any number of ranks, steps, jobs and *)
(* checkpoints to keep: its loop and its checkpoints (Trainer), the        *)
(* division of a batch among ranks (Balancing), for any lengths and any    *)
(* number of parts, and the rows of a batch on their way (BatchFlow), for  *)
(* any batch, any number of workers and devices and any lengths.           *)
(***************************************************************************)
EXTENDS Trainer, Balancing, BatchFlow, ListProofs

-----------------------------------------------------------------------------
(* The training loop and its checkpoints.  The inductive invariant is IInv *)
(* of Trainer: what makes rotation safe is that a job's list of saved      *)
(* steps can only end in the one the tracker names.  Two more rest on it:  *)
(* what was learned agrees in memory and in the checkpoint that is named   *)
(* (LearnedOK, TrackedOK), and each checkpoint of the present job is on    *)
(* its list (KeptOK).                                                      *)

LEMMA PartFacts == "actor" \in Parts /\ (UseCritic => "critic" \in Parts)
BY DEF Parts

\* What a save writes are files.
LEMMA FileFacts ==
  ASSUME TypeOK
  PROVE  /\ NoFile \in Files /\ Torn \in Files
         /\ NoFile.is = "none" /\ Torn.is = "torn"
         /\ \A k, l \in Nat : /\ Whole(k, l) \in Files
                              /\ Whole(k, l).is = "whole"
                              /\ Whole(k, l).at = k /\ Whole(k, l).run = run
BY TrainerAssumption DEF TypeOK, Files, NoFile, Torn, Whole

LEMMA InitHolds == Init => IInv
<1> SUFFICES ASSUME Init PROVE IInv
  OBVIOUS
<1>a. NoFile \in Files
  BY TrainerAssumption DEF NoFile, Files
<1>b. /\ saved \in [Parts -> Seq(Steps)]
      /\ shard \in [Steps \X Parts \X Ranks -> Files]
      /\ data \in [Steps -> Files] /\ tracker \in Files
  BY <1>a DEF Init
<1>c. /\ ~Running /\ pc = "down" /\ hasSft \in BOOLEAN /\ part \in Parts
      /\ position \in Nat /\ updates \in [Parts -> Nat] /\ sft \in Nat
      /\ buffer \in Nat
  BY PartFacts DEF Init, Running
<1>d. /\ run \in 0 .. MaxRuns /\ finished \in 0 .. MaxRuns
      /\ lastSaved \in Steps \cup {0}
  BY TrainerAssumption DEF Init
<1>1. TypeOK
  BY <1>b, <1>c, <1>d DEF TypeOK
<1> QED
  BY <1>1, TrainerAssumption
  DEF Init, IInv, CountsOK, TrackerOK, SavedOK, WrittenOK, TrackedIsComplete,
      Running, NoFile

-----------------------------------------------------------------------------
(* Starting a job.                                                         *)

LEMMA StartKeeps ==
  ASSUME IInv, Start, pc' \in {"step", "broken"},
         pc' = "step" => step' = lastSaved + 1 /\ tracker.is # "torn",
         position' \in Nat, updates' \in [Parts -> Nat], sft' \in Nat
  PROVE  IInv'
<1> USE DEF IInv, Start
<1>a. run' \in 0 .. MaxRuns /\ (pc' = "step" => step' \in Steps)
  BY TrainerAssumption DEF TypeOK, CountsOK, Steps
<1>b. saved' \in [Parts -> Seq(Steps)]
  OBVIOUS
<1>c. Files' = Files
  BY DEF Files
<1>1. TypeOK'
  BY <1>a, <1>b, <1>c, PartFacts DEF TypeOK, Running, disk
<1>2. CountsOK'
  BY TrainerAssumption DEF TypeOK, CountsOK, Running
<1>3. TrackerOK'
  BY DEF TypeOK, TrackerOK, Running, disk, Steps
<1>4. SavedOK'
  BY DEF SavedOK
<1>5. WrittenOK'
  BY DEF WrittenOK, PartDone, Running
<1>6. TrackedIsComplete'
  BY DEF TrackedIsComplete, Complete, disk
<1> QED BY <1>1, <1>2, <1>3, <1>4, <1>5, <1>6

\* A job that starts training starts after the last finished save.
LEMMA StartsAfterLast ==
  ASSUME IInv, StartFresh \/ Resume
  PROVE  step' = lastSaved + 1
BY DEF IInv, TrackerOK, StartFresh, Resume

LEMMA StartFreshKeeps == ASSUME IInv, StartFresh PROVE IInv'
<1>1. /\ position' \in Nat /\ updates' \in [Parts -> Nat] /\ sft' \in Nat
      /\ pc' = "step" /\ tracker.is # "torn" /\ Start
  BY DEF StartFresh
<1> QED BY <1>1, StartKeeps, StartsAfterLast

LEMMA ResumeKeeps == ASSUME IInv, Resume PROVE IInv'
<1>1. tracker.at \in Steps
  BY DEF IInv, TrackerOK, Resume
<1>2. /\ \A p \in Parts, r \in Ranks : shard[<<tracker.at, p, r>>] \in Files
      /\ data[tracker.at] \in Files
  BY <1>1 DEF IInv, TypeOK
<1>3. \A f \in Files : f.at \in Nat /\ f.sft \in Nat
  BY DEF Files
<1>4. /\ position' \in Nat /\ updates' \in [Parts -> Nat] /\ sft' \in Nat
      /\ pc' = "step" /\ tracker.is # "torn" /\ Start
  BY <1>2, <1>3, PartFacts DEF Resume
<1> QED BY <1>4, StartKeeps, StartsAfterLast

LEMMA FailToStartKeeps == ASSUME IInv, FailToStart PROVE IInv'
<1>1. /\ position' \in Nat /\ updates' \in [Parts -> Nat] /\ sft' \in Nat
      /\ pc' = "broken" /\ Start
  BY DEF FailToStart, IInv, TypeOK
<1> QED BY <1>1, StartKeeps

-----------------------------------------------------------------------------
(* Training.                                                               *)

LEMMA GoOnFacts ==
  ASSUME IInv, Running, GoOn
  PROVE  /\ pc' \in {"step", "done"} /\ step' = step + 1
         /\ finished' \in 0 .. MaxRuns /\ finished' <= run
         /\ step + 1 <= TotalSteps + finished'
         /\ pc' = "step" => /\ step' \in Steps /\ finished' < run
                            /\ step' <= TotalSteps + finished'
<1>1. /\ step \in Steps /\ run \in 0 .. MaxRuns /\ finished \in 0 .. MaxRuns
      /\ finished < run /\ step <= TotalSteps + finished
  BY DEF IInv, TypeOK, CountsOK
<1>2. CASE IsLast(step)
  BY <1>1, <1>2, TrainerAssumption DEF GoOn, IsLast, Steps
<1>3. CASE ~IsLast(step)
  BY <1>1, <1>3, TrainerAssumption DEF GoOn, IsLast, Steps
<1> QED BY <1>2, <1>3

LEMMA TrainStepKeeps == ASSUME IInv, TrainStep PROVE IInv'
<1> USE DEF IInv
<1>0. /\ pc = "step" /\ Running
      /\ UNCHANGED <<saved, disk, run, lastSaved>>
  BY DEF TrainStep, Running
<1>1. \/ pc' = "rotate" /\ part' = "actor" /\ UNCHANGED <<step, finished>>
      \/ GoOn /\ UNCHANGED part
  BY DEF TrainStep
<1>2. /\ pc' \in {"rotate", "step", "done"}
      /\ finished' \in 0 .. MaxRuns /\ finished' <= run /\ finished <= finished'
      /\ Running' => /\ step' \in Steps /\ step <= step' /\ finished' < run
                     /\ step' <= TotalSteps + finished'
                     /\ step' = step \/ step' = step + 1
      /\ part' \in Parts /\ (pc' = "rotate" => part' = "actor")
  <2>1. CASE pc' = "rotate" /\ part' = "actor" /\ UNCHANGED <<step, finished>>
    BY <1>0, <2>1, PartFacts DEF TypeOK, CountsOK, Steps
  <2>2. CASE GoOn /\ UNCHANGED part
    <3>1. finished <= finished'
      BY <2>2 DEF GoOn, TypeOK
    <3>2. pc' \in {"step", "done"} /\ part' \in Parts /\ (Running' => pc' = "step")
      BY <1>0, <2>2, GoOnFacts DEF Running, TypeOK
    <3>3. finished' \in 0 .. MaxRuns /\ finished' <= run /\ step' = step + 1
      BY <1>0, <2>2, GoOnFacts
    <3>4. Running' => /\ step' \in Steps /\ finished' < run
                      /\ step' <= TotalSteps + finished'
      BY <1>0, <2>2, <3>2, GoOnFacts
    <3>5. step <= step + 1
      BY <1>0 DEF TypeOK, Steps
    <3>6. pc' # "rotate"
      BY <3>2
    <3>7. pc' \in {"rotate", "step", "done"}
      BY <3>2
    <3> HIDE DEF IInv
    <3> QED BY <3>1, <3>2, <3>3, <3>4, <3>5, <3>6, <3>7
  <2> QED BY <1>1, <2>1, <2>2
<1>3. hasSft' \in BOOLEAN /\ buffer' \in Nat /\ sft' \in Nat
  <2>1. PICK samples \in {0, 1} : LearnFrom(buffer + samples)
    BY DEF TrainStep
  <2>2. hasSft \in BOOLEAN /\ sft \in Nat /\ buffer + samples \in Nat
    BY DEF TypeOK
  <2>3. \/ sft' = sft + 1 /\ hasSft' = TRUE /\ buffer' = 0
        \/ buffer' \in {0, buffer + samples} /\ sft' = sft /\ hasSft' = hasSft
    BY <2>1 DEF LearnFrom, FineTune
  <2>4. hasSft' \in BOOLEAN
    BY <2>2, <2>3
  <2>5. buffer' \in Nat /\ sft' \in Nat
    BY <2>2, <2>3
  <2> QED BY <2>4, <2>5
<1>4. position' \in Nat /\ updates' \in [Parts -> Nat]
  BY DEF TrainStep, Update, TypeOK
<1>5. TypeOK'
  <2>1. Files' = Files
    BY DEF Files
  <2> QED BY <1>0, <1>2, <1>3, <1>4, <2>1 DEF TypeOK, disk
<1>6. CountsOK'
  <2>1. lastSaved \in Nat /\ finished \in Nat /\ lastSaved' = lastSaved /\ run' = run
    BY <1>0 DEF TypeOK, Steps
  <2>2. lastSaved + 1 <= TotalSteps + finished /\ TotalSteps \in Nat /\ MaxRuns \in Nat
    BY TrainerAssumption DEF CountsOK
  <2>3. finished' \in Nat /\ finished <= finished'
    BY <1>2, <2>2
  <2>4. lastSaved + 1 <= TotalSteps + finished'
    <3> HIDE DEF IInv
    <3>1. \A a, b, c, d \in Nat : a + 1 <= b + c /\ c <= d => a + 1 <= b + d
      OBVIOUS
    <3> QED BY <2>1, <2>2, <2>3, <3>1
  <2> QED BY <1>2, <2>1, <2>4 DEF CountsOK
<1>7. TrackerOK'
  BY <1>0, <1>2 DEF TrackerOK, TypeOK, disk, Steps, Running
<1>8. ~PartDone("actor") /\ ~PartDone("critic")
  BY <1>0 DEF PartDone
<1>9. \A p \in Parts : ~PartDone(p) /\ ~PartDone(p)'
  BY <1>0, <1>2 DEF PartDone
<1>10. SavedOK'
  <2> SUFFICES ASSUME Running', NEW p \in Parts, NEW i \in 1 .. Len(saved[p])
               PROVE  /\ saved[p][i] <= step' /\ saved[p][i] # step'
                      /\ tracker.is = "whole" /\ saved[p][i] = tracker.at
                           => i = Len(saved[p])
    BY <1>0 DEF SavedOK, disk
  <2>1. /\ saved[p][i] <= step /\ saved[p][i] # step
        /\ tracker.is = "whole" /\ saved[p][i] = tracker.at => i = Len(saved[p])
    BY <1>0, <1>9 DEF SavedOK
  <2>2. saved[p] \in Seq(Steps) /\ saved[p][i] \in Steps
    BY ElementOfSeq DEF TypeOK
  <2> QED BY <1>0, <1>2, <2>1, <2>2 DEF Steps, TypeOK
<1>11. WrittenOK'
  BY <1>2, <1>9 DEF WrittenOK, Running
<1>12. TrackedIsComplete'
  BY <1>0 DEF TrackedIsComplete, Complete, disk
<1> QED BY <1>5, <1>6, <1>7, <1>10, <1>11, <1>12

-----------------------------------------------------------------------------
(* Saving.                                                                 *)

\* The checkpoint the tracker names is not the one being written.
LEMMA TrackedIsOlder ==
  ASSUME IInv, Running, tracker.is = "whole"
  PROVE  tracker.at \in Steps /\ tracker.at # step /\ step \in Steps
BY DEF IInv, TrackerOK, TypeOK, Steps

\* A step of a save that lets the counts, the tracker and the lists alone.
LEMMA WriteKeepsRest ==
  ASSUME IInv, Running, pc \in {"shards", "data"}, pc' \in {"shards", "data", "tracker"},
         pc' = pc \/ (pc = "data" /\ pc' = "tracker"),
         UNCHANGED <<step, part, saved, tracker, history>>
  PROVE  CountsOK' /\ TrackerOK' /\ SavedOK' /\ Running'
         /\ \A p \in Parts : PartDone(p)' <=> PartDone(p)
<1> USE DEF IInv, history
<1>1. Running' /\ \A p \in Parts : PartDone(p)' <=> PartDone(p)
  BY DEF Running, PartDone
<1>2. CountsOK'
  BY <1>1 DEF CountsOK
<1>3. TrackerOK'
  BY <1>1 DEF TrackerOK, Running
<1>4. SavedOK'
  BY <1>1 DEF SavedOK
<1> QED BY <1>1, <1>2, <1>3, <1>4

\* Writing a shard of the part that is being saved.
LEMMA ShardKeeps ==
  ASSUME IInv, pc = "shards", NEW r \in Ranks, NEW f \in Files,
         shard' = [shard EXCEPT ![Mine(r)] = f],
         UNCHANGED <<pc, step, learned, part, saved, data, tracker, history>>
  PROVE  IInv'
<1> USE DEF IInv
<1>0. Running /\ step \in Steps /\ part \in Parts
  BY DEF Running, TypeOK
<1>1. CountsOK' /\ TrackerOK' /\ SavedOK' /\ Running'
      /\ \A p \in Parts : PartDone(p)' <=> PartDone(p)
  BY <1>0, WriteKeepsRest
<1>2. Files' = Files
  BY DEF Files
<1>3. shard' \in [Steps \X Parts \X Ranks -> Files]
  BY <1>0 DEF TypeOK, Mine
<1>4. TypeOK'
  BY <1>1, <1>2, <1>3 DEF TypeOK, history, learned, Running
<1>5. \A s \in Steps, p \in Parts, q \in Ranks :
        <<s, p, q>> # Mine(r) => shard'[<<s, p, q>>] = shard[<<s, p, q>>]
  BY DEF TypeOK
<1>6. WrittenOK'
  <2>1. ~PartDone(part)
    BY DEF PartDone, TypeOK
  <2>2. \A p \in Parts, q \in Ranks : PartDone(p) => shard'[<<step, p, q>>] = shard[<<step, p, q>>]
    BY <1>0, <1>5, <2>1 DEF Mine
  <2>3. Whole(0, 0)' = Whole(0, 0) /\ \A k, l \in Nat : Whole(k, l)' = Whole(k, l)
    BY DEF Whole, history
  <2> QED BY <1>0, <1>1, <2>2, <2>3 DEF WrittenOK, TypeOK, learned, Running
<1>7. TrackedIsComplete'
  <2> SUFFICES ASSUME \A p \in Parts : Keep(p) # 1, tracker.is = "whole"
               PROVE  Complete(tracker.at)'
    BY DEF TrackedIsComplete, Keep
  <2>1. tracker.at \in Steps /\ tracker.at # step
    BY <1>0, TrackedIsOlder
  <2>2. \A p \in Parts, q \in Ranks :
          shard'[<<tracker.at, p, q>>] = shard[<<tracker.at, p, q>>]
    BY <2>1, <1>5 DEF Mine
  <2> QED BY <2>1, <2>2 DEF TrackedIsComplete, Complete
<1> QED BY <1>1, <1>4, <1>6, <1>7

LEMMA OpenShardKeeps == ASSUME IInv, NEW r \in Ranks, OpenShard(r) PROVE IInv'
BY ShardKeeps, FileFacts DEF OpenShard, IInv

LEMMA CloseShardKeeps == ASSUME IInv, NEW r \in Ranks, CloseShard(r) PROVE IInv'
<1>1. Whole(updates[part], sft) \in Files
  BY FileFacts DEF IInv, TypeOK
<1> QED BY <1>1, ShardKeeps DEF CloseShard
LEMMA DataKeeps ==
  ASSUME IInv, pc = "data", NEW f \in Files,
         data' = [data EXCEPT ![step] = f],
         pc' \in {"data", "tracker"},
         pc' = "tracker" => f = Whole(position, 0),
         UNCHANGED <<step, learned, part, saved, shard, tracker, history>>
  PROVE  IInv'
<1> USE DEF IInv
<1>0. Running /\ step \in Steps
  BY DEF Running, TypeOK
<1>1. CountsOK' /\ TrackerOK' /\ SavedOK' /\ Running'
      /\ \A p \in Parts : PartDone(p)' <=> PartDone(p)
  BY <1>0, WriteKeepsRest
<1>2. Files' = Files
  BY DEF Files
<1>3. data' \in [Steps -> Files] /\ data'[step] = f
      /\ \A s \in Steps : s # step => data'[s] = data[s]
  BY <1>0 DEF TypeOK
<1>4. TypeOK'
  BY <1>1, <1>2, <1>3 DEF TypeOK, history, learned, Running
<1>5. WrittenOK'
  <2>1. \A k, l \in Nat : Whole(k, l)' = Whole(k, l)
    BY DEF Whole, history
  <2>2. Whole(position, 0)' = Whole(position, 0)
    BY DEF Whole, history, learned
  <2>3. \A p \in Parts : Whole(updates[p], sft)' = Whole(updates[p], sft)
    BY DEF Whole, history, learned
  <2> QED BY <1>0, <1>1, <1>3, <2>2, <2>3 DEF WrittenOK
<1>6. TrackedIsComplete'
  <2> SUFFICES ASSUME \A p \in Parts : Keep(p) # 1, tracker.is = "whole"
               PROVE  Complete(tracker.at)'
    BY DEF TrackedIsComplete, Keep
  <2>1. tracker.at \in Steps /\ tracker.at # step
    BY <1>0, TrackedIsOlder
  <2> QED BY <1>3, <2>1 DEF TrackedIsComplete, Complete
<1> QED BY <1>1, <1>4, <1>5, <1>6

LEMMA OpenDataKeeps == ASSUME IInv, OpenData PROVE IInv'
BY DataKeeps, FileFacts DEF OpenData, IInv

LEMMA CloseDataKeeps == ASSUME IInv, CloseData PROVE IInv'
<1>1. Whole(position, 0) \in Files
  BY FileFacts DEF IInv, TypeOK
<1> QED BY <1>1, DataKeeps DEF CloseData

\* A part that is saved joins the list of its checkpoints.
LEMMA PartSavedKeeps == ASSUME IInv, PartSaved PROVE IInv'
<1> USE DEF IInv
<1>0. /\ pc = "shards" /\ Running /\ step \in Steps /\ part \in Parts
      /\ UNCHANGED <<step, learned, disk, history>>
  BY DEF PartSaved, Running, TypeOK
<1>1. \/ part = "actor" /\ pc' = "rotate" /\ part' = "critic" /\ UseCritic
      \/ (part = "actor" => ~UseCritic) /\ pc' = "data" /\ part' = part
  BY DEF PartSaved
<1>2. /\ Running' /\ part' \in Parts /\ pc' \in {"rotate", "data"}
  BY <1>0, <1>1, PartFacts DEF Running
<1>3. \A p \in Parts : IF p = part THEN PartDone(p)' /\ ~PartDone(p)
                                   ELSE PartDone(p)' <=> PartDone(p)
  <2>1. CASE part = "actor"
    BY <1>0, <1>1, <2>1 DEF PartDone, Parts
  <2>2. CASE part = "critic"
    BY <1>0, <1>1, <2>2 DEF PartDone, Parts
  <2> QED BY <1>0, <2>1, <2>2 DEF Parts
<1>4. /\ \A p \in Parts : saved[p] \in Seq(Steps)
      /\ saved' \in [Parts -> Seq(Steps)]
      /\ saved'[part] = Append(saved[part], step)
      /\ \A p \in Parts : p # part => saved'[p] = saved[p]
  BY <1>0, AppendProperties DEF PartSaved, TypeOK
<1>5. Files' = Files
  BY DEF Files
<1>6. TypeOK'
  BY <1>0, <1>2, <1>4, <1>5 DEF TypeOK, disk, history, learned
<1>7. CountsOK'
  BY <1>0, <1>2 DEF CountsOK, history
<1>8. TrackerOK'
  BY <1>0, <1>2 DEF TrackerOK, history, disk, Running
<1>9. SavedOK'
  <2> SUFFICES ASSUME NEW p \in Parts, NEW i \in 1 .. Len(saved'[p])
               PROVE  /\ saved'[p][i] <= step
                      /\ saved'[p][i] = step => PartDone(p)' /\ i = Len(saved'[p])
                      /\ tracker.is = "whole" /\ saved'[p][i] = tracker.at
                           => PartDone(p)' \/ i = Len(saved'[p])
    BY <1>0 DEF SavedOK, disk
  <2>1. CASE p # part
    BY <1>0, <1>3, <1>4, <2>1 DEF SavedOK
  <2>2. CASE p = part
    <3>1. /\ Len(saved[p]) \in Nat /\ Len(saved'[p]) = Len(saved[p]) + 1
          /\ saved'[p][Len(saved[p]) + 1] = step
          /\ \A j \in 1 .. Len(saved[p]) : saved'[p][j] = saved[p][j]
      BY <1>0, <1>4, <2>2, AppendProperties, LenProperties
    <3>2. CASE i = Len(saved[p]) + 1
      BY <1>0, <1>3, <2>2, <3>1, <3>2 DEF Steps
    <3>3. CASE i \in 1 .. Len(saved[p])
      BY <1>0, <1>3, <2>2, <3>1, <3>3 DEF SavedOK
    <3> QED BY <3>1, <3>2, <3>3
  <2> QED BY <2>1, <2>2
<1>10. WrittenOK'
  <2>1. \A p \in Parts : Whole(updates[p], sft)' = Whole(updates[p], sft)
    BY <1>0 DEF Whole, history, learned
  <2>2. \A r \in Ranks : shard[<<step, part, r>>] = Whole(updates[part], sft)
    BY DEF PartSaved, Mine
  <2>3. \A p \in Parts : PartDone(p)' => p = part \/ PartDone(p)
    BY <1>3
  <2> QED BY <1>0, <1>2, <2>1, <2>2, <2>3 DEF WrittenOK, disk
<1>11. TrackedIsComplete'
  BY <1>0 DEF TrackedIsComplete, Complete, disk
<1> QED BY <1>6, <1>7, <1>8, <1>9, <1>10, <1>11
\* Rotation takes checkpoints from the front of the list and leaves its end.
LEMMA RotateFacts ==
  ASSUME IInv, Rotate, NEW p \in Parts
  PROVE  /\ saved'[p] \in Seq(Steps)
         /\ \A i \in 1 .. Len(saved'[p]) : \E j \in 1 .. Len(saved[p]) :
              /\ saved'[p][i] = saved[p][j]
              /\ i = Len(saved'[p]) <=> j = Len(saved[p])
<1> DEFINE s == saved[part]  k == Removed(part)
<1>0. saved[p] \in Seq(Steps) /\ part \in Parts /\ s \in Seq(Steps) /\ Len(s) \in Nat
  BY LenProperties DEF IInv, TypeOK
<1>1. CASE UNCHANGED saved
  BY <1>0, <1>1
<1>2. CASE p # part /\ ~UNCHANGED saved
  <2>1. saved'[p] = saved[p]
    BY <1>2 DEF Rotate, IInv, TypeOK
  <2> QED BY <1>0, <2>1
<1>3. CASE p = part /\ ~UNCHANGED saved
  <2>1. /\ Keep(part) > 0 /\ Len(s) >= Keep(part)
        /\ saved' = [saved EXCEPT ![part] = SubSeq(s, k + 1, Len(s))]
    BY <1>3 DEF Rotate, RotationDue
  <2>2. Keep(part) \in Nat /\ k \in 1 .. Len(s) /\ k = Len(s) - Keep(part) + 1
    <3>1. Keep(part) \in Nat
      BY TrainerAssumption DEF Keep
    <3> QED BY <1>0, <2>1, <3>1 DEF Removed
  <2>3. saved'[p] = SubSeq(s, k + 1, Len(s))
    BY <1>0, <1>3, <2>1 DEF IInv, TypeOK
  <2> HIDE DEF s, k
  <2>4. \A i \in k + 1 .. Len(s) : s[i] \in Steps
    BY <1>0, <2>2, ElementOfSeq
  <2>5. /\ SubSeq(s, k + 1, Len(s)) \in Seq(Steps)
        /\ Len(SubSeq(s, k + 1, Len(s))) =
             IF k + 1 <= Len(s) THEN Len(s) - (k + 1) + 1 ELSE 0
        /\ \A i \in 1 .. Len(s) - (k + 1) + 1 :
             SubSeq(s, k + 1, Len(s))[i] = s[k + 1 + i - 1]
    BY <1>0, <2>2, <2>4, SubSeqProperties
  <2>6. \A i \in 1 .. Len(saved'[p]) :
          /\ k + i \in 1 .. Len(s) /\ saved'[p][i] = s[k + i]
          /\ i = Len(saved'[p]) <=> k + i = Len(s)
    <3> DEFINE n == Len(s)  q == saved'[p]
    <3>1. n \in Nat /\ k \in 1 .. n
      BY <1>0, <2>2
    <3>2. CASE k = n
      <4>1. Len(q) = 0
        BY <2>3, <2>5, <3>1, <3>2
      <4> QED BY <4>1
    <3>3. CASE k < n
      <4>1. Len(q) = n - k
        BY <2>3, <2>5, <3>1, <3>3
      <4>2. \A i \in 1 .. n - k : q[i] = s[k + i]
        BY <2>3, <2>5, <3>1, <3>3
      <4> HIDE DEF n, q
      <4> QED BY <3>1, <4>1, <4>2 DEF n, q
    <3> QED BY <3>1, <3>2, <3>3
  <2> QED BY <1>3, <2>3, <2>5, <2>6 DEF s
<1> QED BY <1>1, <1>2, <1>3

\* Rotation removes nothing of a step that is not on the list, nor of the last
\* one, if more than one is kept.
LEMMA RemoveLeaves ==
  ASSUME IInv, NEW q \in Ranks, RemoveShard(q), NEW t \in Steps, NEW p \in Parts, NEW r \in Ranks,
         \/ p # part
         \/ \A i \in 1 .. Len(saved[part]) : saved[part][i] = t =>
              i = Len(saved[part]) /\ Keep(part) # 1
  PROVE  shard'[<<t, p, r>>] = shard[<<t, p, r>>]
<1>0. Len(saved[part]) \in Nat /\ Keep(part) \in Nat
  BY LenProperties, TrainerAssumption DEF IInv, TypeOK, Keep
<1>1. /\ Keep(part) > 0 /\ Len(saved[part]) >= Keep(part)
      /\ \E s \in Gone : shard' = [shard EXCEPT ![<<s, part, q>>] = NoFile]
  BY DEF RemoveShard, RotationDue
<1>2. <<t, p, r>> \in DOMAIN shard
  BY DEF IInv, TypeOK
<1>3. p # part \/ t \notin Gone
  <2> SUFFICES ASSUME p = part, NEW i \in 1 .. Removed(part), saved[part][i] = t
               PROVE  FALSE
    BY DEF Gone
  <2>1. i \in 1 .. Len(saved[part])
    BY <1>0, <1>1 DEF Removed
  <2>2. i = Len(saved[part]) /\ Keep(part) # 1
    BY <2>1
  <2> QED BY <1>0, <1>1, <2>2 DEF Removed
<1> QED BY <1>1, <1>2, <1>3

\* It takes a file away or leaves it as it is.
LEMMA RemoveFacts ==
  ASSUME IInv, NEW q \in Ranks, RemoveShard(q)
  PROVE  /\ shard' \in [Steps \X Parts \X Ranks -> Files]
         /\ \A f \in DOMAIN shard : shard'[f] \in {shard[f], NoFile}
         /\ pc = "rotate" /\ Running /\ Running' /\ part \in Parts /\ step \in Steps
         /\ UNCHANGED <<pc, step, learned, part, saved, data, tracker, history>>
<1>1. PICK s : shard' = [shard EXCEPT ![<<s, part, q>>] = NoFile]
  BY DEF RemoveShard
<1>2. NoFile \in Files
  BY FileFacts DEF IInv
<1>3. shard \in [Steps \X Parts \X Ranks -> Files]
  BY DEF IInv, TypeOK
<1>4. /\ shard' \in [Steps \X Parts \X Ranks -> Files]
      /\ \A f \in DOMAIN shard : shard'[f] \in {shard[f], NoFile}
  BY <1>1, <1>2, <1>3
<1> QED BY <1>4 DEF RemoveShard, Running, IInv, TypeOK

LEMMA RemoveKeeps == ASSUME IInv, NEW q \in Ranks, RemoveShard(q) PROVE IInv'
<1>0. /\ pc = "rotate" /\ Running /\ Running' /\ part \in Parts /\ step \in Steps
      /\ shard' \in [Steps \X Parts \X Ranks -> Files]
      /\ UNCHANGED <<pc, step, learned, part, saved, data, tracker, history>>
  BY RemoveFacts
<1> USE DEF IInv
<1>1. \A p \in Parts : (PartDone(p)' <=> PartDone(p)) /\ (p = part => ~PartDone(p))
  BY <1>0 DEF PartDone
<1>2. Files' = Files
  BY DEF Files
<1>3. TypeOK'
  BY <1>0, <1>2 DEF TypeOK, history, learned
<1>4. CountsOK'
  BY <1>0 DEF CountsOK, history
<1>5. TrackerOK'
  BY <1>0 DEF TrackerOK, history
<1>6. SavedOK'
  BY <1>0, <1>1 DEF SavedOK
<1>7. WrittenOK'
  <2>1. \A p \in Parts, r \in Ranks : PartDone(p) => shard'[<<step, p, r>>] = shard[<<step, p, r>>]
    BY <1>0, <1>1, RemoveLeaves
  <2>2. \A p \in Parts : Whole(updates[p], sft)' = Whole(updates[p], sft)
    BY <1>0 DEF Whole, history, learned
  <2> QED BY <1>0, <1>1, <2>1, <2>2 DEF WrittenOK
<1>8. TrackedIsComplete'
  <2> SUFFICES ASSUME \A p \in Parts : Keep(p) # 1, tracker.is = "whole"
               PROVE  Complete(tracker.at)'
    BY <1>0 DEF TrackedIsComplete, Keep
  <2>1. tracker.at \in Steps
    BY <1>0, TrackedIsOlder
  <2>2. \A i \in 1 .. Len(saved[part]) : saved[part][i] = tracker.at =>
          i = Len(saved[part]) /\ Keep(part) # 1
    BY <1>0, <1>1 DEF SavedOK
  <2>3. \A p \in Parts, r \in Ranks :
          shard'[<<tracker.at, p, r>>] = shard[<<tracker.at, p, r>>]
    BY <2>1, <2>2, RemoveLeaves
  <2> QED BY <1>0, <2>1, <2>3 DEF TrackedIsComplete, Complete
<1> QED BY <1>3, <1>4, <1>5, <1>6, <1>7, <1>8

LEMMA RotateKeeps == ASSUME IInv, Rotate PROVE IInv'
<1> USE DEF IInv
<1>0. /\ pc = "rotate" /\ pc' = "shards" /\ Running /\ Running' /\ step \in Steps
      /\ part \in Parts
      /\ UNCHANGED <<step, learned, part, disk, history>>
  BY DEF Rotate, Running, TypeOK
<1>1. \A p \in Parts : (PartDone(p)' <=> PartDone(p)) /\ (p = part => ~PartDone(p))
  BY <1>0 DEF PartDone
<1>2. Files' = Files
  BY DEF Files
<1>4. saved' \in [Parts -> Seq(Steps)]
  <2>1. DOMAIN saved' = Parts /\ saved' = [p \in Parts |-> saved'[p]]
    BY DEF Rotate, TypeOK
  <2>2. \A p \in Parts : saved'[p] \in Seq(Steps)
    BY RotateFacts
  <2> QED BY <2>1, <2>2
<1>5. TypeOK'
  BY <1>0, <1>2, <1>4 DEF TypeOK, disk, history, learned
<1>6. CountsOK'
  BY <1>0 DEF CountsOK, history
<1>7. TrackerOK'
  BY <1>0 DEF TrackerOK, disk, history
<1>8. SavedOK'
  <2> SUFFICES ASSUME NEW p \in Parts, NEW i \in 1 .. Len(saved'[p])
               PROVE  /\ saved'[p][i] <= step
                      /\ saved'[p][i] = step => PartDone(p) /\ i = Len(saved'[p])
                      /\ tracker.is = "whole" /\ saved'[p][i] = tracker.at
                           => PartDone(p) \/ i = Len(saved'[p])
    BY <1>0, <1>1 DEF SavedOK, disk
  <2>1. PICK j \in 1 .. Len(saved[p]) :
          /\ saved'[p][i] = saved[p][j]
          /\ i = Len(saved'[p]) <=> j = Len(saved[p])
    BY RotateFacts
  <2> QED BY <1>0, <2>1 DEF SavedOK
<1>9. WrittenOK'
  <2>1. \A p \in Parts : Whole(updates[p], sft)' = Whole(updates[p], sft)
    BY <1>0 DEF Whole, history, learned
  <2> QED BY <1>0, <1>1, <2>1 DEF WrittenOK, disk
<1>10. TrackedIsComplete'
  BY <1>0 DEF TrackedIsComplete, Complete, disk
<1> QED BY <1>5, <1>6, <1>7, <1>8, <1>9, <1>10

LEMMA OpenTrackerKeeps == ASSUME IInv, OpenTracker PROVE IInv'
<1> USE DEF IInv
<1>0. /\ pc = "tracker" /\ Running /\ Running'
      /\ tracker' = Torn /\ tracker'.is = "torn"
      /\ UNCHANGED <<pc, step, learned, part, saved, shard, data, history>>
  BY DEF OpenTracker, Running, Torn
<1>1. \A p \in Parts : PartDone(p)' <=> PartDone(p)
  BY <1>0 DEF PartDone
<1>2. Files' = Files /\ Torn \in Files
  BY FileFacts DEF Files
<1>3. TypeOK'
  BY <1>0, <1>2 DEF TypeOK, history, learned
<1>4. CountsOK'
  BY <1>0 DEF CountsOK, history
<1>5. TrackerOK'
  BY <1>0 DEF TrackerOK, history
<1>6. SavedOK'
  BY <1>0, <1>1 DEF SavedOK
<1>7. WrittenOK'
  <2>1. /\ \A p \in Parts : Whole(updates[p], sft)' = Whole(updates[p], sft)
        /\ Whole(position, 0)' = Whole(position, 0)
    BY <1>0 DEF Whole, history, learned
  <2> QED BY <1>0, <1>1, <2>1 DEF WrittenOK
<1>8. TrackedIsComplete'
  BY <1>0 DEF TrackedIsComplete
<1> QED BY <1>3, <1>4, <1>5, <1>6, <1>7, <1>8

\* The save is finished: everything of this step is written.
LEMMA CloseTrackerKeeps == ASSUME IInv, CloseTracker PROVE IInv'
<1> USE DEF IInv
<1>0. /\ pc = "tracker" /\ Running /\ step \in Steps /\ lastSaved' = step
      /\ tracker' = Whole(step, 0) /\ GoOn
      /\ UNCHANGED <<learned, part, saved, shard, data, run>>
  BY DEF CloseTracker, Running, TypeOK
<1>1. /\ Whole(step, 0) \in Files /\ Whole(step, 0).is = "whole"
      /\ Whole(step, 0).at = step
  BY <1>0, FileFacts DEF Steps
<1>2. /\ pc' \in {"step", "done"} /\ step' = step + 1
      /\ finished' \in 0 .. MaxRuns /\ finished' <= run
      /\ step + 1 <= TotalSteps + finished'
      /\ pc' = "step" => /\ step' \in Steps /\ finished' < run
                         /\ step' <= TotalSteps + finished'
  BY <1>0, GoOnFacts
<1>3. Running' => pc' = "step"
  BY <1>2 DEF Running
<1>4. Files' = Files
  BY <1>0 DEF Files
<1>5. TypeOK'
  BY <1>0, <1>1, <1>2, <1>3, <1>4 DEF TypeOK, learned
<1>6. CountsOK'
  BY <1>0, <1>2, <1>3 DEF CountsOK
<1>7. TrackerOK'
  <2>1. step < step + 1
    BY <1>0 DEF Steps
  <2> QED BY <1>0, <1>1, <1>2, <1>3, <2>1 DEF TrackerOK
<1>8. SavedOK'
  <2> SUFFICES ASSUME NEW p \in Parts, NEW i \in 1 .. Len(saved[p])
               PROVE  /\ saved[p][i] <= step + 1 /\ saved[p][i] # step + 1
                      /\ saved[p][i] = step => i = Len(saved[p])
    BY <1>0, <1>1, <1>2 DEF SavedOK
  <2>1. saved[p] \in Seq(Steps) /\ saved[p][i] \in Steps
    BY ElementOfSeq DEF TypeOK
  <2>2. saved[p][i] <= step /\ (saved[p][i] = step => i = Len(saved[p]))
    BY <1>0 DEF SavedOK
  <2> QED BY <1>0, <2>1, <2>2 DEF Steps
<1>9. WrittenOK'
  BY <1>2, <1>3 DEF WrittenOK, PartDone
<1>10. TrackedIsComplete'
  <2>1. /\ \A p \in Parts, r \in Ranks : shard[<<step, p, r>>] = Whole(updates[p], sft)
        /\ data[step] = Whole(position, 0)
    BY <1>0 DEF WrittenOK, PartDone
  <2>2. sft \in Nat /\ position \in Nat /\ \A p \in Parts : updates[p] \in Nat
    BY DEF TypeOK
  <2>3. Complete(step)
    <3>1. \A p \in Parts, r \in Ranks :
            shard[<<step, p, r>>].is = "whole" /\ shard[<<step, p, r>>].run = run
      BY <2>1, <2>2, FileFacts
    <3>2. data[step].is = "whole" /\ data[step].run = run
      BY <2>1, <2>2, FileFacts
    <3> QED BY <2>1, <3>1, <3>2 DEF Complete
  <2>4. Complete(tracker.at)'
    BY <1>0, <1>1, <2>3 DEF Complete
  <2> QED BY <2>4 DEF TrackedIsComplete
<1> QED BY <1>5, <1>6, <1>7, <1>8, <1>9, <1>10

LEMMA CrashKeeps == ASSUME IInv, Crash PROVE IInv'
<1> USE DEF IInv
<1>0. /\ pc' = "down" /\ ~Running'
      /\ UNCHANGED <<disk, history>>
  BY DEF Crash, Running
<1>1. Files' = Files
  BY <1>0 DEF Files, history
<1>2. /\ position' \in Nat /\ updates' \in [Parts -> Nat] /\ sft' \in Nat
      /\ hasSft' \in BOOLEAN /\ buffer' \in Nat /\ part' \in Parts
      /\ saved' \in [Parts -> Seq(Steps)]
  <2>1. position' \in Nat /\ updates' \in [Parts -> Nat] /\ sft' \in Nat /\ buffer' \in Nat
    BY DEF Crash
  <2>2. hasSft' \in BOOLEAN /\ part' \in Parts
    BY PartFacts DEF Crash
  <2>3. saved' \in [Parts -> Seq(Steps)]
    BY DEF Crash
  <2> QED BY <2>1, <2>2, <2>3
<1>3. TypeOK'
  BY <1>0, <1>1, <1>2 DEF TypeOK, disk, history
<1>4. CountsOK' /\ TrackerOK' /\ SavedOK' /\ WrittenOK'
  BY <1>0 DEF CountsOK, TrackerOK, SavedOK, WrittenOK, disk, history
<1>5. TrackedIsComplete'
  BY <1>0 DEF TrackedIsComplete, Complete, disk
<1> QED BY <1>3, <1>4, <1>5

-----------------------------------------------------------------------------
LEMMA StepKeeps == ASSUME IInv, [Next]_vars PROVE IInv'
<1>1. CASE StartFresh
  BY <1>1, StartFreshKeeps
<1>2. CASE Resume
  BY <1>2, ResumeKeeps
<1>3. CASE FailToStart
  BY <1>3, FailToStartKeeps
<1>4. CASE TrainStep
  BY <1>4, TrainStepKeeps
<1>5. CASE Rotate
  BY <1>5, RotateKeeps
<1>6. CASE PartSaved
  BY <1>6, PartSavedKeeps
<1>7. ASSUME NEW r \in Ranks, OpenShard(r) PROVE IInv'
  BY <1>7, OpenShardKeeps
<1>8. ASSUME NEW r \in Ranks, CloseShard(r) PROVE IInv'
  BY <1>8, CloseShardKeeps
<1>9. CASE OpenData
  BY <1>9, OpenDataKeeps
<1>10. CASE CloseData
  BY <1>10, CloseDataKeeps
<1>11. CASE OpenTracker
  BY <1>11, OpenTrackerKeeps
<1>12. CASE CloseTracker
  BY <1>12, CloseTrackerKeeps
<1>13. CASE Crash
  BY <1>13, CrashKeeps
<1>14. ASSUME NEW r \in Ranks, RemoveShard(r) PROVE IInv'
  BY <1>14, RemoveKeeps
<1>15. CASE UNCHANGED vars
  <2> USE <1>15 DEF vars, learned, disk, history, IInv, Running
  <2>1. TypeOK'
    BY DEF TypeOK, Files
  <2>2. CountsOK' /\ TrackerOK'
    BY DEF CountsOK, TrackerOK
  <2>3. SavedOK'
    BY DEF SavedOK, PartDone
  <2>4. WrittenOK'
    BY DEF WrittenOK, PartDone, Whole
  <2>5. TrackedIsComplete'
    BY DEF TrackedIsComplete, Complete
  <2> QED BY <2>1, <2>2, <2>3, <2>4, <2>5
<1> QED BY <1>1, <1>2, <1>3, <1>4, <1>5, <1>6, <1>7, <1>8, <1>9, <1>10, <1>11,
           <1>12, <1>13, <1>14, <1>15 DEF Next

\* The invariant behind the theorems below.
THEOREM Invariance == Spec => []IInv
BY InitHolds, StepKeeps, PTL DEF Spec

\* Steps stay below the bound of total_training_steps and jobs, and every file
\* and list is what _save_checkpoint makes it.
THEOREM TypeCorrect == Spec => []TypeOK
<1>1. IInv => TypeOK
  BY DEF IInv
<1> QED BY <1>1, Invariance, PTL

\* Wherever jobs die, the checkpoint latest_checkpointed_iteration.txt names
\* is complete, unless a save removes the only one first.
THEOREM TrackedComplete == Spec => []TrackedIsComplete
<1>1. IInv => TrackedIsComplete
  BY DEF IInv
<1> QED BY <1>1, Invariance, PTL

\* fit() goes beyond total_training_steps by one step for each job that had
\* come to its end before.
THEOREM Overrun == Spec => []OverrunPaid
<1>1. IInv => OverrunPaid
  BY DEF IInv, CountsOK, OverrunPaid
<1> QED BY <1>1, Invariance, PTL

\* _load_checkpoint resumes after the last save that finished.
THEOREM ResumesAfterLast == Spec => NothingLost
<1>1. ASSUME IInv, [Next]_vars
      PROVE  [~Running /\ pc' = "step" => step' = lastSaved + 1]_vars
  <2> SUFFICES ASSUME ~Running, pc' = "step", Next
               PROVE  step' = lastSaved + 1
    BY <1>1 DEF vars, Running
  <2>1. StartFresh \/ Resume
    BY DEF Next, Running, FailToStart, TrainStep, RemoveShard, Rotate, PartSaved, OpenShard,
           CloseShard, OpenData, CloseData, OpenTracker, CloseTracker, Crash
  <2> QED BY <1>1, <2>1, StartsAfterLast
<1> QED BY <1>1, Invariance, PTL DEF Spec, NothingLost
-----------------------------------------------------------------------------
(* The model and the data loader stay in step.                             *)

\* The updates an actor that needs no fine-tuning has had: one for each step
\* from the end of its warm-up.
LEMMA WarmUpCount ==
  ASSUME NEW s \in Nat
  PROVE  /\ Cardinality(CriticWarmup .. 0 \ {0}) = 0
         /\ Cardinality(CriticWarmup .. s + 1 \ {0}) =
              IF CriticWarmup <= s + 1 THEN Cardinality(CriticWarmup .. s \ {0}) + 1
                                       ELSE Cardinality(CriticWarmup .. s \ {0})
<1>0. CriticWarmup \in Nat
  BY TrainerAssumption
<1>1. CriticWarmup .. 0 \ {0} = {}
  BY <1>0
<1>2. CASE CriticWarmup <= s + 1
  <2>1. CriticWarmup .. s + 1 \ {0} = (CriticWarmup .. s \ {0}) \cup {s + 1}
    BY <1>0, <1>2
  <2>2. IsFiniteSet(CriticWarmup .. s)
    BY <1>0, FS_Interval
  <2>3. IsFiniteSet(CriticWarmup .. s \ {0}) /\ s + 1 \notin CriticWarmup .. s \ {0}
    <3>1. s + 1 \notin CriticWarmup .. s
      BY <1>0
    <3> QED BY <2>2, <3>1, FS_RemoveElement
  <2>4. Cardinality((CriticWarmup .. s \ {0}) \cup {s + 1}) = Cardinality(CriticWarmup .. s \ {0}) + 1
    BY <2>3, FS_AddElement
  <2> QED BY <1>1, <1>2, <2>1, <2>4, FS_EmptySet
<1>3. CASE ~(CriticWarmup <= s + 1)
  <2>1. CriticWarmup .. s + 1 \ {0} = CriticWarmup .. s \ {0}
    BY <1>0, <1>3
  <2> QED BY <1>1, <1>3, <2>1, FS_EmptySet
<1> QED BY <1>2, <1>3

\* Before the first batch nothing has been updated.
LEMMA UpdatedByNone == \A p \in Parts : UpdatedBy(p, 0, 0, 0)
BY WarmUpCount DEF UpdatedBy

\* One more batch: the critic is updated, and so is the actor that is ready.
LEMMA UpdatedByOneMore ==
  ASSUME NEW p \in Parts, NEW s \in Nat, NEW number \in Nat,
         NEW before \in Nat, NEW after \in Nat, NEW ready \in BOOLEAN,
         UpdatedBy(p, s, number, before),
         IF SftEnabled THEN ready => before # 0 ELSE ready,
         before # 0 => after # 0
  PROVE  UpdatedBy(p, s + 1,
           IF p = "critic" \/ (ready /\ CriticWarmup <= s + 1) THEN number + 1 ELSE number,
           after)
<1>0. CriticWarmup \in Nat /\ SftEnabled \in BOOLEAN
  BY TrainerAssumption
<1>1. CASE p = "critic"
  BY <1>1 DEF UpdatedBy
<1>2. CASE p # "critic" /\ SftEnabled
  <2>1. /\ number = 0 \/ number <= s - CriticWarmup + 1
        /\ before = 0 => number = 0
    BY <1>2 DEF UpdatedBy
  <2>2. CASE ready /\ CriticWarmup <= s + 1
    <3>1. number + 1 <= (s + 1) - CriticWarmup + 1
      BY <1>0, <2>1, <2>2
    <3>2. after # 0
      BY <1>2, <2>2
    <3>3. UpdatedBy(p, s + 1, number + 1, after)
      BY <1>2, <3>1, <3>2 DEF UpdatedBy
    <3> QED BY <2>2, <3>3
  <2>3. CASE ~(ready /\ CriticWarmup <= s + 1)
    <3>1. number = 0 \/ number <= (s + 1) - CriticWarmup + 1
      BY <1>0, <2>1
    <3>2. after = 0 => number = 0
      BY <2>1
    <3>3. UpdatedBy(p, s + 1, number, after)
      BY <1>2, <3>1, <3>2 DEF UpdatedBy
    <3> QED BY <1>2, <2>3, <3>3
  <2> QED BY <2>2, <2>3
<1>3. CASE p # "critic" /\ ~SftEnabled
  <2>1. number = Cardinality(CriticWarmup .. s \ {0}) /\ ready
    BY <1>3 DEF UpdatedBy
  <2> QED BY <1>3, <2>1, WarmUpCount DEF UpdatedBy
<1> QED BY <1>0, <1>1, <1>2, <1>3

LEMMA InitLearned == Init => LearnedOK /\ TrackedOK
BY DEF Init, LearnedOK, TrackedOK, Running, NoFile

\* A step that starts no job, learns nothing and is at the same place.
LEMMA LearnedStays ==
  ASSUME LearnedOK, Running' => Running, UNCHANGED learned,
         Running' => (IF pc' = "step" THEN step' - 1 ELSE step')
                       = (IF pc = "step" THEN step - 1 ELSE step)
  PROVE  LearnedOK'
BY DEF LearnedOK, learned, UpdatedBy

\* A job that has not started, or goes down, has nothing to keep.
LEMMA LearnedNot == ASSUME ~Running' PROVE LearnedOK'
BY DEF LearnedOK

\* What a step has to establish of a job that runs after it.
LEMMA LearnedNext ==
  ASSUME Running' => position' = IF pc' = "step" THEN step' - 1 ELSE step',
         \A p \in Parts : UpdatedBy(p, position', updates'[p], sft'),
         IF SftEnabled THEN hasSft' => sft' # 0 ELSE hasSft'
  PROVE  LearnedOK'
BY DEF LearnedOK, UpdatedBy

LEMMA TrackedStays ==
  ASSUME TrackedOK, UNCHANGED disk
  PROVE  TrackedOK'
BY DEF TrackedOK, disk, UpdatedBy

\* The checkpoint that is named loses files to rotation, or none at all, while
\* others are written.
LEMMA TrackedLoses ==
  ASSUME TrackedOK, UNCHANGED tracker,
         tracker.is = "whole" => data'[tracker.at] = data[tracker.at],
         tracker.is = "whole" => \A p \in Parts, r \in Ranks :
           \/ shard'[<<tracker.at, p, r>>] = shard[<<tracker.at, p, r>>]
           \/ shard'[<<tracker.at, p, r>>] = NoFile
  PROVE  TrackedOK'
<1> SUFFICES ASSUME tracker.is = "whole"
             PROVE  /\ data'[tracker.at].is = "whole" /\ data'[tracker.at].at = tracker.at
                    /\ \A p \in Parts, r \in Ranks : LET f == shard'[<<tracker.at, p, r>>] IN
                         f.is # "none" => f.is = "whole" /\ UpdatedBy(p, tracker.at, f.at, f.sft)
  BY DEF TrackedOK, UpdatedBy
<1>1. data'[tracker.at].is = "whole" /\ data'[tracker.at].at = tracker.at
  BY DEF TrackedOK
<1>2. ASSUME NEW p \in Parts, NEW r \in Ranks, shard'[<<tracker.at, p, r>>].is # "none"
      PROVE  LET f == shard'[<<tracker.at, p, r>>] IN
             f.is = "whole" /\ UpdatedBy(p, tracker.at, f.at, f.sft)
  <2>1. NoFile.is = "none"
    BY DEF NoFile
  <2>2. shard'[<<tracker.at, p, r>>] = shard[<<tracker.at, p, r>>]
    BY <1>2, <2>1
  <2> QED BY <1>2, <2>2 DEF TrackedOK
<1> QED BY <1>1, <1>2

LEMMA FreshLearned == ASSUME IInv, TrackedOK, StartFresh PROVE LearnedOK' /\ TrackedOK'
<1>1. /\ position' = 0 /\ step' = 1 /\ pc' = "step" /\ sft' = 0
      /\ \A p \in Parts : updates'[p] = 0
      /\ hasSft' = ~SftEnabled /\ UNCHANGED disk
  BY DEF StartFresh, Start
<1>2. \A p \in Parts : UpdatedBy(p, 0, 0, 0)
  BY UpdatedByNone
<1>3. LearnedOK'
  <2>1. position' = step' - 1
    BY <1>1
  <2>2. IF SftEnabled THEN hasSft' => sft' # 0 ELSE hasSft'
    BY <1>1
  <2>3. \A p \in Parts : UpdatedBy(p, position', updates'[p], sft')
    BY <1>1, <1>2
  <2> QED BY <1>1, <2>1, <2>2, <2>3, LearnedNext
<1> QED BY <1>1, <1>3, TrackedStays

LEMMA ResumeLearned == ASSUME IInv, TrackedOK, Resume PROVE LearnedOK' /\ TrackedOK'
<1>1. /\ tracker.is = "whole" /\ Loadable(tracker.at) /\ pc' = "step"
      /\ step' = tracker.at + 1 /\ position' = data[tracker.at].at
      /\ hasSft' = ~SftEnabled /\ UNCHANGED disk
  BY DEF Resume, Start
<1>2. PICK r \in Ranks :
        /\ updates' = [p \in Parts |-> shard[<<tracker.at, p, r>>].at]
        /\ sft' = shard[<<tracker.at, "actor", r>>].sft
  BY DEF Resume
<1>3. tracker.at \in Steps /\ tracker.at \in Nat
  BY <1>1 DEF IInv, TrackerOK, Steps
<1>4. position' = tracker.at /\ \A p \in Parts :
        UpdatedBy(p, tracker.at, shard[<<tracker.at, p, r>>].at, shard[<<tracker.at, p, r>>].sft)
  BY <1>1 DEF TrackedOK, Loadable
<1>5. \A p \in Parts : UpdatedBy(p, tracker.at, updates'[p], sft')
  <2>1. \A p \in Parts : updates'[p] = shard[<<tracker.at, p, r>>].at
    BY <1>2
  <2>2. CASE UseCritic
    BY <1>2, <1>4, <2>1 DEF UpdatedBy, Parts
  <2>3. CASE ~UseCritic
    BY <1>2, <1>4, <2>1, <2>3 DEF UpdatedBy, Parts
  <2> QED BY <2>2, <2>3
<1>6. LearnedOK'
  <2>1. position' = step' - 1
    BY <1>1, <1>3, <1>4
  <2>2. IF SftEnabled THEN hasSft' => sft' # 0 ELSE hasSft'
    BY <1>1
  <2> QED BY <1>1, <1>4, <1>5, <2>1, <2>2, LearnedNext
<1> QED BY <1>1, <1>6, TrackedStays

LEMMA TrainStepLearned ==
  ASSUME IInv, LearnedOK, TrackedOK, TrainStep
  PROVE  LearnedOK' /\ TrackedOK'
<1>0. /\ pc = "step" /\ Running /\ UNCHANGED disk /\ position' = position + 1
      /\ step \in Nat /\ position \in Nat /\ position = step - 1
      /\ hasSft \in BOOLEAN /\ sft \in Nat /\ sft' \in Nat
      /\ \A p \in Parts : updates[p] \in Nat
  <2>1. IInv' /\ TypeOK /\ pc = "step" /\ Running
    BY TrainStepKeeps DEF TrainStep, Running, IInv
  <2>2. step \in Nat /\ position \in Nat /\ position = step - 1
    BY <2>1 DEF TypeOK, LearnedOK, Steps
  <2>3. hasSft \in BOOLEAN /\ sft \in Nat /\ sft' \in Nat
    BY <2>1 DEF TypeOK, IInv
  <2>4. UNCHANGED disk /\ position' = position + 1
    BY DEF TrainStep
  <2>5. \A p \in Parts : updates[p] \in Nat
    BY <2>1 DEF TypeOK
  <2> QED BY <2>1, <2>2, <2>3, <2>4, <2>5
<1>1. \/ pc' = "rotate" /\ step' = step
      \/ pc' \in {"step", "done"} /\ step' = step + 1
  BY DEF TrainStep, GoOn
<1>2. /\ sft # 0 => sft' # 0
      /\ IF SftEnabled THEN hasSft' => sft' # 0 ELSE hasSft'
  <2>1. PICK samples \in {0, 1} : LearnFrom(buffer + samples)
    BY DEF TrainStep
  <2>2. \/ sft' = sft + 1 /\ hasSft' = TRUE /\ SftEnabled
        \/ sft' = sft /\ hasSft' = hasSft
    BY <2>1 DEF LearnFrom, FineTune
  <2>3. IF SftEnabled THEN hasSft => sft # 0 ELSE hasSft
    BY <1>0 DEF LearnedOK
  <2> QED BY <1>0, <2>2, <2>3
<1>3. \A p \in Parts : UpdatedBy(p, position', updates'[p], sft')
  <2> SUFFICES ASSUME NEW p \in Parts
               PROVE  UpdatedBy(p, position + 1, updates'[p], sft')
    BY <1>0
  <2>1. updates'[p] = IF p = "critic" \/ (hasSft /\ CriticWarmup <= position + 1)
                        THEN updates[p] + 1 ELSE updates[p]
    BY <1>0 DEF TrainStep, Update
  <2>2. /\ UpdatedBy(p, position, updates[p], sft)
        /\ IF SftEnabled THEN hasSft => sft # 0 ELSE hasSft
    BY <1>0 DEF LearnedOK
  <2> QED BY <1>0, <1>2, <2>1, <2>2, UpdatedByOneMore
<1>4. LearnedOK'
  <2>1. position' = step
    BY <1>0
  <2>2. Running' => position' = IF pc' = "step" THEN step' - 1 ELSE step'
    BY <1>0, <1>1, <2>1 DEF Running
  <2> QED BY <1>2, <1>3, <2>2, LearnedNext
<1> QED BY <1>0, <1>4, TrackedStays
\* The files a save writes are not those of the checkpoint that is named.
LEMMA SaveLearned ==
  ASSUME IInv, LearnedOK, TrackedOK,
         \/ Rotate \/ PartSaved
         \/ \E r \in Ranks : RemoveShard(r) \/ OpenShard(r) \/ CloseShard(r)
         \/ OpenData \/ CloseData \/ OpenTracker
  PROVE  LearnedOK' /\ TrackedOK'
<1>1. /\ pc \in {"rotate", "shards", "data", "tracker"} /\ Running
      /\ pc' \in {"rotate", "shards", "data", "tracker"}
      /\ UNCHANGED <<step, learned>>
  BY DEF Rotate, PartSaved, RemoveShard, OpenShard, CloseShard, OpenData, CloseData,
         OpenTracker, Running
<1>2. LearnedOK'
  BY <1>1, LearnedStays
<1>3. tracker.is = "whole" => tracker.at \in Steps /\ tracker.at # step /\ step \in Steps
  BY <1>1, TrackedIsOlder
<1>4. ASSUME NEW q \in Ranks, RemoveShard(q)
      PROVE  LearnedOK' /\ TrackedOK'
  <2>1. UNCHANGED <<data, tracker>>
    BY <1>4 DEF RemoveShard
  <2>2. tracker.is = "whole" => \A p \in Parts, r \in Ranks :
          \/ shard'[<<tracker.at, p, r>>] = shard[<<tracker.at, p, r>>]
          \/ shard'[<<tracker.at, p, r>>] = NoFile
    BY <1>3, <1>4, RemoveFacts DEF IInv, TypeOK
  <2> QED BY <1>2, <2>1, <2>2, TrackedLoses
<1>5. CASE Rotate \/ PartSaved
  BY <1>2, <1>5, TrackedStays DEF Rotate, PartSaved
<1>6. ASSUME NEW r \in Ranks, OpenShard(r) \/ CloseShard(r)
      PROVE  LearnedOK' /\ TrackedOK'
  <2>1. UNCHANGED <<data, tracker>>
    BY <1>6 DEF OpenShard, CloseShard
  <2>2. \A f \in DOMAIN shard : f # Mine(r) => shard'[f] = shard[f]
    BY <1>6 DEF OpenShard, CloseShard
  <2>3. tracker.is = "whole" => \A p \in Parts, q \in Ranks :
          shard'[<<tracker.at, p, q>>] = shard[<<tracker.at, p, q>>]
    BY <1>3, <2>2 DEF Mine, IInv, TypeOK
  <2> QED BY <1>2, <2>1, <2>3, TrackedLoses
<1>7. CASE OpenData \/ CloseData
  <2>1. UNCHANGED <<shard, tracker>>
    BY <1>7 DEF OpenData, CloseData
  <2>2. tracker.is = "whole" => data'[tracker.at] = data[tracker.at]
    BY <1>3, <1>7 DEF OpenData, CloseData, IInv, TypeOK
  <2> QED BY <1>2, <2>1, <2>2, TrackedLoses
<1>8. CASE OpenTracker
  <2>1. tracker'.is = "torn"
    BY <1>8 DEF OpenTracker, Torn
  <2> QED BY <1>2, <2>1 DEF TrackedOK
<1> QED BY <1>4, <1>5, <1>6, <1>7, <1>8

\* The tracker is written last: what it names says what was learned by then.
LEMMA CloseTrackerLearned ==
  ASSUME IInv, LearnedOK, CloseTracker
  PROVE  LearnedOK' /\ TrackedOK'
<1>1. /\ pc = "tracker" /\ Running /\ tracker' = Whole(step, 0)
      /\ step' = step + 1 /\ (Running' => pc' = "step")
      /\ UNCHANGED <<learned, shard, data>>
  BY DEF CloseTracker, GoOn, Running
<1>2. step \in Nat
  BY <1>1 DEF IInv, TypeOK, Steps
<1>3. LearnedOK'
  BY <1>1, <1>2, LearnedStays
<1>4. /\ data[step] = Whole(position, 0) /\ position = step
      /\ \A p \in Parts, r \in Ranks : shard[<<step, p, r>>] = Whole(updates[p], sft)
      /\ \A p \in Parts : UpdatedBy(p, position, updates[p], sft)
  BY <1>1 DEF IInv, WrittenOK, PartDone, LearnedOK
<1>5. tracker'.at = step
  BY <1>1 DEF Whole
<1>6. /\ data[step].is = "whole" /\ data[step].at = step
      /\ \A p \in Parts, r \in Ranks : LET f == shard[<<step, p, r>>] IN
           f.is = "whole" /\ UpdatedBy(p, step, f.at, f.sft)
  <2>1. \A k, l : Whole(k, l).is = "whole" /\ Whole(k, l).at = k /\ Whole(k, l).sft = l
    BY DEF Whole
  <2>2. data[step].is = "whole" /\ data[step].at = step
    BY <1>4, <2>1
  <2>3. ASSUME NEW p \in Parts, NEW r \in Ranks
        PROVE  LET f == shard[<<step, p, r>>] IN
               f.is = "whole" /\ UpdatedBy(p, step, f.at, f.sft)
    <3> DEFINE f == shard[<<step, p, r>>]
    <3>1. f.is = "whole" /\ f.at = updates[p] /\ f.sft = sft
      BY <1>4, <2>1
    <3>2. UpdatedBy(p, step, updates[p], sft)
      BY <1>4
    <3> QED BY <3>1, <3>2
  <2> QED BY <2>2, <2>3
<1>7. TrackedOK'
  <2>1. /\ data'[tracker'.at].is = "whole" /\ data'[tracker'.at].at = tracker'.at
        /\ \A p \in Parts, r \in Ranks : LET f == shard'[<<tracker'.at, p, r>>] IN
             f.is = "whole" /\ UpdatedBy(p, tracker'.at, f.at, f.sft)
    BY <1>1, <1>5, <1>6
  <2> QED BY <2>1 DEF TrackedOK, UpdatedBy
<1> QED BY <1>3, <1>7

LEMMA StepKeepsLearned ==
  ASSUME IInv, LearnedOK, TrackedOK, [Next]_vars
  PROVE  LearnedOK' /\ TrackedOK'
<1>1. CASE StartFresh \/ Resume
  BY <1>1, FreshLearned, ResumeLearned
<1>2. CASE FailToStart \/ Crash
  <2>1. ~Running' /\ UNCHANGED disk
    BY <1>2 DEF FailToStart, Start, Crash, Running
  <2> QED BY <2>1, LearnedNot, TrackedStays
<1>3. CASE TrainStep
  BY <1>3, TrainStepLearned
<1>4. CASE CloseTracker
  BY <1>4, CloseTrackerLearned
<1>5. CASE UNCHANGED vars
  <2>1. UNCHANGED <<pc, step, learned, disk>>
    BY <1>5 DEF vars
  <2> QED BY <2>1, LearnedStays, TrackedStays DEF Running
<1> QED BY <1>1, <1>2, <1>3, <1>4, <1>5, SaveLearned DEF Next

\* What the checkpoint that is named and a running job say of the batches and
\* the updates agrees with the step they are at.
THEOREM LearnedInvariance == Spec => [](IInv /\ LearnedOK /\ TrackedOK)
<1>1. Init => IInv /\ LearnedOK /\ TrackedOK
  BY InitHolds, InitLearned
<1>2. IInv /\ LearnedOK /\ TrackedOK /\ [Next]_vars => (IInv /\ LearnedOK /\ TrackedOK)'
  BY StepKeeps, StepKeepsLearned
<1> QED BY <1>1, <1>2, PTL DEF Spec

\* Wherever jobs die, the data loader goes on where the model stopped: fit()
\* gives every batch once, and critic and actor have been updated with those
\* they should.
THEOREM StaysInStep == Spec => []InStep
<1>1. IInv /\ LearnedOK => InStep
  <2> SUFFICES ASSUME IInv, LearnedOK, pc = "step" PROVE InStep
    BY DEF InStep
  <2>1. /\ position = step - 1
        /\ \A p \in Parts : UpdatedBy(p, position, updates[p], sft)
    BY DEF LearnedOK, Running
  <2>2. UseCritic => updates["critic"] = position
    BY <2>1, PartFacts DEF UpdatedBy
  <2>3. UpdatedBy("actor", position, updates["actor"], sft)
    BY <2>1, PartFacts
  <2>4. IF SftEnabled
          THEN updates["actor"] <= position - CriticWarmup + 1 \/ updates["actor"] = 0
          ELSE updates["actor"] = Cardinality(CriticWarmup .. position \ {0})
    BY <2>3 DEF UpdatedBy
  <2>5. SftEnabled /\ sft = 0 => updates["actor"] = 0
    BY <2>3 DEF UpdatedBy
  <2> QED BY <2>1, <2>2, <2>4, <2>5 DEF InStep
<1> QED BY <1>1, LearnedInvariance, PTL
-----------------------------------------------------------------------------
(* The checkpoints of a job are those of Checkpoints.  One more invariant  *)
(* is needed, AgreedOK: it does not matter which rank's shard is asked     *)
(* what was kept, and a job never trains while nothing is.                 *)

\* The checkpoint that is named is not touched, and no training begins.
LEMMA AgreedStays ==
  ASSUME AgreedOK, UNCHANGED tracker, pc' = "step" => pc = "step",
         tracker.is = "whole" =>
           /\ data'[tracker.at] = data[tracker.at]
           /\ \A p \in Parts, r \in Ranks :
                shard'[<<tracker.at, p, r>>] = shard[<<tracker.at, p, r>>]
  PROVE  AgreedOK'
BY DEF AgreedOK, Loadable

\* The checkpoint that is named may lose files while no job trains.
LEMMA AgreedLoses ==
  ASSUME AgreedOK, UNCHANGED tracker, pc' # "step",
         tracker.is = "whole" => \A p \in Parts, r \in Ranks :
           \/ shard'[<<tracker.at, p, r>>] = shard[<<tracker.at, p, r>>]
           \/ shard'[<<tracker.at, p, r>>] = NoFile
  PROVE  AgreedOK'
<1> SUFFICES ASSUME tracker.is = "whole", NEW p \in Parts, NEW r \in Ranks, NEW q \in Ranks,
                    shard'[<<tracker.at, p, r>>].is # "none",
                    shard'[<<tracker.at, p, q>>].is # "none"
             PROVE  shard'[<<tracker.at, p, r>>] = shard'[<<tracker.at, p, q>>]
  BY DEF AgreedOK
<1>1. NoFile.is = "none"
  BY DEF NoFile
<1>2. /\ shard'[<<tracker.at, p, r>>] = shard[<<tracker.at, p, r>>]
      /\ shard'[<<tracker.at, p, q>>] = shard[<<tracker.at, p, q>>]
  BY <1>1
<1> QED BY <1>2 DEF AgreedOK

\* What a step of a save that is not the last does to the files of the
\* checkpoint that is named.
LEMMA SaveLeaves ==
  ASSUME IInv,
         \/ Rotate \/ PartSaved
         \/ \E r \in Ranks : RemoveShard(r) \/ OpenShard(r) \/ CloseShard(r)
         \/ OpenData \/ CloseData
  PROVE  /\ UNCHANGED <<step, learned, tracker>>
         /\ Running /\ Running' /\ pc # "step" /\ pc' # "step"
         /\ tracker.is = "whole" =>
              /\ data'[tracker.at] = data[tracker.at]
              /\ \A p \in Parts, r \in Ranks :
                   \/ shard'[<<tracker.at, p, r>>] = shard[<<tracker.at, p, r>>]
                   \/ shard'[<<tracker.at, p, r>>] = NoFile
<1>1. /\ pc \in {"rotate", "shards", "data", "tracker"} /\ Running
      /\ pc' \in {"rotate", "shards", "data", "tracker"} /\ Running'
      /\ UNCHANGED <<step, learned, tracker>>
  BY DEF Rotate, PartSaved, RemoveShard, OpenShard, CloseShard, OpenData, CloseData, Running,
         disk
<1>2. tracker.is = "whole" => tracker.at \in Steps /\ tracker.at # step /\ step \in Steps
  BY <1>1, TrackedIsOlder
<1>3. ASSUME NEW q \in Ranks, RemoveShard(q)
      PROVE  /\ UNCHANGED data
             /\ tracker.is = "whole" => \A p \in Parts, r \in Ranks :
                  \/ shard'[<<tracker.at, p, r>>] = shard[<<tracker.at, p, r>>]
                  \/ shard'[<<tracker.at, p, r>>] = NoFile
  <2>1. UNCHANGED data
    BY <1>3 DEF RemoveShard
  <2>2. tracker.is = "whole" => \A p \in Parts, r \in Ranks :
          \/ shard'[<<tracker.at, p, r>>] = shard[<<tracker.at, p, r>>]
          \/ shard'[<<tracker.at, p, r>>] = NoFile
    BY <1>2, <1>3, RemoveFacts DEF IInv, TypeOK
  <2> QED BY <2>1, <2>2
<1>4. CASE Rotate \/ PartSaved
  BY <1>1, <1>4 DEF Rotate, PartSaved, disk
<1>5. ASSUME NEW r \in Ranks, OpenShard(r) \/ CloseShard(r)
      PROVE  /\ UNCHANGED data
             /\ tracker.is = "whole" => \A p \in Parts, q \in Ranks :
                  shard'[<<tracker.at, p, q>>] = shard[<<tracker.at, p, q>>]
  <2>1. UNCHANGED data
    BY <1>5 DEF OpenShard, CloseShard
  <2>2. \A f \in DOMAIN shard : f # Mine(r) => shard'[f] = shard[f]
    BY <1>5 DEF OpenShard, CloseShard
  <2>3. tracker.is = "whole" => \A p \in Parts, q \in Ranks :
          shard'[<<tracker.at, p, q>>] = shard[<<tracker.at, p, q>>]
    BY <1>2, <2>2 DEF Mine, IInv, TypeOK
  <2> QED BY <2>1, <2>3
<1>6. CASE OpenData \/ CloseData
  <2>1. UNCHANGED shard
    BY <1>6 DEF OpenData, CloseData
  <2>2. tracker.is = "whole" => data'[tracker.at] = data[tracker.at]
    BY <1>2, <1>6 DEF OpenData, CloseData, IInv, TypeOK
  <2> QED BY <1>1, <2>1, <2>2
<1> QED BY <1>1, <1>3, <1>4, <1>5, <1>6

LEMMA CloseTrackerAgreed ==
  ASSUME IInv, CloseTracker
  PROVE  AgreedOK'
<1>1. /\ pc = "tracker" /\ Running /\ tracker' = Whole(step, 0)
      /\ UNCHANGED <<shard, data>>
  BY DEF CloseTracker, Running
<1>2. /\ data[step] = Whole(position, 0)
      /\ \A p \in Parts, r \in Ranks : shard[<<step, p, r>>] = Whole(updates[p], sft)
  BY <1>1 DEF IInv, WrittenOK, PartDone
<1>3. \A k, l : Whole(k, l).is = "whole" /\ Whole(k, l).at = k
  BY DEF Whole
<1>4. /\ \A p \in Parts, r, q \in Ranks : shard[<<step, p, r>>] = shard[<<step, p, q>>]
      /\ Loadable(step)
  BY <1>2, <1>3 DEF Loadable
<1> QED BY <1>1, <1>3, <1>4 DEF AgreedOK, Loadable

LEMMA StepKeepsAgreed ==
  ASSUME IInv, AgreedOK, [Next]_vars
  PROVE  AgreedOK'
<1>1. CASE StartFresh
  BY <1>1 DEF StartFresh, Start, disk, AgreedOK
<1>2. CASE Resume
  BY <1>2 DEF Resume, Start, disk, AgreedOK, Loadable
<1>3. CASE FailToStart \/ Crash
  <2>1. UNCHANGED disk /\ pc' # "step"
    BY <1>3 DEF FailToStart, Start, Crash
  <2> QED BY <2>1, AgreedStays DEF disk
<1>4. CASE TrainStep
  <2>1. UNCHANGED disk /\ pc = "step"
    BY <1>4 DEF TrainStep
  <2> QED BY <2>1, AgreedStays DEF disk
<1>5. CASE \/ Rotate \/ PartSaved
           \/ \E r \in Ranks : RemoveShard(r) \/ OpenShard(r) \/ CloseShard(r)
           \/ OpenData \/ CloseData
  <2>1. UNCHANGED tracker /\ pc' # "step"
    BY <1>5, SaveLeaves
  <2>2. tracker.is = "whole" => \A p \in Parts, r \in Ranks :
          \/ shard'[<<tracker.at, p, r>>] = shard[<<tracker.at, p, r>>]
          \/ shard'[<<tracker.at, p, r>>] = NoFile
    BY <1>5, SaveLeaves
  <2> QED BY <2>1, <2>2, AgreedLoses
<1>6. CASE OpenTracker
  BY <1>6 DEF OpenTracker, Torn, AgreedOK
<1>7. CASE CloseTracker
  BY <1>7, CloseTrackerAgreed
<1>8. CASE UNCHANGED vars
  BY <1>8, AgreedStays DEF vars, disk
<1> QED BY <1>1, <1>2, <1>3, <1>4, <1>5, <1>6, <1>7, <1>8 DEF Next

\* It does not matter which rank is asked what was kept.
LEMMA AllLoadTheSame ==
  ASSUME IInv, TrackedOK, AgreedOK, tracker.is = "whole", Loadable(tracker.at), NEW r \in Ranks
  PROVE  /\ OnDisk = {Loaded(tracker.at, r)}
         /\ Loaded(tracker.at, r).position = tracker.at
<1> DEFINE q == CHOOSE x \in Ranks : TRUE
<1>1. q \in Ranks
  BY TrainerAssumption
<1>2. \A p \in Parts : shard[<<tracker.at, p, q>>] = shard[<<tracker.at, p, r>>]
  BY <1>1 DEF AgreedOK, Loadable
<1>3. Loaded(tracker.at, q) = Loaded(tracker.at, r)
  <2>1. [p \in Parts |-> shard[<<tracker.at, p, q>>].at] = [p \in Parts |-> shard[<<tracker.at, p, r>>].at]
    BY <1>2
  <2>2. shard[<<tracker.at, "actor", q>>] = shard[<<tracker.at, "actor", r>>]
    BY <1>2, PartFacts
  <2> QED BY <2>1, <2>2 DEF Loaded
<1>4. data[tracker.at].at = tracker.at
  BY DEF TrackedOK
<1>5. Loaded(tracker.at, r).position = tracker.at
  BY <1>4 DEF Loaded, Lesson
<1>6. OnDisk = {Loaded(tracker.at, q)}
  BY DEF OnDisk
<1> QED BY <1>3, <1>5, <1>6

\* What is kept stays, or is lost with files of the checkpoint that is named.
LEMMA KeptOrLost ==
  ASSUME UNCHANGED tracker, tracker.is = "whole" => data'[tracker.at] = data[tracker.at],
         tracker.is = "whole" => \A p \in Parts, r \in Ranks :
           \/ shard'[<<tracker.at, p, r>>] = shard[<<tracker.at, p, r>>]
           \/ shard'[<<tracker.at, p, r>>] = NoFile
  PROVE  OnDisk' = OnDisk \/ OnDisk' = {}
<1>1. CASE tracker.is # "whole"
  BY <1>1 DEF OnDisk
<1>2. CASE tracker.is = "whole" /\ ~ Loadable(tracker.at)'
  BY <1>2 DEF OnDisk
<1>3. CASE tracker.is = "whole" /\ Loadable(tracker.at)'
  <2> DEFINE t == tracker.at
  <2>1. NoFile.is = "none"
    BY DEF NoFile
  <2>2. \A p \in Parts, r \in Ranks : shard'[<<t, p, r>>] = shard[<<t, p, r>>]
    BY <1>3, <2>1 DEF Loadable
  <2>3. Loadable(t)
    BY <1>3, <2>2 DEF Loadable
  <2>4. ASSUME NEW r \in Ranks PROVE Loaded(t, r)' = Loaded(t, r)
    <3>1. [p \in Parts |-> shard'[<<t, p, r>>].at] = [p \in Parts |-> shard[<<t, p, r>>].at]
      BY <2>2
    <3>2. shard'[<<t, "actor", r>>] = shard[<<t, "actor", r>>]
      BY <2>2, PartFacts
    <3> QED BY <1>3, <3>1, <3>2 DEF Loaded
  <2>5. (CHOOSE r \in Ranks : TRUE) \in Ranks
    BY TrainerAssumption
  <2> QED BY <1>3, <2>3, <2>4, <2>5 DEF OnDisk
<1> QED BY <1>1, <1>2, <1>3

LEMMA DiskStays == ASSUME UNCHANGED disk PROVE OnDisk' = OnDisk
<1>1. UNCHANGED <<shard, data, tracker>>
  BY DEF disk
<1> QED BY <1>1 DEF OnDisk, Loadable, Loaded

\* A job that starts has learned what was kept.
LEMMA BeginRefines ==
  ASSUME IInv, TrackedOK, AgreedOK, StartFresh \/ Resume
  PROVE  Snapshots!Begin
<1>1. /\ ~Running /\ Running' /\ pc # "broken" /\ pc' # "broken" /\ UNCHANGED disk
      /\ hasSft' = ~SftEnabled
  BY DEF StartFresh, Resume, Start, Running
<1>2. InMemory = {} /\ InMemory' = {Lesson(position', updates', sft')}
  BY <1>1 DEF InMemory
<1>3. CASE StartFresh
  <2>1. OnDisk = {Lesson(0, [p \in Parts |-> 0], 0)}
    BY <1>3 DEF StartFresh, OnDisk
  <2>2. InMemory' = OnDisk
    BY <1>2, <1>3, <2>1 DEF StartFresh
  <2> QED BY <1>1, <1>2, <2>1, <2>2, DiskStays DEF Snapshots!Begin
<1>4. CASE Resume
  <2>1. tracker.is = "whole" /\ Loadable(tracker.at) /\ position' = data[tracker.at].at
    BY <1>4 DEF Resume
  <2>2. PICK r \in Ranks :
          /\ updates' = [p \in Parts |-> shard[<<tracker.at, p, r>>].at]
          /\ sft' = shard[<<tracker.at, "actor", r>>].sft
    BY <1>4 DEF Resume
  <2>3. InMemory' = {Loaded(tracker.at, r)}
    BY <1>2, <2>1, <2>2 DEF Loaded
  <2>4. OnDisk = InMemory' /\ OnDisk # {}
    BY <2>1, <2>3, AllLoadTheSame
  <2> QED BY <1>1, <1>2, <2>4, DiskStays DEF Snapshots!Begin
<1> QED BY <1>3, <1>4

LEMMA RefuseRefines ==
  ASSUME IInv, FailToStart
  PROVE  Snapshots!Refuse
<1>1. /\ ~Running /\ ~Running' /\ pc # "broken" /\ pc' = "broken" /\ UNCHANGED disk
  BY DEF FailToStart, Start, Running
<1>2. InMemory = {} /\ InMemory' = {}
  BY <1>1 DEF InMemory
<1>3. OnDisk = {}
  BY DEF FailToStart, OnDisk
<1> QED BY <1>1, <1>2, <1>3, DiskStays DEF Snapshots!Refuse

\* A job that trains has what it would start again with.
LEMMA NeverWithout ==
  ASSUME IInv, AgreedOK, pc = "step"
  PROVE  OnDisk # {}
<1>1. Running /\ tracker.is \in {"none", "whole"}
  BY DEF IInv, TrackerOK, TypeOK, Files, Running
<1>2. tracker.is = "whole" => Loadable(tracker.at)
  BY DEF AgreedOK
<1> QED BY <1>1, <1>2 DEF OnDisk

LEMMA TrainStepRefines ==
  ASSUME IInv, AgreedOK, TrainStep
  PROVE  Snapshots!Learn \/ Snapshots!End
<1>1. /\ pc = "step" /\ Running /\ pc' \in {"rotate", "step", "done"} /\ UNCHANGED disk
      /\ position' = position + 1
      /\ updates' = [p \in Parts |->
           IF p = "critic" \/ (hasSft /\ CriticWarmup <= step)
             THEN updates[p] + 1 ELSE updates[p]]
      /\ hasSft \in BOOLEAN
  BY DEF TrainStep, GoOn, Update, Running, IInv, TypeOK
<1>2. PICK rounds \in {0, 1} :
        /\ sft' = sft + rounds
        /\ rounds = 1 => ~hasSft
        /\ hasSft' = (hasSft \/ rounds = 1)
  <2>1. PICK samples \in {0, 1} : LearnFrom(buffer + samples)
    BY DEF TrainStep
  <2>2. sft \in Nat
    BY DEF IInv, TypeOK
  <2>3. CASE FineTune /\ ~hasSft
    <3>1. sft' = sft + 1 /\ hasSft' = TRUE
      BY <2>3 DEF FineTune
    <3> QED BY <2>3, <3>1
  <2>4. CASE UNCHANGED <<sft, hasSft>>
    <3>1. sft' = sft + 0 /\ hasSft' = hasSft
      BY <2>2, <2>4
    <3>2. hasSft' = (hasSft \/ 0 = 1)
      BY <3>1, <1>1
    <3>3. 0 \in {0, 1} /\ (0 = 1 => ~hasSft)
      OBVIOUS
    <3> QED BY <3>1, <3>2, <3>3, Zenon
  <2>5. (FineTune /\ ~hasSft) \/ UNCHANGED <<sft, hasSft>>
    BY <2>1 DEF LearnFrom
  <2> QED BY <2>3, <2>4, <2>5
<1>3. OnDisk # {} /\ OnDisk' = OnDisk
  BY <1>1, NeverWithout, DiskStays
<1> DEFINE m == Lesson(position, updates, sft)
           updated == {p \in Parts : p = "critic" \/ (hasSft /\ CriticWarmup <= step)}
<1>4. InMemory = {m} /\ pc # "broken" /\ pc' # "broken"
  BY <1>1 DEF InMemory
<1>5. CASE pc' = "done"
  <2>1. ~Running' /\ InMemory' = {}
    BY <1>5 DEF Running, InMemory
  <2>2. Snapshots!Ended
    BY <2>1 DEF Snapshots!Ended
  <2> QED BY <1>3, <1>4, <2>2 DEF Snapshots!End
<1>6. CASE pc' # "done"
  <2>1. Running' /\ InMemory' = {Lesson(position', updates', sft')}
    BY <1>1, <1>6 DEF Running, InMemory
  <2>2. updated \in SUBSET Parts /\ (hasSft \/ "actor" \notin updated)
    OBVIOUS
  <2>3. Lesson(position', updates', sft') = Snapshots!Learnt(m, updated, rounds)
    <3>1. updates' = [p \in Parts |-> IF p \in updated THEN updates[p] + 1 ELSE updates[p]]
      BY <1>1
    <3>2. m.position = position /\ m.updates = updates /\ m.sft = sft
      BY DEF Lesson
    <3> HIDE DEF m, updated
    <3> QED BY <1>1, <1>2, <3>1, <3>2 DEF Lesson, Snapshots!Learnt
  <2>4. (Running /\ hasSft)' = ((Running /\ hasSft) \/ rounds = 1)
    BY <1>1, <1>2, <2>1
  <2> HIDE DEF m, updated
  <2>5. /\ (Running /\ hasSft) \/ "actor" \notin updated
        /\ rounds = 1 => ~ (Running /\ hasSft)
        /\ InMemory' = {Snapshots!Learnt(m, updated, rounds)}
    BY <1>1, <1>2, <2>1, <2>2, <2>3
  <2> QED BY <1>3, <1>4, <2>2, <2>4, <2>5 DEF Snapshots!Learn
<1> QED BY <1>5, <1>6

\* What a job has learned when it saves is later than what was kept.
LEMMA SavesLater ==
  ASSUME IInv, LearnedOK, TrackedOK, AgreedOK, Running, pc # "step"
  PROVE  \A m \in InMemory, k \in OnDisk : k.position < m.position
<1>1. InMemory = {Lesson(position, updates, sft)} /\ position = step /\ step \in Steps
  BY DEF InMemory, LearnedOK, IInv, TypeOK
<1>2. Lesson(position, updates, sft).position = step
  BY <1>1 DEF Lesson
<1>3. CASE tracker.is = "none"
  <2>1. OnDisk = {Lesson(0, [p \in Parts |-> 0], 0)}
    BY <1>3 DEF OnDisk
  <2>2. \A k \in OnDisk : k.position = 0
    BY <2>1 DEF Lesson
  <2> QED BY <1>1, <1>2, <2>2 DEF Steps
<1>4. CASE tracker.is = "whole" /\ Loadable(tracker.at)
  <2>1. PICK r \in Ranks : TRUE
    BY TrainerAssumption
  <2>2. \A k \in OnDisk : k.position = tracker.at
    BY <1>4, <2>1, AllLoadTheSame
  <2>3. tracker.at < step
    BY <1>4 DEF IInv, TrackerOK
  <2> QED BY <1>1, <1>2, <2>2, <2>3
<1>5. CASE ~ (tracker.is = "none" \/ (tracker.is = "whole" /\ Loadable(tracker.at)))
  BY <1>5 DEF OnDisk
<1> QED BY <1>3, <1>4, <1>5

\* The steps of a save before its last change nothing, or give up what was
\* kept.
LEMMA SaveRefines ==
  ASSUME IInv, LearnedOK, TrackedOK, AgreedOK,
         \/ Rotate \/ PartSaved
         \/ \E r \in Ranks : RemoveShard(r) \/ OpenShard(r) \/ CloseShard(r)
         \/ OpenData \/ CloseData \/ OpenTracker
  PROVE  Snapshots!Replace \/ UNCHANGED Snapshots!checkpointVars
<1>1. /\ Running /\ Running' /\ pc # "step" /\ pc # "broken" /\ pc' # "broken"
      /\ UNCHANGED learned
  BY DEF Rotate, PartSaved, RemoveShard, OpenShard, CloseShard, OpenData, CloseData,
         OpenTracker, Running
<1>2. InMemory' = InMemory /\ (Running /\ hasSft)' = (Running /\ hasSft)
      /\ InMemory # {}
  BY <1>1 DEF InMemory, learned
<1>3. OnDisk' = OnDisk \/ OnDisk' = {}
  <2>1. CASE OpenTracker
    <3>1. tracker'.is = "torn"
      BY <2>1 DEF OpenTracker, Torn
    <3> QED BY <3>1 DEF OnDisk
  <2>2. CASE ~OpenTracker
    <3>1. /\ UNCHANGED tracker
          /\ tracker.is = "whole" => data'[tracker.at] = data[tracker.at]
          /\ tracker.is = "whole" => \A p \in Parts, r \in Ranks :
               \/ shard'[<<tracker.at, p, r>>] = shard[<<tracker.at, p, r>>]
               \/ shard'[<<tracker.at, p, r>>] = NoFile
      BY <2>2, SaveLeaves
    <3> QED BY <3>1, KeptOrLost
  <2> QED BY <2>1, <2>2
<1>4. CASE OnDisk' = OnDisk
  BY <1>1, <1>2, <1>4 DEF Snapshots!checkpointVars
<1>5. CASE OnDisk' = {} /\ OnDisk # {}
  <2>1. \E m \in InMemory, k \in OnDisk : k.position < m.position
    BY <1>1, <1>2, <1>5, SavesLater
  <2> QED BY <1>1, <1>2, <1>5, <2>1 DEF Snapshots!Replace
<1> QED BY <1>3, <1>4, <1>5

\* The last step of a save keeps all that was learned.
LEMMA CloseTrackerRefines ==
  ASSUME IInv, LearnedOK, TrackedOK, AgreedOK, CloseTracker
  PROVE  Snapshots!Save
<1>1. /\ pc = "tracker" /\ Running /\ pc' \in {"step", "done"} /\ tracker = Torn
      /\ tracker' = Whole(step, 0)
      /\ UNCHANGED <<learned, shard, data>>
  BY DEF CloseTracker, GoOn, Running
<1>2. InMemory = {Lesson(position, updates, sft)} /\ OnDisk = {}
  BY <1>1 DEF InMemory, OnDisk, Torn
<1>3. /\ IInv' /\ TrackedOK' /\ AgreedOK'
  BY CloseTrackerKeeps, CloseTrackerLearned, CloseTrackerAgreed
<1>4. /\ data[step] = Whole(position, 0)
      /\ \A p \in Parts, r \in Ranks : shard[<<step, p, r>>] = Whole(updates[p], sft)
  BY <1>1 DEF IInv, WrittenOK, PartDone
<1>5. \A k, l : Whole(k, l).is = "whole" /\ Whole(k, l).at = k /\ Whole(k, l).sft = l
  BY DEF Whole
<1>6. tracker'.is = "whole" /\ tracker'.at = step
  BY <1>1, <1>5
<1>7. ASSUME NEW r \in Ranks
      PROVE  Loaded(tracker.at, r)' = Lesson(position, updates, sft)
  <2>1. [p \in Parts |-> shard'[<<step, p, r>>].at] = updates
    <3>1. updates = [p \in Parts |-> updates[p]]
      BY DEF IInv, TypeOK
    <3>2. \A p \in Parts : shard'[<<step, p, r>>].at = updates[p]
      BY <1>1, <1>4, <1>5
    <3> QED BY <3>1, <3>2
  <2>2. shard'[<<step, "actor", r>>].sft = sft /\ data'[step].at = position
    BY <1>1, <1>4, <1>5, PartFacts
  <2> QED BY <1>6, <2>1, <2>2 DEF Loaded
<1>8. OnDisk' = InMemory
  <2> DEFINE q == CHOOSE r \in Ranks : TRUE
  <2>1. q \in Ranks
    BY TrainerAssumption
  <2>2. Loadable(tracker.at)'
    BY <1>1, <1>4, <1>5, <1>6 DEF Loadable
  <2>3. OnDisk' = {Loaded(tracker.at, q)'}
    BY <1>6, <2>2 DEF OnDisk
  <2> QED BY <1>2, <1>7, <2>1, <2>3
<1>9. \/ InMemory' = {} /\ (Running /\ hasSft)' = FALSE
      \/ InMemory' = InMemory /\ (Running /\ hasSft)' = (Running /\ hasSft)
  <2>1. CASE pc' = "done"
    BY <2>1 DEF InMemory, Running
  <2>2. CASE pc' = "step"
    BY <1>1, <2>2 DEF InMemory, Running, learned
  <2> QED BY <1>1, <2>1, <2>2
<1>10. pc # "broken" /\ pc' # "broken"
  BY <1>1
<1> QED BY <1>2, <1>8, <1>9, <1>10 DEF Snapshots!Save, Snapshots!Ended

LEMMA CrashRefines ==
  ASSUME IInv, Crash
  PROVE  Snapshots!End
<1>1. Running /\ ~Running' /\ pc # "broken" /\ pc' # "broken" /\ UNCHANGED disk
  BY DEF Crash, Running
<1>2. InMemory # {} /\ InMemory' = {} /\ (Running /\ hasSft)' = FALSE
  BY <1>1 DEF InMemory
<1> QED BY <1>1, <1>2, DiskStays DEF Snapshots!End, Snapshots!Ended

\* _save_checkpoint and _load_checkpoint implement Checkpoints: a job that
\* starts has learned all that one job had at one moment, the end of its last
\* save, wherever jobs died since; it is fine-tuned once more, not twice; and
\* it is refused only if a job died between giving up one checkpoint and
\* finishing the next.
THEOREM SavesAreSnapshots == Spec => ImplementsCheckpoints
<1> DEFINE Inv == IInv /\ LearnedOK /\ TrackedOK /\ AgreedOK
<1>1. Init => Inv /\ Snapshots!CheckpointInit
  <2> SUFFICES ASSUME Init PROVE Inv /\ Snapshots!CheckpointInit
    OBVIOUS
  <2>1. ~Running /\ pc # "broken" /\ tracker.is = "none" /\ InMemory = {}
    BY DEF Init, Running, NoFile, InMemory
  <2>2. AgreedOK
    BY <2>1 DEF AgreedOK
  <2>3. OnDisk = {Snapshots!Untrained}
    BY <2>1 DEF OnDisk, Lesson, Snapshots!Untrained
  <2> QED BY <2>1, <2>2, <2>3, InitHolds, InitLearned DEF Snapshots!CheckpointInit
<1>2. Inv /\ [Next]_vars => Inv'
  BY StepKeeps, StepKeepsLearned, StepKeepsAgreed
<1>3. Inv /\ [Next]_vars => [Snapshots!CheckpointNext]_(Snapshots!checkpointVars)
  <2> SUFFICES ASSUME Inv, [Next]_vars
               PROVE  Snapshots!CheckpointNext \/ UNCHANGED Snapshots!checkpointVars
    OBVIOUS
  <2>1. CASE StartFresh \/ Resume
    BY <2>1, BeginRefines DEF Snapshots!CheckpointNext
  <2>2. CASE FailToStart
    BY <2>2, RefuseRefines DEF Snapshots!CheckpointNext
  <2>3. CASE TrainStep
    BY <2>3, TrainStepRefines DEF Snapshots!CheckpointNext
  <2>4. CASE \/ Rotate \/ PartSaved
             \/ \E r \in Ranks : RemoveShard(r) \/ OpenShard(r) \/ CloseShard(r)
             \/ OpenData \/ CloseData \/ OpenTracker
    BY <2>4, SaveRefines DEF Snapshots!CheckpointNext
  <2>5. CASE CloseTracker
    BY <2>5, CloseTrackerRefines DEF Snapshots!CheckpointNext
  <2>6. CASE Crash
    BY <2>6, CrashRefines DEF Snapshots!CheckpointNext
  <2>7. CASE UNCHANGED vars
    <3>1. UNCHANGED disk /\ pc' = pc /\ UNCHANGED learned
      BY <2>7 DEF vars
    <3>2. Running' = Running
      BY <3>1 DEF Running
    <3> QED BY <3>1, <3>2, DiskStays DEF Snapshots!checkpointVars, InMemory, learned
  <2> QED BY <2>1, <2>2, <2>3, <2>4, <2>5, <2>6, <2>7 DEF Next
<1> QED BY <1>1, <1>2, <1>3, PTL DEF Spec, ImplementsCheckpoints, Snapshots!CheckpointSpec

\* find_latest_ckpt_path always names a checkpoint that loads, as the docstring
\* of the tracker file says, unless a save may have removed the only one.
THEOREM RestartsUnlessOnlyCopy ==
  Spec => []((\A p \in Parts : Keep(p) # 1) => TrackerRestarts)
<1>1. IInv => ((\A p \in Parts : Keep(p) # 1) => TrackerRestarts)
  BY DEF IInv, TrackedIsComplete, Complete, TrackerRestarts, Loadable
<1> QED BY <1>1, Invariance, PTL

-----------------------------------------------------------------------------
(* What rotation keeps.                                                    *)

\* What is on a list is no more than its length.
LEMMA ListBounds ==
  ASSUME NEW q \in Seq(Steps), NEW S, \A s \in S : \E i \in 1 .. Len(q) : q[i] = s
  PROVE  IsFiniteSet(S) /\ Cardinality(S) \in Nat /\ Cardinality(S) <= Len(q)
<1>0. 1 \in Int /\ Len(q) \in Int /\ Len(q) \in Nat
  BY LenProperties
<1> DEFINE Listed == {t \in Steps : \E i \in 1 .. Len(q) : q[i] = t}
           f == [i \in 1 .. Len(q) |-> q[i]]
<1>1. f \in Surjection(1 .. Len(q), Listed)
  <2>1. \A i \in 1 .. Len(q) : q[i] \in Steps
    BY ElementOfSeq
  <2> QED BY <2>1 DEF Surjection
<1>2. IsFiniteSet(1 .. Len(q)) /\ Cardinality(1 .. Len(q)) = Len(q)
  <2>1. /\ IsFiniteSet(1 .. Len(q))
        /\ Cardinality(1 .. Len(q)) = IF 1 > Len(q) THEN 0 ELSE Len(q) - 1 + 1
    BY <1>0, FS_Interval
  <2> QED BY <1>0, <2>1
<1>3. IsFiniteSet(Listed) /\ Cardinality(Listed) <= Len(q)
  BY <1>1, <1>2, FS_Surjection
<1>4. S \in SUBSET Listed
  BY ElementOfSeq
<1> HIDE DEF Listed
<1>5. IsFiniteSet(S) /\ Cardinality(S) <= Cardinality(Listed)
  BY <1>3, <1>4, FS_Subset
<1>6. Cardinality(S) \in Nat /\ Cardinality(Listed) \in Nat
  BY <1>3, <1>5, FS_CardinalityType
<1> QED BY <1>0, <1>3, <1>5, <1>6

\* With one thing more it is no more than that and one.
LEMMA ListBoundsMore ==
  ASSUME NEW q \in Seq(Steps), NEW S, NEW last,
         \A s \in S : (\E i \in 1 .. Len(q) : q[i] = s) \/ s = last
  PROVE  Cardinality(S) \in Nat /\ Cardinality(S) <= Len(q) + 1
<1>1. \A s \in S \ {last} : \E i \in 1 .. Len(q) : q[i] = s
  OBVIOUS
<1>2. /\ IsFiniteSet(S \ {last}) /\ Cardinality(S \ {last}) \in Nat
      /\ Cardinality(S \ {last}) <= Len(q) /\ Len(q) \in Nat
  BY <1>1, ListBounds, LenProperties
<1>3. CASE last \in S
  <2>1. S = (S \ {last}) \cup {last}
    BY <1>3
  <2>2. Cardinality((S \ {last}) \cup {last}) = Cardinality(S \ {last}) + 1
    BY <1>2, FS_AddElement
  <2>3. Cardinality(S) = Cardinality(S \ {last}) + 1
    BY <2>1, <2>2, Zenon
  <2> QED BY <1>2, <2>3
<1>4. CASE last \notin S
  <2>1. S \ {last} = S
    BY <1>4
  <2>2. Cardinality(S) = Cardinality(S \ {last})
    BY <2>1, Zenon
  <2> QED BY <1>2, <2>2
<1> QED BY <1>3, <1>4

LEMMA FiniteSteps == \A S \in SUBSET Steps : IsFiniteSet(S) /\ Cardinality(S) \in Nat
<1>1. IsFiniteSet(Steps)
  BY TrainerAssumption, FS_Interval DEF Steps
<1> QED BY <1>1, FS_Subset, FS_CardinalityType

LEMMA KeepType == \A p \in Parts : Keep(p) \in Nat
BY TrainerAssumption DEF Keep

\* The checkpoints of all jobs so far.
LEMMA StoredBound ==
  ASSUME run \in Nat, NEW p \in Parts, KeptPart(p)
  PROVE  Cardinality(Stored(p)) <= Keep(p) * run
<1>0. Keep(p) \in Nat
  BY KeepType
<1>1. CASE run = 0
  <2>1. Cardinality(Stored(p)) = 0
    BY <1>1, FS_EmptySet DEF KeptPart
  <2> QED BY <1>0, <1>1, <2>1
<1>2. CASE run > 0
  <2>1. Stored(p) = Old(p) \cup Own(p) /\ Old(p) \in SUBSET Steps /\ Own(p) \in SUBSET Steps
    BY DEF Stored, Old, Own
  <2>2. /\ IsFiniteSet(Old(p)) /\ IsFiniteSet(Own(p))
        /\ Cardinality(Old(p)) \in Nat /\ Cardinality(Own(p)) \in Nat
        /\ Cardinality(Old(p) \cap Own(p)) \in Nat
    BY <2>1, FiniteSteps
  <2>3. Cardinality(Stored(p)) <= Cardinality(Old(p)) + Cardinality(Own(p))
    <3>1. Cardinality(Stored(p)) =
            Cardinality(Old(p)) + Cardinality(Own(p)) - Cardinality(Old(p) \cap Own(p))
      BY <2>1, <2>2, FS_Union
    <3> QED BY <2>2, <3>1
  <2>4. Cardinality(Old(p)) <= Keep(p) * (run - 1) /\ Cardinality(Own(p)) <= Keep(p)
    BY <1>2 DEF KeptPart
  <2>5. Keep(p) * (run - 1) + Keep(p) = Keep(p) * run
    BY <1>0
  <2>6. Cardinality(Stored(p)) \in Nat /\ Keep(p) * (run - 1) \in Int
    BY <1>0, <2>1, FiniteSteps
  <2> QED BY <1>0, <2>2, <2>3, <2>4, <2>5, <2>6
<1> QED BY <1>1, <1>2

LEMMA InitKept == Init => KeptOK
<1> SUFFICES ASSUME Init PROVE KeptOK
  OBVIOUS
<1>1. run = 0 /\ ~Running /\ \A f \in DOMAIN shard : shard[f] = NoFile
  BY DEF Init, Running
<1>2. NoFile.is = "none" /\ NoFile.run = 0
  BY DEF NoFile
<1>3. \A s \in Steps, p \in Parts, r \in Ranks : shard[<<s, p, r>>].is = "none"
  BY <1>2 DEF Init
<1>4. \A p \in Parts : Stored(p) = {} /\ Own(p) = {}
  BY <1>3 DEF Stored, Own
<1>5. ASSUME NEW p \in Parts PROVE KeptPart(p)
  <2>1. Cardinality(Own(p)) <= Keep(p)
    BY <1>4, KeepType, FS_EmptySet
  <2>2. Stored(p) = {} /\ ~(run > 0)
    BY <1>1, <1>4
  <2> QED BY <1>1, <2>1, <2>2 DEF KeptPart
<1> QED BY <1>1, <1>2, <1>5 DEF KeptOK

\* A job starts: all that is there is of former jobs.
LEMMA StartKept ==
  ASSUME IInv, KeptOK, Start, pc' \in {"step", "broken"}
  PROVE  KeptOK'
<1>0. /\ run \in Nat /\ run' = run + 1 /\ UNCHANGED shard
      /\ \A p \in Parts : saved'[p] = <<>>
  BY DEF IInv, TypeOK, Start, disk
<1>1. shard \in [Steps \X Parts \X Ranks -> Files] /\ \A f \in Files : f.run \in Int
  BY DEF IInv, TypeOK, Files
<1>2. \A f \in DOMAIN shard : shard[f].run \in Int /\ shard[f].run <= run
  BY <1>1 DEF KeptOK
<1>3. ASSUME NEW p \in Parts, Keep(p) > 0
      PROVE  KeptPart(p)'
  <2>1. \A s \in Steps, r \in Ranks : shard[<<s, p, r>>].run # run'
    BY <1>0, <1>1, <1>2
  <2>2. Old(p)' = Stored(p) /\ Own(p)' = {}
    BY <1>0, <2>1 DEF Old, Own, Stored
  <2>3. Cardinality(Old(p)') <= Keep(p) * (run' - 1)
    BY <1>0, <1>3, <2>2, StoredBound DEF KeptOK
  <2>4. Cardinality(Own(p)') <= Keep(p) /\ Len(saved'[p]) = 0 /\ Keep(p) \in Nat
    BY <1>0, <2>2, FS_EmptySet, KeepType
  <2>5. run' # 0 /\ pc' # "shards"
    BY <1>0
  <2> QED BY <2>2, <2>3, <2>4, <2>5 DEF KeptPart, Keep
<1>4. \A f \in DOMAIN shard' : shard'[f].run <= run'
  BY <1>0, <1>2
<1> QED BY <1>3, <1>4 DEF KeptOK, Keep

\* What a step of a running job has to establish.
LEMMA KeptNext ==
  ASSUME IInv, IInv', KeptOK, Running, Running', UNCHANGED run,
         NEW p \in Parts, Keep(p) > 0,
         Old(p)' \in SUBSET Old(p),
         Len(saved'[p]) + (IF pc' = "shards" /\ part' = p THEN 1 ELSE 0) <= Keep(p),
         \A s \in Own(p)' :
           \/ \E i \in 1 .. Len(saved'[p]) : saved'[p][i] = s
           \/ pc' = "shards" /\ part' = p /\ s = step'
  PROVE  KeptPart(p)'
<1>1. run \in Nat /\ run > 0 /\ run' = run
  BY DEF IInv, TypeOK, CountsOK
<1>2. Cardinality(Old(p)) <= Keep(p) * (run - 1)
  BY <1>1 DEF KeptOK, KeptPart
<1>3. Old(p) \in SUBSET Steps
  BY DEF Old
<1>4. Cardinality(Old(p)') <= Cardinality(Old(p))
  BY <1>3, FiniteSteps, FS_Subset
<1>5. Cardinality(Old(p)') <= Keep(p) * (run' - 1)
  <2>1. Keep(p) * (run - 1) \in Int
    BY <1>1, KeepType
  <2>2. Cardinality(Old(p)') \in Nat /\ Cardinality(Old(p)) \in Nat
    BY <1>3, FiniteSteps
  <2> QED BY <1>1, <1>2, <1>4, <2>1, <2>2
<1>6. Cardinality(Own(p)') <= Keep(p)
  <2>1. saved'[p] \in Seq(Steps) /\ Keep(p) \in Nat
    BY KeepType DEF IInv, TypeOK
  <2> DEFINE q == saved'[p]  S == Own(p)'
  <2> HIDE DEF q, S
  <2>2. CASE pc' = "shards" /\ part' = p
    <3>1. \A s \in S : (\E i \in 1 .. Len(q) : q[i] = s) \/ s = step'
      BY DEF q, S
    <3>2. Cardinality(S) <= Len(q) + 1 /\ Cardinality(S) \in Nat
      BY <2>1, <3>1, ListBoundsMore DEF q
    <3>3. Len(q) + 1 <= Keep(p)
      BY <2>2 DEF q
    <3>4. Len(q) \in Nat
      BY <2>1, LenProperties DEF q
    <3> QED BY <2>1, <3>2, <3>3, <3>4 DEF S
  <2>3. CASE ~(pc' = "shards" /\ part' = p)
    <3>1. \A s \in S : \E i \in 1 .. Len(q) : q[i] = s
      BY <2>3 DEF q, S
    <3>2. Cardinality(S) <= Len(q) /\ Cardinality(S) \in Nat
      BY <2>1, <3>1, ListBounds DEF q
    <3>3. Len(q) <= Keep(p) /\ Len(q) \in Nat
      <4>1. Len(q) \in Nat
        BY <2>1, LenProperties DEF q
      <4>2. Len(q) + 0 <= Keep(p)
        BY <2>3 DEF q
      <4> QED BY <4>1, <4>2
    <3> QED BY <2>1, <3>2, <3>3 DEF S
  <2> QED BY <2>2, <2>3
<1>7. Keep(p)' = Keep(p)
  BY DEF Keep
<1>8. run' # 0
  BY <1>1
<1> QED BY <1>5, <1>6, <1>7, <1>8, Zenon DEF KeptPart
\* A step that leaves the checkpoints and the lists alone.
LEMMA KeptStays ==
  ASSUME IInv, IInv', KeptOK, UNCHANGED <<shard, run>>,
         Running' => /\ Running /\ UNCHANGED saved
                     /\ pc = "shards" \/ pc' = "shards" => UNCHANGED <<pc, part, step>>
  PROVE  KeptOK'
<1>1. ASSUME NEW p \in Parts, Keep(p) > 0
      PROVE  KeptPart(p)'
  <2>1. Old(p)' = Old(p) /\ Own(p)' = Own(p) /\ Stored(p)' = Stored(p)
    BY DEF Old, Own, Stored, Steps
  <2>2. KeptPart(p)
    BY <1>1 DEF KeptOK
  <2>3. CASE ~Running'
    <3>1. Keep(p)' = Keep(p)
      BY DEF Keep
    <3> QED BY <2>1, <2>2, <2>3, <3>1, Zenon DEF KeptPart
  <2>4. CASE Running'
    <3>1. /\ Running /\ saved' = saved
          /\ (pc' = "shards" /\ part' = p) <=> (pc = "shards" /\ part = p)
          /\ pc = "shards" => step' = step
      BY <2>4
    <3>2. /\ Len(saved[p]) + (IF pc = "shards" /\ part = p THEN 1 ELSE 0) <= Keep(p)
          /\ \A s \in Own(p) :
               \/ \E i \in 1 .. Len(saved[p]) : saved[p][i] = s
               \/ pc = "shards" /\ part = p /\ s = step
      BY <2>2, <3>1 DEF KeptPart
    <3>3. Len(saved'[p]) + (IF pc' = "shards" /\ part' = p THEN 1 ELSE 0) <= Keep(p)
      BY <3>1, <3>2
    <3>4. \A s \in Own(p)' :
               \/ \E i \in 1 .. Len(saved'[p]) : saved'[p][i] = s
               \/ pc' = "shards" /\ part' = p /\ s = step'
      BY <2>1, <3>1, <3>2
    <3> QED BY <1>1, <2>1, <2>4, <3>1, <3>3, <3>4, KeptNext
  <2> QED BY <2>3, <2>4
<1>2. \A f \in DOMAIN shard' : shard'[f].run <= run'
  BY DEF KeptOK
<1> QED BY <1>1, <1>2 DEF KeptOK, Keep

\* A save that is over joins the list, in the place that was kept for it.
LEMMA PartSavedKept == ASSUME IInv, IInv', KeptOK, PartSaved PROVE KeptOK'
<1>0. /\ pc = "shards" /\ Running /\ Running' /\ pc' # "shards" /\ part \in Parts
      /\ step \in Steps /\ UNCHANGED <<shard, run>>
      /\ saved' = [saved EXCEPT ![part] = Append(@, step)]
  <2>1. pc = "shards" /\ pc' \in {"rotate", "data"} /\ UNCHANGED <<shard, run>>
    BY DEF PartSaved, disk, history
  <2> QED BY <2>1 DEF PartSaved, Running, IInv, TypeOK
<1>1. ASSUME NEW p \in Parts, Keep(p) > 0
      PROVE  KeptPart(p)'
  <2>1. Old(p)' = Old(p) /\ Own(p)' = Own(p)
    BY <1>0 DEF Old, Own, Steps
  <2>2. /\ Len(saved[p]) + (IF pc = "shards" /\ part = p THEN 1 ELSE 0) <= Keep(p)
        /\ \A s \in Own(p) :
             \/ \E i \in 1 .. Len(saved[p]) : saved[p][i] = s
             \/ pc = "shards" /\ part = p /\ s = step
    BY <1>0, <1>1 DEF KeptOK, KeptPart
  <2>3. saved[p] \in Seq(Steps) /\ Len(saved[p]) \in Nat /\ Keep(p) \in Nat
    BY KeepType, LenProperties DEF IInv, TypeOK
  <2>4. CASE p = part
    <3>1. saved'[p] = Append(saved[p], step)
      BY <1>0, <2>4 DEF IInv, TypeOK
    <3>2. /\ Len(saved'[p]) = Len(saved[p]) + 1
          /\ saved'[p][Len(saved[p]) + 1] = step
          /\ \A i \in 1 .. Len(saved[p]) : saved'[p][i] = saved[p][i]
      BY <1>0, <2>3, <3>1, AppendProperties
    <3>3. Len(saved'[p]) + 0 <= Keep(p)
      BY <1>0, <2>2, <2>3, <2>4, <3>2
    <3>4. \A s \in Own(p)' : \E i \in 1 .. Len(saved'[p]) : saved'[p][i] = s
      <4> SUFFICES ASSUME NEW s \in Own(p)
                   PROVE  \E i \in 1 .. Len(saved'[p]) : saved'[p][i] = s
        BY <2>1
      <4>1. CASE s = step
        BY <2>3, <3>2, <4>1
      <4>2. CASE s # step
        BY <2>2, <2>3, <3>2, <4>2
      <4> QED BY <4>1, <4>2
    <3> QED BY <1>0, <1>1, <2>1, <3>3, <3>4, KeptNext
  <2>5. CASE p # part
    <3>1. saved'[p] = saved[p]
      BY <1>0, <2>5 DEF IInv, TypeOK
    <3>2. Len(saved'[p]) + 0 <= Keep(p)
      BY <2>2, <2>5, <3>1
    <3>3. \A s \in Own(p)' : \E i \in 1 .. Len(saved'[p]) : saved'[p][i] = s
      BY <2>1, <2>2, <2>5, <3>1
    <3> QED BY <1>0, <1>1, <2>1, <3>2, <3>3, KeptNext
  <2> QED BY <2>4, <2>5
<1>2. \A f \in DOMAIN shard' : shard'[f].run <= run'
  BY <1>0 DEF KeptOK
<1> QED BY <1>1, <1>2 DEF KeptOK, Keep

\* A shard that is written is of the step that has its place.
LEMMA ShardKept ==
  ASSUME IInv, IInv', KeptOK, NEW r \in Ranks, OpenShard(r) \/ CloseShard(r)
  PROVE  KeptOK'
<1>0. /\ pc = "shards" /\ Running /\ Running' /\ part \in Parts /\ step \in Steps
      /\ UNCHANGED <<pc, step, part, saved, run>>
  BY DEF OpenShard, CloseShard, Running, IInv, TypeOK, history
<1>1. /\ DOMAIN shard' = DOMAIN shard
      /\ \A f \in DOMAIN shard : f # Mine(r) => shard'[f] = shard[f]
      /\ shard'[Mine(r)].run = run
  <2>1. /\ Mine(r) \in DOMAIN shard
        /\ shard' = [shard EXCEPT ![Mine(r)] = shard'[Mine(r)]]
        /\ shard'[Mine(r)] \in {Torn, Whole(updates[part], sft)}
    BY <1>0 DEF OpenShard, CloseShard, Mine, IInv, TypeOK
  <2>2. Torn.run = run /\ Whole(updates[part], sft).run = run
    BY DEF Torn, Whole
  <2> QED BY <2>1, <2>2
<1>2. ASSUME NEW p \in Parts, Keep(p) > 0
      PROVE  KeptPart(p)'
  <2>1. \A s \in Steps, q \in Ranks :
          \/ shard'[<<s, p, q>>] = shard[<<s, p, q>>]
          \/ p = part /\ s = step /\ shard'[<<s, p, q>>].run = run
    BY <1>1 DEF Mine, IInv, TypeOK
  <2>2. Old(p)' \in SUBSET Old(p)
    BY <1>0, <2>1 DEF Old, Steps
  <2>3. \A s \in Own(p)' : s \in Own(p) \/ (p = part /\ s = step)
    BY <1>0, <2>1 DEF Own, Steps
  <2>4. /\ Len(saved[p]) + (IF pc = "shards" /\ part = p THEN 1 ELSE 0) <= Keep(p)
        /\ \A s \in Own(p) :
             \/ \E i \in 1 .. Len(saved[p]) : saved[p][i] = s
             \/ pc = "shards" /\ part = p /\ s = step
    BY <1>0, <1>2 DEF KeptOK, KeptPart
  <2>5. Len(saved'[p]) + (IF pc' = "shards" /\ part' = p THEN 1 ELSE 0) <= Keep(p)
    BY <1>0, <2>4
  <2>6. \A s \in Own(p)' :
          \/ \E i \in 1 .. Len(saved'[p]) : saved'[p][i] = s
          \/ pc' = "shards" /\ part' = p /\ s = step'
    BY <1>0, <2>3, <2>4
  <2> QED BY <1>0, <1>2, <2>2, <2>5, <2>6, KeptNext
<1>3. \A f \in DOMAIN shard' : shard'[f].run <= run'
  <2>1. run <= run
    BY DEF IInv, TypeOK
  <2> QED BY <1>0, <1>1, <2>1 DEF KeptOK
<1> QED BY <1>2, <1>3 DEF KeptOK, Keep
\* Files that are removed are no checkpoints of any job; the list keeps its
\* room.
LEMMA RemoveKept ==
  ASSUME IInv, IInv', KeptOK, NEW q \in Ranks, RemoveShard(q)
  PROVE  KeptOK'
<1>0. /\ pc = "rotate" /\ Running /\ Running'
      /\ \A f \in DOMAIN shard : shard'[f] \in {shard[f], NoFile}
      /\ DOMAIN shard' = DOMAIN shard
      /\ UNCHANGED <<pc, step, part, saved, run>>
  BY RemoveFacts DEF IInv, TypeOK, history
<1>1. NoFile.is = "none" /\ NoFile.run = 0
  BY DEF NoFile
<1>2. ASSUME NEW p \in Parts, Keep(p) > 0
      PROVE  KeptPart(p)'
  <2>1. \A s \in Steps, r \in Ranks : <<s, p, r>> \in DOMAIN shard
    BY DEF IInv, TypeOK
  <2>2. Old(p)' \in SUBSET Old(p) /\ Own(p)' \in SUBSET Own(p)
    BY <1>0, <1>1, <2>1 DEF Old, Own, Steps
  <2>3. /\ Len(saved[p]) + 0 <= Keep(p)
        /\ \A s \in Own(p) : \E i \in 1 .. Len(saved[p]) : saved[p][i] = s
    BY <1>0, <1>2 DEF KeptOK, KeptPart
  <2>4. Len(saved'[p]) + (IF pc' = "shards" /\ part' = p THEN 1 ELSE 0) <= Keep(p)
    BY <1>0, <2>3
  <2>5. \A s \in Own(p)' : \E i \in 1 .. Len(saved'[p]) : saved'[p][i] = s
    BY <1>0, <2>2, <2>3
  <2> QED BY <1>0, <1>2, <2>2, <2>4, <2>5, KeptNext
<1>3. \A f \in DOMAIN shard' : shard'[f].run <= run'
  <2>1. 0 <= run
    BY DEF IInv, TypeOK
  <2> QED BY <1>0, <1>1, <2>1 DEF KeptOK
<1> QED BY <1>2, <1>3 DEF KeptOK, Keep

\* Rotation makes room for one more, and takes off the list only what it
\* removes.
LEMMA RotateMakesRoom ==
  ASSUME IInv, Rotate, Keep(part) > 0
  PROVE  /\ Len(saved'[part]) + 1 <= Keep(part)
         /\ \A j \in 1 .. Len(saved[part]) :
              \/ \E i \in 1 .. Len(saved'[part]) : saved'[part][i] = saved[part][j]
              \/ \A r \in Ranks : shard'[<<saved[part][j], part, r>>] = NoFile
<1> DEFINE s == saved[part]  k == Removed(part)
<1>0. /\ part \in Parts /\ s \in Seq(Steps) /\ Len(s) \in Nat /\ Keep(part) \in Nat
      /\ \A j \in 1 .. Len(s) : s[j] \in Steps
  BY LenProperties, ElementOfSeq, KeepType DEF IInv, TypeOK
<1>1. CASE Len(s) < Keep(part)
  <2>1. saved' = saved
    BY <1>0, <1>1 DEF Rotate, RotationDue
  <2> QED BY <1>0, <1>1, <2>1
<1>2. CASE Len(s) >= Keep(part)
  <2>1. /\ saved'[part] = SubSeq(s, k + 1, Len(s))
        /\ shard' = shard
        /\ \A t \in Gone, r \in Ranks : shard[<<t, part, r>>] = NoFile
    BY <1>0, <1>2 DEF Rotate, RotationDue, disk, IInv, TypeOK
  <2>2. k \in 1 .. Len(s) /\ k = Len(s) - Keep(part) + 1
    BY <1>0, <1>2 DEF Removed
  <2>3. \A j \in 1 .. k, r \in Ranks : shard'[<<s[j], part, r>>] = NoFile
    BY <2>1 DEF Gone
  <2> HIDE DEF s, k
  <2>4. \A j \in k + 1 .. Len(s) : s[j] \in Steps
    BY <1>0, <2>2
  <2>5. /\ Len(SubSeq(s, k + 1, Len(s))) =
             IF k + 1 <= Len(s) THEN Len(s) - (k + 1) + 1 ELSE 0
        /\ \A i \in 1 .. Len(s) - (k + 1) + 1 :
             SubSeq(s, k + 1, Len(s))[i] = s[k + 1 + i - 1]
    BY <1>0, <2>2, <2>4, SubSeqProperties
  <2>6. Len(saved'[part]) = Len(s) - k
    BY <1>0, <2>1, <2>2, <2>5
  <2>7. \A j \in k + 1 .. Len(s) : j - k \in 1 .. Len(saved'[part]) /\ saved'[part][j - k] = s[j]
    <3> SUFFICES ASSUME NEW j \in k + 1 .. Len(s)
                 PROVE  j - k \in 1 .. Len(saved'[part]) /\ saved'[part][j - k] = s[j]
      OBVIOUS
    <3>1. j - k \in 1 .. Len(s) - (k + 1) + 1 /\ k + 1 + (j - k) - 1 = j
      BY <1>0, <2>2
    <3>2. j - k \in 1 .. Len(saved'[part])
      BY <1>0, <2>2, <2>6
    <3>3. SubSeq(s, k + 1, Len(s))[j - k] = s[j]
      BY <2>5, <3>1
    <3> QED BY <2>1, <3>2, <3>3
  <2>8. Len(saved'[part]) + 1 <= Keep(part)
    BY <1>0, <2>2, <2>6
  <2>9. ASSUME NEW j \in 1 .. Len(s)
        PROVE  \/ \E i \in 1 .. Len(saved'[part]) : saved'[part][i] = s[j]
               \/ \A r \in Ranks : shard'[<<s[j], part, r>>] = NoFile
    <3>1. j \in 1 .. k \/ j \in k + 1 .. Len(s)
      BY <1>0, <2>2
    <3> QED BY <2>3, <2>7, <3>1
  <2> QED BY <2>8, <2>9 DEF s
<1>3. Len(s) < Keep(part) \/ Len(s) >= Keep(part)
  <2> HIDE DEF s, k
  <2> QED BY <1>0
<1> HIDE DEF k
<1> QED BY <1>1, <1>2, <1>3

LEMMA RotateKept == ASSUME IInv, IInv', KeptOK, Rotate PROVE KeptOK'
<1>0. /\ pc = "rotate" /\ pc' = "shards" /\ Running /\ Running' /\ part \in Parts
      /\ UNCHANGED <<step, part, run>>
      /\ \A p \in Parts : p # part => saved'[p] = saved[p]
  <2>1. pc = "rotate" /\ pc' = "shards" /\ UNCHANGED <<step, part, run>>
    BY DEF Rotate, history
  <2>2. \A p \in Parts : p # part => saved'[p] = saved[p]
    BY DEF Rotate, IInv, TypeOK
  <2> QED BY <2>1, <2>2 DEF Running, IInv, TypeOK
<1>1. shard' = shard
  BY DEF Rotate, disk
<1>2. NoFile.is = "none" /\ NoFile.run = 0
  BY DEF NoFile
<1>3. ASSUME NEW p \in Parts, Keep(p) > 0
      PROVE  KeptPart(p)'
  <2>1. \A s \in Steps, q \in Ranks : <<s, p, q>> \in DOMAIN shard
    BY DEF IInv, TypeOK
  <2>2. Old(p)' \in SUBSET Old(p) /\ Own(p)' \in SUBSET Own(p)
    BY <1>0, <1>1, <1>2, <2>1 DEF Old, Own, Steps
  <2>3. /\ Len(saved[p]) + 0 <= Keep(p)
        /\ \A s \in Own(p) : \E i \in 1 .. Len(saved[p]) : saved[p][i] = s
    BY <1>0, <1>3 DEF KeptOK, KeptPart
  <2>4. CASE p = part
    <3>1. /\ Len(saved'[p]) + 1 <= Keep(p)
          /\ \A j \in 1 .. Len(saved[p]) :
              \/ \E i \in 1 .. Len(saved'[p]) : saved'[p][i] = saved[p][j]
              \/ \A r \in Ranks : shard'[<<saved[p][j], p, r>>] = NoFile
      BY <1>3, <2>4, RotateMakesRoom
    <3>2. \A s \in Own(p)' : \E i \in 1 .. Len(saved'[p]) : saved'[p][i] = s
      <4> SUFFICES ASSUME NEW s \in Own(p)'
                   PROVE  \E i \in 1 .. Len(saved'[p]) : saved'[p][i] = s
        OBVIOUS
      <4>1. PICK j \in 1 .. Len(saved[p]) : saved[p][j] = s
        BY <2>2, <2>3
      <4>2. \E r \in Ranks : shard'[<<s, p, r>>].is # "none"
        BY DEF Own
      <4> QED BY <1>2, <3>1, <4>1, <4>2
    <3> QED BY <1>0, <1>3, <2>2, <2>4, <3>1, <3>2, KeptNext
  <2>5. CASE p # part
    <3>1. saved'[p] = saved[p] /\ part' # p
      BY <1>0, <2>5
    <3>2. Len(saved'[p]) + 0 <= Keep(p)
      BY <2>3, <3>1
    <3>3. \A s \in Own(p)' : \E i \in 1 .. Len(saved'[p]) : saved'[p][i] = s
      BY <2>2, <2>3, <3>1
    <3> QED BY <1>0, <1>3, <2>2, <3>1, <3>2, <3>3, KeptNext
  <2> QED BY <2>4, <2>5
<1>4. \A f \in DOMAIN shard' : shard'[f].run <= run'
  <2>1. 0 <= run
    BY DEF IInv, TypeOK
  <2> QED BY <1>0, <1>1, <1>2, <2>1 DEF KeptOK
<1> QED BY <1>3, <1>4 DEF KeptOK, Keep

LEMMA StepKeepsKept ==
  ASSUME IInv, IInv', KeptOK, [Next]_vars
  PROVE  KeptOK'
<1>1. CASE StartFresh \/ Resume \/ FailToStart
  <2>1. Start /\ pc' \in {"step", "broken"}
    BY <1>1 DEF StartFresh, Resume, FailToStart
  <2> QED BY <2>1, StartKept
<1>2. CASE TrainStep \/ CloseTracker
  <2>1. /\ pc # "shards" /\ pc' # "shards" /\ Running /\ UNCHANGED <<shard, run, saved>>
    BY <1>2 DEF TrainStep, CloseTracker, GoOn, Running, disk
  <2> QED BY <2>1, KeptStays
<1>3. CASE OpenData \/ CloseData \/ OpenTracker
  <2>1. /\ pc # "shards" /\ pc' # "shards" /\ Running /\ UNCHANGED <<shard, run, saved>>
    BY <1>3 DEF OpenData, CloseData, OpenTracker, Running, history
  <2> QED BY <2>1, KeptStays
<1>4. CASE Crash
  <2>1. ~Running' /\ UNCHANGED <<shard, run>>
    BY <1>4 DEF Crash, Running, disk, history
  <2> QED BY <2>1, KeptStays
<1>5. CASE UNCHANGED vars
  <2>1. /\ UNCHANGED <<pc, part, step, shard, run, saved>> /\ (Running' => Running)
    BY <1>5 DEF vars, disk, history, Running
  <2> QED BY <2>1, KeptStays
<1>6. CASE Rotate
  BY <1>6, RotateKept
<1>7. CASE PartSaved
  BY <1>7, PartSavedKept
<1>8. ASSUME NEW r \in Ranks, OpenShard(r) \/ CloseShard(r) PROVE KeptOK'
  BY <1>8, ShardKept
<1>9. ASSUME NEW r \in Ranks, RemoveShard(r) PROVE KeptOK'
  BY <1>9, RemoveKept
<1> QED BY <1>1, <1>2, <1>3, <1>4, <1>5, <1>6, <1>7, <1>8, <1>9 DEF Next

\* Rotation keeps at most max_ckpt_to_keep checkpoints of each part for every
\* job that was started: the list it goes by starts empty in each of them.
THEOREM RotationBounds == Spec => []KeptPerRun
<1>1. Init => KeptOK
  BY InitKept
<1>2. IInv /\ IInv' /\ KeptOK /\ [Next]_vars => KeptOK'
  BY StepKeepsKept
<1>3. IInv /\ KeptOK => KeptPerRun
  <2> SUFFICES ASSUME IInv, KeptOK, NEW p \in Parts, Keep(p) > 0
               PROVE  Cardinality(Stored(p)) <= Keep(p) * run
    BY DEF KeptPerRun, Stored
  <2>1. run \in Nat
    BY DEF IInv, TypeOK
  <2> QED BY <2>1, StoredBound DEF KeptOK
<1> QED BY <1>1, <1>2, <1>3, Invariance, PTL DEF Spec

-----------------------------------------------------------------------------
(* The division of rows into parts.  Nothing is said of which states are   *)
(* merged: that no part is empty and that parts differ by at most one row  *)
(* follows from the order of the parts of a state, whose empty ones are    *)
(* the last, and from merging the longest with the shortest.               *)

PartRecords == [sum : Nat, size : Nat, first : {0} \cup Rows, rows : SUBSET Rows]

SizesOK(s) ==
  \A i \in 1 .. K : s[i].size = Cardinality(s[i].rows) /\ (s[i].size = 0 => s[i].sum = 0)

Apart(s) == \A i, j \in 1 .. K : i # j => s[i].rows \cap s[j].rows = {}

\* Either every part has a row, or none has two.
FullOrSingle(s) ==
  \/ \A i \in 1 .. K : s[i].size > 0
  \/ \A i \in 1 .. K : s[i].size <= 1

\* Parts differ by at most the row r.
Within(s, r) == \A i, j \in 1 .. K : s[i].sum <= s[j].sum + call.len[r]

SameSizes(s) == call.equal => \A i, j \in 1 .. K : s[i].size = s[j].size

\* What holds of a state whatever the order of its parts.
Fair(s) ==
  /\ s \in [1 .. K -> PartRecords]
  /\ SizesOK(s) /\ Apart(s) /\ FullOrSingle(s) /\ SameSizes(s)
  /\ \E r \in Rows : Within(s, r)

Covered == \A r \in Rows : \E s \in states, i \in 1 .. K : r \in s[i].rows

StatesApart ==
  \A s, t \in states : s # t =>
    \A i, j \in 1 .. K : s[i].rows \cap t[j].rows = {}

BalanceIInv ==
  /\ call \in Calls
  /\ \A s \in states : Fair(s) /\ Decreasing(s)
  /\ Covered /\ StatesApart

-----------------------------------------------------------------------------
LEMMA CallFacts ==
  ASSUME call \in Calls
  PROVE  /\ K \in Nat /\ 1 <= K /\ K <= Len(call.len) /\ Len(call.len) \in Nat
         /\ \A r \in Rows : call.len[r] \in Nat
         /\ call.equal => \E b \in Nat : Len(call.len) = b * K
<1>1. /\ call.len \in Seq(Nat) /\ call.k \in 1 .. Len(call.len)
      /\ call.equal => \E b \in 1 .. Len(call.len) : Len(call.len) = b * call.k
  BY CallsAssumption
<1>2. Len(call.len) \in Nat
  BY <1>1
<1>3. \A r \in Rows : call.len[r] \in Nat
  BY <1>1 DEF Rows
<1> QED
  BY <1>1, <1>2, <1>3 DEF K

LEMMA IntervalSize ==
  ASSUME NEW n \in Nat
  PROVE  IsFiniteSet(1 .. n) /\ Cardinality(1 .. n) = n
<1> DEFINE c == Cardinality(1 .. n)
<1>1. IsFiniteSet(1 .. n) /\ c = IF 1 > n THEN 0 ELSE n - 1 + 1
  BY FS_Interval
<1> HIDE DEF c
<1>2. c = n
  BY <1>1
<1> QED
  BY <1>1, <1>2 DEF c

\* The cardinality of what a part may hold.
LEMMA RowsFinite ==
  ASSUME call \in Calls
  PROVE  /\ IsFiniteSet(Rows) /\ Cardinality(Rows) = Len(call.len)
         /\ \A S \in SUBSET Rows :
              /\ IsFiniteSet(S) /\ Cardinality(S) \in Nat
              /\ (Cardinality(S) = 0 <=> S = {})
<1>1. IsFiniteSet(Rows) /\ Cardinality(Rows) = Len(call.len)
  <2>1. PICK n \in Nat : n = Len(call.len) /\ 1 <= n
    BY CallFacts
  <2>2. IsFiniteSet(1 .. n) /\ Cardinality(1 .. n) = n
    BY IntervalSize
  <2>3. Rows = 1 .. n
    BY <2>1 DEF Rows
  <2> QED
    BY <2>1, <2>2, <2>3
<1> QED
  BY <1>1, FS_Subset, FS_CardinalityType, FS_EmptySet

\* sorted() only changes the order of the parts.
LEMMA SortKeeps ==
  ASSUME call \in Calls, NEW s, Fair(s), NEW f \in Sorted(s)
  PROVE  /\ Fair(f) /\ Decreasing(f)
         /\ \A r : (\E i \in 1 .. K : r \in f[i].rows) <=> (\E i \in 1 .. K : r \in s[i].rows)
<1>1. PICK p \in Bijection(1 .. K, 1 .. K) : f = [i \in 1 .. K |-> s[p[i]]]
  BY DEF Sorted
<1>2. Decreasing(f)
  BY DEF Sorted
<1>3. /\ p \in [1 .. K -> 1 .. K]
      /\ \A i, j \in 1 .. K : p[i] = p[j] => i = j
      /\ \A j \in 1 .. K : \E i \in 1 .. K : p[i] = j
  BY <1>1 DEF Bijection, Injection, Surjection, IsInjective
<1>4. \A i \in 1 .. K : p[i] \in 1 .. K /\ f[i] = s[p[i]]
  BY <1>1, <1>3
<1>5. f \in [1 .. K -> PartRecords]
  BY <1>1, <1>3 DEF Fair
<1>6. SizesOK(f)
  BY <1>4 DEF Fair, SizesOK
<1>7. Apart(f)
  <2> SUFFICES ASSUME NEW i \in 1 .. K, NEW j \in 1 .. K, i # j
               PROVE  f[i].rows \cap f[j].rows = {}
    BY DEF Apart
  <2>1. p[i] # p[j] /\ p[i] \in 1 .. K /\ p[j] \in 1 .. K
    BY <1>3
  <2>2. s[p[i]].rows \cap s[p[j]].rows = {}
    BY <2>1 DEF Fair, Apart
  <2> QED
    BY <1>4, <2>2
<1>8. FullOrSingle(f)
  BY <1>4 DEF Fair, FullOrSingle
<1>9. SameSizes(f)
  BY <1>4 DEF Fair, SameSizes
<1>10. \E r \in Rows : Within(f, r)
  <2>1. PICK r \in Rows : Within(s, r)
    BY DEF Fair
  <2>2. Within(f, r)
    BY <1>4, <2>1 DEF Within
  <2> QED
    BY <2>2
<1>11. Fair(f)
  BY <1>5, <1>6, <1>7, <1>8, <1>9, <1>10 DEF Fair
<1>12. ASSUME NEW r
       PROVE  (\E i \in 1 .. K : r \in f[i].rows) <=> (\E i \in 1 .. K : r \in s[i].rows)
  <2>1. ASSUME NEW i \in 1 .. K, r \in f[i].rows
        PROVE  \E j \in 1 .. K : r \in s[j].rows
    BY <1>4, <2>1
  <2>2. ASSUME NEW j \in 1 .. K, r \in s[j].rows
        PROVE  \E i \in 1 .. K : r \in f[i].rows
    <3>1. PICK i \in 1 .. K : p[i] = j
      BY <1>3
    <3>2. f[i].rows = s[j].rows
      BY <1>4, <3>1
    <3> QED
      BY <2>2, <3>2
  <2> QED
    BY <2>1, <2>2
<1> QED
  BY <1>2, <1>11, <1>12

\* In a decreasing state sums do not grow, and what is behind an empty part is empty.
LEMMA DecreasingFacts ==
  ASSUME call \in Calls, NEW s, Fair(s), Decreasing(s),
         NEW i \in 1 .. K, NEW j \in 1 .. K, i < j
  PROVE  /\ s[j].sum <= s[i].sum
         /\ s[i].size = 0 => s[j].size = 0
<1>1. /\ s[i].sum \in Nat /\ s[i].size \in Nat
      /\ s[j].sum \in Nat /\ s[j].size \in Nat
  BY DEF Fair, PartRecords
<1>2. s[i].size = 0 => s[i].sum = 0
  BY DEF Fair, SizesOK
<1>3. ~Smaller(s[i], s[j])
  BY DEF Decreasing
<1> QED
  BY <1>1, <1>2, <1>3 DEF Smaller

\* Merging the longest part with the shortest.
LEMMA MergeKeeps ==
  ASSUME call \in Calls,
         NEW s, Fair(s), Decreasing(s), NEW t, Fair(t), Decreasing(t),
         \A i, j \in 1 .. K : s[i].rows \cap t[j].rows = {}
  PROVE  /\ Fair(Merged(s, t))
         /\ \A r : (\E i \in 1 .. K : r \in Merged(s, t)[i].rows)
                     <=> (\E i \in 1 .. K : r \in s[i].rows \/ r \in t[i].rows)
<1> DEFINE u == Merged(s, t)
           o(i) == K + 1 - i
<1>0. K \in Nat /\ 1 <= K
  BY CallFacts
<1>1. \A i \in 1 .. K : o(i) \in 1 .. K /\ o(o(i)) = i
  BY <1>0
<1>2. \A i, j \in 1 .. K : i < j => o(j) < o(i)
  BY <1>0
<1>3. \A i \in 1 .. K : s[i] \in PartRecords /\ t[i] \in PartRecords
  BY DEF Fair
<1>4. \A i \in 1 .. K :
        /\ u[i].sum = s[i].sum + t[o(i)].sum
        /\ u[i].size = s[i].size + t[o(i)].size
        /\ u[i].rows = s[i].rows \cup t[o(i)].rows
  BY DEF Merged, Merge
<1>5. \A i \in 1 .. K : /\ s[i].sum \in Nat /\ s[i].size \in Nat /\ s[i].rows \in SUBSET Rows
                        /\ t[o(i)].sum \in Nat /\ t[o(i)].size \in Nat /\ t[o(i)].rows \in SUBSET Rows
  BY <1>1, <1>3 DEF PartRecords
<1>6. u \in [1 .. K -> PartRecords]
  <2> SUFFICES ASSUME NEW i \in 1 .. K
               PROVE  Merge(s[i], t[o(i)]) \in PartRecords
    BY DEF Merged
  <2>1. s[i] \in PartRecords /\ t[o(i)] \in PartRecords
    BY <1>1, <1>3
  <2> QED
    BY <2>1 DEF Merge, PartRecords
<1> HIDE DEF u, o
<1>7. SizesOK(u)
  <2> SUFFICES ASSUME NEW i \in 1 .. K
               PROVE  u[i].size = Cardinality(u[i].rows) /\ (u[i].size = 0 => u[i].sum = 0)
    BY DEF SizesOK
  <2>1. /\ s[i].size = Cardinality(s[i].rows) /\ (s[i].size = 0 => s[i].sum = 0)
        /\ t[o(i)].size = Cardinality(t[o(i)].rows) /\ (t[o(i)].size = 0 => t[o(i)].sum = 0)
    BY <1>1 DEF Fair, SizesOK
  <2>2. s[i].rows \cap t[o(i)].rows = {}
    BY <1>1
  <2>3. IsFiniteSet(s[i].rows) /\ IsFiniteSet(t[o(i)].rows)
    BY <1>5, RowsFinite
  <2>4. Cardinality(u[i].rows) = Cardinality(s[i].rows) + Cardinality(t[o(i)].rows)
                                   - Cardinality(s[i].rows \cap t[o(i)].rows)
    BY <1>4, <2>3, FS_Union
  <2>5. Cardinality(s[i].rows \cap t[o(i)].rows) = 0
    BY <2>2, FS_EmptySet
  <2>6. u[i].size = Cardinality(u[i].rows)
    BY <1>4, <1>5, <2>1, <2>4, <2>5
  <2>7. u[i].size = 0 => u[i].sum = 0
    <3>1. u[i].size = s[i].size + t[o(i)].size /\ u[i].sum = s[i].sum + t[o(i)].sum
      BY <1>4
    <3>2. s[i].size \in Nat /\ t[o(i)].size \in Nat
      BY <1>5
    <3>3. u[i].size = 0 => s[i].size = 0 /\ t[o(i)].size = 0
      BY ONLY <3>1, <3>2
    <3> QED BY <2>1, <3>1, <3>3
  <2> QED
    BY <2>6, <2>7
<1>8. Apart(u)
  <2> SUFFICES ASSUME NEW i \in 1 .. K, NEW j \in 1 .. K, i # j
               PROVE  u[i].rows \cap u[j].rows = {}
    BY DEF Apart
  <2>1. o(i) # o(j)
    BY <1>1
  <2>2. s[i].rows \cap s[j].rows = {} /\ t[o(i)].rows \cap t[o(j)].rows = {}
    BY <1>1, <2>1 DEF Fair, Apart
  <2>3. s[i].rows \cap t[o(j)].rows = {} /\ s[j].rows \cap t[o(i)].rows = {}
    BY <1>1
  <2> QED
    BY <1>4, <2>2, <2>3
<1>9. FullOrSingle(u)
  <2>1. CASE \A i \in 1 .. K : u[i].size > 0
    BY <2>1 DEF FullOrSingle
  <2>2. CASE ~ \A i \in 1 .. K : u[i].size > 0
    <3>1. PICK e \in 1 .. K : ~(u[e].size > 0)
      BY <2>2
    <3>2. s[e].size = 0 /\ t[o(e)].size = 0
      BY <1>4, <1>5, <3>1
    <3>3. \A i \in 1 .. K : s[i].size <= 1 /\ t[i].size <= 1
      BY <1>1, <3>2 DEF Fair, FullOrSingle
    <3>4. ASSUME NEW j \in 1 .. K
          PROVE  s[j].size = 0 \/ t[o(j)].size = 0
      <4>1. CASE e <= j
        <5>1. e < j => s[j].size = 0
          BY <3>2, DecreasingFacts
        <5> QED
          BY <1>0, <3>2, <4>1, <5>1
      <4>2. CASE j < e
        <5>1. o(e) < o(j) /\ o(e) \in 1 .. K /\ o(j) \in 1 .. K
          BY <1>1, <1>2, <4>2
        <5>2. t[o(j)].size = 0
          BY <3>2, <5>1, DecreasingFacts
        <5> QED
          BY <5>2
      <4> QED
        BY <1>0, <4>1, <4>2
    <3>5. ASSUME NEW j \in 1 .. K
          PROVE  u[j].size <= 1
      <4>1. s[j].size <= 1 /\ t[o(j)].size <= 1
        BY <1>1, <3>3
      <4> QED
        BY <1>4, <1>5, <3>4, <4>1
    <3> QED
      BY <3>5 DEF FullOrSingle
  <2> QED
    BY <2>1, <2>2
<1>10. SameSizes(u)
  <2> SUFFICES ASSUME call.equal, NEW i \in 1 .. K, NEW j \in 1 .. K
               PROVE  u[i].size = u[j].size
    BY DEF SameSizes
  <2>1. s[i].size = s[j].size /\ t[o(i)].size = t[o(j)].size
    BY <1>1 DEF Fair, SameSizes
  <2> QED
    BY <1>4, <2>1
<1>11. \E r \in Rows : Within(u, r)
  <2>1. PICK a \in Rows : Within(s, a)
    BY DEF Fair
  <2>2. PICK b \in Rows : Within(t, b)
    BY DEF Fair
  <2>3. PICK r \in Rows : call.len[a] <= call.len[r] /\ call.len[b] <= call.len[r]
    BY CallFacts
  <2>4. call.len[a] \in Nat /\ call.len[b] \in Nat /\ call.len[r] \in Nat
    BY CallFacts
  <2>5. ASSUME NEW i \in 1 .. K, NEW j \in 1 .. K
        PROVE  u[i].sum <= u[j].sum + call.len[r]
    <3>1. /\ s[i].sum <= s[j].sum + call.len[a]
          /\ t[o(i)].sum <= t[o(j)].sum + call.len[b]
      BY <1>1, <2>1, <2>2 DEF Within
    <3>2. CASE i < j
      <4>1. o(j) < o(i) /\ o(i) \in 1 .. K /\ o(j) \in 1 .. K
        BY <1>1, <1>2, <3>2
      <4>2. t[o(i)].sum <= t[o(j)].sum
        BY <4>1, DecreasingFacts
      <4> QED
        BY <1>4, <1>5, <2>3, <2>4, <3>1, <4>2
    <3>3. CASE j < i
      <4>1. s[i].sum <= s[j].sum
        BY <3>3, DecreasingFacts
      <4> QED
        BY <1>4, <1>5, <2>3, <2>4, <3>1, <4>1
    <3>4. CASE i = j
      BY <1>4, <1>5, <2>4, <3>4
    <3> QED
      BY <1>0, <3>2, <3>3, <3>4
  <2> QED
    BY <2>5 DEF Within
<1>12. Fair(u)
  BY <1>6, <1>7, <1>8, <1>9, <1>10, <1>11 DEF Fair
<1>13. \A r : (\E i \in 1 .. K : r \in u[i].rows)
                <=> (\E i \in 1 .. K : r \in s[i].rows \/ r \in t[i].rows)
  BY <1>1, <1>4
<1> QED
  BY <1>12, <1>13 DEF u

-----------------------------------------------------------------------------
\* Two multiples of k are at least k apart.
LEMMA Multiples ==
  ASSUME NEW k \in Nat, NEW a \in Nat, NEW b \in Nat, a < b
  PROVE  a * k + k <= b * k
<1>1. PICK d \in Nat : b = a + 1 + d
  <2>1. b - a - 1 \in Nat /\ b = a + 1 + (b - a - 1)
    OBVIOUS
  <2> QED
    BY <2>1
<1>2. b * k = a * k + k + d * k
  BY <1>1
<1>3. d * k \in Nat /\ a * k \in Nat
  OBVIOUS
<1> QED
  BY <1>2, <1>3

\* A single row is a part.
LEMMA SingleIsPart ==
  ASSUME call \in Calls, NEW r \in Rows
  PROVE  /\ Single(r) \in PartRecords
         /\ Single(r).sum = call.len[r] /\ Single(r).size = 1
         /\ Single(r).first = r /\ Single(r).rows = {r}
         /\ Cardinality(Single(r).rows) = 1
<1>1. call.len[r] \in Nat
  BY CallFacts
<1>2. Cardinality({r}) = 1
  BY FS_Singleton
<1> QED
  BY <1>1, <1>2 DEF Single, PartRecords

\* A state of one row.
LEMMA AloneOK ==
  ASSUME call \in Calls, ~call.equal, NEW r \in Rows
  PROVE  /\ Fair(Alone(r)) /\ Decreasing(Alone(r))
         /\ Alone(r)[1].rows = {r}
         /\ \A i \in 1 .. K : Alone(r)[i].rows \subseteq {r}
<1> DEFINE s == Alone(r)
<1>0. K \in Nat /\ 1 \in 1 .. K
  BY CallFacts
<1>1. \A i \in 1 .. K : s[i] = IF i = 1 THEN Single(r) ELSE NoRows
  BY DEF Alone
<1>2. NoRows \in PartRecords /\ Cardinality(NoRows.rows) = 0
  BY FS_EmptySet DEF NoRows, PartRecords
<1>3. /\ Single(r) \in PartRecords
      /\ Single(r).sum = call.len[r] /\ Single(r).size = 1
      /\ Single(r).first = r /\ Single(r).rows = {r}
      /\ Cardinality(Single(r).rows) = 1
  BY SingleIsPart
<1>4. NoRows.sum = 0 /\ NoRows.size = 0 /\ NoRows.first = 0 /\ NoRows.rows = {}
  BY DEF NoRows
<1>5. call.len[r] \in Nat /\ r \in Nat
  BY CallFacts DEF Rows
<1>6. s \in [1 .. K -> PartRecords]
  BY <1>2, <1>3 DEF Alone
<1> HIDE DEF s
<1>7. SizesOK(s)
  BY <1>1, <1>2, <1>3, <1>4 DEF SizesOK
<1>8. Apart(s)
  BY <1>1, <1>4 DEF Apart
<1>9. FullOrSingle(s)
  BY <1>1, <1>3, <1>4 DEF FullOrSingle
<1>10. SameSizes(s)
  BY DEF SameSizes
<1>11. Within(s, r)
  BY <1>1, <1>3, <1>4, <1>5 DEF Within
<1>12. Decreasing(s)
  <2> SUFFICES ASSUME NEW i \in 1 .. K, NEW j \in 1 .. K, i < j
               PROVE  ~Smaller(s[i], s[j])
    BY DEF Decreasing
  <2>1. s[j] = NoRows /\ s[i] \in {Single(r), NoRows}
    BY <1>0, <1>1
  <2> QED
    BY <1>3, <1>4, <1>5, <2>1 DEF Smaller
<1> QED
  BY <1>0, <1>1, <1>3, <1>4, <1>6, <1>7, <1>8, <1>9, <1>10, <1>11, <1>12 DEF Fair, s

\* A state of k rows of neighbouring length.
LEMMA BlockOK ==
  ASSUME call \in Calls, NEW order \in Bijection(Rows, Rows), IsAscending(order),
         NEW b \in Nat, (b + 1) * K <= Len(call.len)
  PROVE  /\ Fair(Block(order, b)) /\ Decreasing(Block(order, b))
         /\ \A i \in 1 .. K : /\ b * K + K + 1 - i \in Rows
                               /\ Block(order, b)[i].rows = {order[b * K + K + 1 - i]}
<1> DEFINE s == Block(order, b)
           at(i) == b * K + K + 1 - i
<1>0. K \in Nat /\ 1 <= K /\ Len(call.len) \in Nat
  BY CallFacts
<1>1. \A i \in 1 .. K : at(i) \in Rows
  <2>1. (b + 1) * K = b * K + K /\ b * K \in Nat
    BY <1>0
  <2> QED
    BY <1>0, <2>1 DEF Rows
<1>2. \A i, j \in 1 .. K : i < j => at(j) < at(i)
  BY <1>0
<1>3. /\ order \in [Rows -> Rows]
      /\ \A i, j \in Rows : order[i] = order[j] => i = j
  BY DEF Bijection, Injection, IsInjective
<1>4. \A i \in 1 .. K : s[i] = Single(order[at(i)])
  BY DEF Block
<1> HIDE DEF at
<1>5. \A i \in 1 .. K : order[at(i)] \in Rows
  BY <1>1, <1>3
<1>6. s \in [1 .. K -> PartRecords]
  BY <1>5, SingleIsPart DEF Block, at
<1> HIDE DEF s
<1>7. \A i \in 1 .. K :
        /\ s[i].sum = call.len[order[at(i)]] /\ s[i].size = 1
        /\ s[i].first = order[at(i)] /\ s[i].rows = {order[at(i)]}
        /\ Cardinality(s[i].rows) = 1
  BY <1>4, <1>5, SingleIsPart
<1>8. SizesOK(s)
  BY <1>7 DEF SizesOK
<1>9. Apart(s)
  <2> SUFFICES ASSUME NEW i \in 1 .. K, NEW j \in 1 .. K, i # j
               PROVE  order[at(i)] # order[at(j)]
    BY <1>7 DEF Apart
  <2>1. at(i) # at(j)
    BY <1>0 DEF at
  <2> QED
    BY <1>1, <1>3, <2>1
<1>10. FullOrSingle(s) /\ SameSizes(s)
  BY <1>7 DEF FullOrSingle, SameSizes
<1>11. \E r \in Rows : Within(s, r)
  <2>1. 1 \in 1 .. K
    BY <1>0
  <2>2. \A i \in 1 .. K : call.len[order[at(i)]] <= call.len[order[at(1)]]
    <3> SUFFICES ASSUME NEW i \in 1 .. K, 1 < i
                 PROVE  call.len[order[at(i)]] <= call.len[order[at(1)]]
      BY <1>5, <2>1, CallFacts
    <3>1. at(i) < at(1) /\ at(i) \in Rows /\ at(1) \in Rows
      BY <1>1, <1>2, <2>1
    <3> QED
      BY <1>5, <2>1, <3>1, CallFacts DEF IsAscending
  <2>3. \A i \in 1 .. K : call.len[order[at(i)]] \in Nat
    BY <1>5, CallFacts
  <2>4. Within(s, order[at(1)])
    <3> SUFFICES ASSUME NEW i \in 1 .. K, NEW j \in 1 .. K
                 PROVE  s[i].sum <= s[j].sum + call.len[order[at(1)]]
      BY DEF Within
    <3>1. s[i].sum = call.len[order[at(i)]] /\ s[j].sum = call.len[order[at(j)]]
      BY ONLY <1>7, i \in 1 .. K, j \in 1 .. K
    <3>2. /\ call.len[order[at(i)]] \in Nat /\ call.len[order[at(j)]] \in Nat
          /\ call.len[order[at(1)]] \in Nat /\ call.len[order[at(i)]] <= call.len[order[at(1)]]
      BY ONLY <2>1, <2>2, <2>3, i \in 1 .. K, j \in 1 .. K
    <3> QED BY ONLY <3>1, <3>2
  <2> QED
    BY <1>5, <2>1, <2>4
<1>12. Decreasing(s)
  <2> SUFFICES ASSUME NEW i \in 1 .. K, NEW j \in 1 .. K, i < j
               PROVE  ~Smaller(s[i], s[j])
    BY DEF Decreasing
  <2>1. at(j) < at(i) /\ at(i) \in Rows /\ at(j) \in Rows
    BY <1>1, <1>2
  <2>2. \/ call.len[order[at(j)]] < call.len[order[at(i)]]
        \/ call.len[order[at(j)]] = call.len[order[at(i)]] /\ order[at(j)] < order[at(i)]
    BY <2>1 DEF IsAscending
  <2>3. /\ call.len[order[at(i)]] \in Nat /\ call.len[order[at(j)]] \in Nat
        /\ order[at(i)] \in Nat /\ order[at(j)] \in Nat
    BY <1>5, CallFacts DEF Rows
  <2> QED
    BY <1>7, <2>2, <2>3 DEF Smaller
<1> QED
  BY <1>1, <1>6, <1>7, <1>8, <1>9, <1>10, <1>11, <1>12 DEF Fair, s, at

-----------------------------------------------------------------------------
(* The invariant.                                                          *)

\* Every position is in one of the blocks.
LEMMA PositionInBlock ==
  ASSUME NEW k \in Nat, 1 <= k, NEW blocks \in Nat, NEW p \in 1 .. blocks * k
  PROVE  \E b \in Nat : /\ (b + 1) * k <= blocks * k /\ b <= blocks * k
                        /\ b * k + k + 1 - p \in 1 .. k
<1>1. PICK b \in Nat, m \in 0 .. k - 1 : p - 1 = b * k + m
  <2>1. /\ (p - 1) \div k \in Nat /\ (p - 1) % k \in 0 .. k - 1
        /\ p - 1 = (((p - 1) \div k) * k) + ((p - 1) % k)
    OBVIOUS
  <2> QED
    BY <2>1
<1>2. b * k \in Nat /\ blocks * k \in Nat
  OBVIOUS
<1>3. b < blocks
  <2>1. blocks < b => blocks * k + k <= b * k
    BY Multiples
  <2> QED
    BY <1>1, <1>2, <2>1
<1>4. b * k + k <= blocks * k
  BY <1>3, Multiples
<1>5. (b + 1) * k = b * k + k
  OBVIOUS
<1>6. b <= blocks * k
  <2>1. blocks <= blocks * k
    <3>1. PICK d \in Nat : k = d + 1
      <4>1. k - 1 \in Nat /\ k = k - 1 + 1
        OBVIOUS
      <4> QED
        BY <4>1
    <3>2. blocks * k = blocks * d + blocks /\ blocks * d \in Nat
      BY <3>1
    <3> QED
      BY <3>2
  <2> QED
    BY <1>2, <1>3, <2>1
<1>7. b * k + k + 1 - p \in 1 .. k
  BY <1>1, <1>2
<1> QED
  BY <1>4, <1>5, <1>6, <1>7

LEMMA BalanceInitInv == BalanceInit => BalanceIInv
<1> SUFFICES ASSUME BalanceInit
             PROVE  BalanceIInv
  OBVIOUS
<1>0. call \in Calls
  BY DEF BalanceInit
<1>k. K \in Nat /\ 1 <= K /\ 1 \in 1 .. K /\ Len(call.len) \in Nat
  BY <1>0, CallFacts
<1>1. CASE ~call.equal
  <2>1. states = {Alone(r) : r \in Rows}
    BY <1>1 DEF BalanceInit
  <2>2. \A s \in states : Fair(s) /\ Decreasing(s)
    BY <1>0, <1>1, <2>1, AloneOK
  <2>3. Covered
    <3> SUFFICES ASSUME NEW r \in Rows
                 PROVE  \E s \in states, i \in 1 .. K : r \in s[i].rows
      BY DEF Covered
    <3>1. Alone(r) \in states /\ r \in Alone(r)[1].rows
      BY <1>0, <1>1, <2>1, AloneOK
    <3> QED
      BY <1>k, <3>1
  <2>4. StatesApart
    <3> SUFFICES ASSUME NEW s \in states, NEW t \in states, s # t, NEW i \in 1 .. K, NEW j \in 1 .. K
                 PROVE  s[i].rows \cap t[j].rows = {}
      BY DEF StatesApart
    <3>1. PICK a \in Rows : s = Alone(a)
      BY <2>1
    <3>2. PICK b \in Rows : t = Alone(b)
      BY <2>1
    <3>3. a # b
      BY <3>1, <3>2
    <3>4. s[i].rows \subseteq {a} /\ t[j].rows \subseteq {b}
      BY <1>0, <1>1, <3>1, <3>2, AloneOK
    <3> QED
      BY <3>3, <3>4
  <2> QED
    BY <1>0, <2>2, <2>3, <2>4 DEF BalanceIInv
<1>2. CASE call.equal
  <2> DEFINE Bs == {c \in 0 .. Len(call.len) : (c + 1) * K <= Len(call.len)}
  <2>1. PICK order \in Bijection(Rows, Rows) :
          IsAscending(order) /\ states = {Block(order, b) : b \in Bs}
    BY <1>2 DEF BalanceInit
  <2>2. /\ \A i, j \in Rows : order[i] = order[j] => i = j
        /\ \A r \in Rows : \E p \in Rows : order[p] = r
    BY DEF Bijection, Injection, Surjection, IsInjective
  <2>3. \A b \in Bs : b \in Nat /\ (b + 1) * K <= Len(call.len)
    BY <1>k
  <2>4. \A b \in Bs : /\ Fair(Block(order, b)) /\ Decreasing(Block(order, b))
                      /\ \A i \in 1 .. K : /\ b * K + K + 1 - i \in Rows
                                            /\ Block(order, b)[i].rows = {order[b * K + K + 1 - i]}
    BY <1>0, <2>1, <2>3, BlockOK
  <2>5. \A s \in states : Fair(s) /\ Decreasing(s)
    BY <2>1, <2>4
  <2>6. Covered
    <3> SUFFICES ASSUME NEW r \in Rows
                 PROVE  \E s \in states, i \in 1 .. K : r \in s[i].rows
      BY DEF Covered
    <3>1. PICK p \in Rows : order[p] = r
      BY <2>2
    <3>2. PICK blocks \in Nat : Len(call.len) = blocks * K
      BY <1>0, <1>2, CallFacts
    <3>3. p \in 1 .. blocks * K
      BY <3>2 DEF Rows
    <3>4. PICK b \in Nat : /\ (b + 1) * K <= blocks * K /\ b <= blocks * K
                           /\ b * K + K + 1 - p \in 1 .. K
      BY <1>k, <3>3, PositionInBlock
    <3>5. b \in Bs
      BY <1>k, <3>2, <3>4
    <3> DEFINE i == b * K + K + 1 - p
    <3>6. b * K + K + 1 - i = p
      <4>1. b * K \in Nat /\ p \in Nat
        BY <1>k DEF Rows
      <4> QED
        BY <1>k, <4>1
    <3>7. Block(order, b)[i].rows = {r}
      BY <2>4, <3>1, <3>4, <3>5, <3>6
    <3> QED
      BY <2>1, <3>4, <3>5, <3>7
  <2>7. StatesApart
    <3> SUFFICES ASSUME NEW s \in states, NEW t \in states, s # t, NEW i \in 1 .. K, NEW j \in 1 .. K
                 PROVE  s[i].rows \cap t[j].rows = {}
      BY DEF StatesApart
    <3>1. PICK b \in Bs : s = Block(order, b)
      BY <2>1
    <3>2. PICK c \in Bs : t = Block(order, c)
      BY <2>1
    <3>3. b # c /\ b \in Nat /\ c \in Nat
      BY <2>3, <3>1, <3>2
    <3>4. b * K + K <= c * K \/ c * K + K <= b * K
      BY <1>k, <3>3, Multiples
    <3>5. b * K \in Nat /\ c * K \in Nat
      BY <1>k, <3>3
    <3>6. b * K + K + 1 - i # c * K + K + 1 - j
      BY <1>k, <3>4, <3>5
    <3>7. /\ b * K + K + 1 - i \in Rows /\ s[i].rows = {order[b * K + K + 1 - i]}
          /\ c * K + K + 1 - j \in Rows /\ t[j].rows = {order[c * K + K + 1 - j]}
      BY <2>4, <3>1, <3>2
    <3>8. order[b * K + K + 1 - i] # order[c * K + K + 1 - j]
      BY <2>2, <3>6, <3>7
    <3> QED
      BY <3>7, <3>8
  <2> QED
    BY <1>0, <2>5, <2>6, <2>7 DEF BalanceIInv
<1> QED
  BY <1>1, <1>2

LEMMA BalanceStepInv == BalanceIInv /\ [BalanceNext]_balanceVars => BalanceIInv'
<1> SUFFICES ASSUME BalanceIInv, [BalanceNext]_balanceVars
             PROVE  BalanceIInv'
  OBVIOUS
<1> USE DEF BalanceIInv
<1>c. call' = call /\ call \in Calls
  BY DEF BalanceNext, MergeFirstTwo, balanceVars
<1>s. \A s : (Fair(s))' = Fair(s) /\ (Decreasing(s))' = Decreasing(s)
  BY <1>c DEF Fair, SizesOK, Apart, FullOrSingle, SameSizes, Within, PartRecords, Decreasing,
              Smaller, K, Rows
<1>1. CASE MergeFirstTwo
  <2>0. PICK s \in states : \E t \in states \ {s} : \E f \in Sorted(Merged(s, t)) :
          states' = (states \ {s, t}) \cup {f}
    BY <1>1 DEF MergeFirstTwo
  <2>a. PICK t \in states \ {s} : \E f \in Sorted(Merged(s, t)) :
          states' = (states \ {s, t}) \cup {f}
    BY <2>0
  <2>1. PICK f \in Sorted(Merged(s, t)) : states' = (states \ {s, t}) \cup {f}
    BY <2>a
  <2>2. Fair(s) /\ Decreasing(s) /\ Fair(t) /\ Decreasing(t)
    OBVIOUS
  <2>3. \A i, j \in 1 .. K : s[i].rows \cap t[j].rows = {}
    BY DEF StatesApart
  <2>4. /\ Fair(Merged(s, t))
        /\ \A r : (\E i \in 1 .. K : r \in Merged(s, t)[i].rows)
                    <=> (\E i \in 1 .. K : r \in s[i].rows \/ r \in t[i].rows)
    BY <1>c, <2>2, <2>3, MergeKeeps
  <2>5. /\ Fair(f) /\ Decreasing(f)
        /\ \A r : (\E i \in 1 .. K : r \in f[i].rows)
                    <=> (\E i \in 1 .. K : r \in Merged(s, t)[i].rows)
    BY <1>c, <2>1, <2>4, SortKeeps
  <2>6. \A r : (\E i \in 1 .. K : r \in f[i].rows)
                 <=> (\E i \in 1 .. K : r \in s[i].rows \/ r \in t[i].rows)
    BY <2>4, <2>5
  <2>7. \A u \in states' : Fair(u) /\ Decreasing(u)
    BY <2>1, <2>5
  <2>8. Covered'
    <3> SUFFICES ASSUME NEW r \in Rows
                 PROVE  \E u \in states', i \in 1 .. K : r \in u[i].rows
      BY <1>c DEF Covered, K, Rows
    <3>1. PICK u \in states, i \in 1 .. K : r \in u[i].rows
      BY DEF Covered
    <3>2. CASE u \in {s, t}
      <4>1. \E j \in 1 .. K : r \in f[j].rows
        BY <2>6, <3>1, <3>2
      <4> QED
        BY <2>1, <4>1
    <3>3. CASE u \notin {s, t}
      BY <2>1, <3>1, <3>3
    <3> QED
      BY <3>2, <3>3
  <2>9. ASSUME NEW u \in states \ {s, t}, NEW i \in 1 .. K, NEW j \in 1 .. K
        PROVE  f[i].rows \cap u[j].rows = {}
    <3> SUFFICES ASSUME NEW r, r \in f[i].rows, r \in u[j].rows
                 PROVE  FALSE
      OBVIOUS
    <3>1. PICK l \in 1 .. K : r \in s[l].rows \/ r \in t[l].rows
      BY <2>6
    <3>2. s[l].rows \cap u[j].rows = {} /\ t[l].rows \cap u[j].rows = {}
      BY DEF StatesApart
    <3> QED
      BY <3>1, <3>2
  <2>10. StatesApart'
    <3> SUFFICES ASSUME NEW u \in states', NEW v \in states', u # v, NEW i \in 1 .. K, NEW j \in 1 .. K
                 PROVE  u[i].rows \cap v[j].rows = {}
      BY <1>c DEF StatesApart, K
    <3>1. CASE u = f
      BY <2>1, <2>9, <3>1
    <3>2. CASE v = f
      BY <2>1, <2>9, <3>2
    <3>3. CASE u # f /\ v # f
      BY <2>1, <3>3 DEF StatesApart
    <3> QED
      BY <3>1, <3>2, <3>3
  <2> QED
    BY <1>c, <1>s, <2>7, <2>8, <2>10
<1>2. CASE UNCHANGED balanceVars
  <2>1. states' = states
    BY <1>2 DEF balanceVars
  <2>2. Covered' /\ StatesApart'
    BY <1>c, <2>1 DEF Covered, StatesApart, K, Rows
  <2> QED
    BY <1>c, <1>s, <2>1, <2>2
<1> QED
  BY <1>1, <1>2 DEF BalanceNext

-----------------------------------------------------------------------------
\* The only state left has a row in every part: k - 1 parts of at most one row
\* could not hold them all.
LEMMA NoneEmpty ==
  ASSUME BalanceIInv, NEW s \in states, states = {s}, NEW e \in 1 .. K
  PROVE  s[e].rows # {}
<1> SUFFICES ASSUME s[e].rows = {}
             PROVE  FALSE
  OBVIOUS
<1>0. /\ call \in Calls /\ Fair(s)
      /\ \A r \in Rows : \E i \in 1 .. K : r \in s[i].rows
  BY DEF BalanceIInv, Covered
<1>1. K \in Nat /\ K <= Len(call.len) /\ Len(call.len) \in Nat
  BY <1>0, CallFacts
<1>2. \A i \in 1 .. K : s[i].rows \in SUBSET Rows /\ s[i].size = Cardinality(s[i].rows)
  BY <1>0 DEF Fair, PartRecords, SizesOK
<1>3. s[e].size = 0
  BY <1>2, FS_EmptySet
<1>4. \A i \in 1 .. K : Cardinality(s[i].rows) <= 1
  BY <1>0, <1>2, <1>3 DEF Fair, FullOrSingle
<1> DEFINE Others == (1 .. K) \ {e}
           f == [r \in Rows |-> CHOOSE i \in Others : r \in s[i].rows]
<1>5. \A r \in Rows : \E i \in Others : r \in s[i].rows
  BY <1>0
<1>6. \A r \in Rows : f[r] \in Others /\ r \in s[f[r]].rows
  BY <1>5
<1>7. IsFiniteSet(Others) /\ Cardinality(Others) = K - 1
  <2>1. IsFiniteSet(1 .. K) /\ Cardinality(1 .. K) = K
    BY <1>1, IntervalSize
  <2> QED
    BY <2>1, FS_RemoveElement
<1>8. IsFiniteSet(Rows) /\ Cardinality(Rows) = Len(call.len)
  BY <1>0, RowsFinite
<1>9. Cardinality(Others) < Cardinality(Rows)
  BY <1>1, <1>7, <1>8
<1> HIDE DEF Others
<1>10. f \in [Rows -> Others]
  BY <1>6
<1> HIDE DEF f
<1>11. PICK q, r \in Rows : q # r /\ f[q] = f[r]
  BY <1>7, <1>8, <1>9, <1>10, FS_PigeonHole
<1> DEFINE i == f[q]
<1>12. i \in 1 .. K /\ q \in s[i].rows /\ r \in s[i].rows
  BY <1>6, <1>11 DEF Others
<1>13. Cardinality({q, r}) = 2
  <2> DEFINE c == Cardinality({q}) d == Cardinality({q} \cup {r})
  <2>1. IsFiniteSet({q}) /\ c = 1
    BY FS_Singleton
  <2>2. d = c + 1
    BY <1>11, <2>1, FS_AddElement
  <2>3. {q, r} = {q} \cup {r}
    OBVIOUS
  <2> QED
    BY <2>1, <2>2, <2>3
<1>14. Cardinality({q, r}) <= Cardinality(s[i].rows) /\ Cardinality(s[i].rows) \in Nat
  <2>1. IsFiniteSet(s[i].rows) /\ {q, r} \in SUBSET s[i].rows
    BY <1>0, <1>2, <1>12, RowsFinite
  <2> QED
    BY <2>1, FS_Subset, FS_CardinalityType
<1> QED
  BY <1>4, <1>12, <1>13, <1>14

(* The parts that are returned pass the assertions of the code, and differ *)
(* by at most one row, for any lengths and any number of parts.            *)
THEOREM AssertionsHold == BalanceSpec => []PartsBalanced
<1>1. BalanceIInv => PartsBalanced
  <2> SUFFICES ASSUME BalanceIInv, NEW s \in states, states = {s}
               PROVE  /\ IsPartition(Partition(s), K, Rows, call.equal)
                      /\ \E r \in Rows : Spread(s) <= call.len[r]
    BY DEF PartsBalanced
  <2>0. /\ call \in Calls /\ Fair(s)
        /\ \A r \in Rows : \E i \in 1 .. K : r \in s[i].rows
    BY DEF BalanceIInv, Covered
  <2>1. /\ \A i \in 1 .. K : s[i].rows \subseteq Rows /\ s[i].size = Cardinality(s[i].rows)
        /\ \A i, j \in 1 .. K : i # j => s[i].rows \cap s[j].rows = {}
        /\ call.equal => \A i, j \in 1 .. K : s[i].size = s[j].size
    BY <2>0 DEF Fair, PartRecords, SizesOK, Apart, SameSizes
  <2>2. \A i \in 1 .. K : s[i].rows # {}
    BY NoneEmpty
  <2>3. DOMAIN Partition(s) = 1 .. K /\ \A i \in 1 .. K : Partition(s)[i] = s[i].rows
    BY DEF Partition
  <2>4. IsPartition(Partition(s), K, Rows, call.equal)
    BY <2>0, <2>1, <2>2, <2>3 DEF IsPartition
  <2>5. \E r \in Rows : Spread(s) <= call.len[r]
    <3>1. PICK r \in Rows : Within(s, r)
      BY <2>0 DEF Fair
    <3>2. 1 \in 1 .. K /\ K \in 1 .. K
      BY <2>0, CallFacts
    <3>3. s[1].sum \in Nat /\ s[K].sum \in Nat /\ call.len[r] \in Nat
      BY <2>0, <3>2, CallFacts DEF Fair, PartRecords
    <3>4. s[1].sum <= s[K].sum + call.len[r]
      BY <3>1, <3>2 DEF Within
    <3> QED
      BY <3>3, <3>4 DEF Spread
  <2> QED
    BY <2>4, <2>5
<1> QED
  BY <1>1, BalanceInitInv, BalanceStepInv, PTL DEF BalanceSpec

(* Lengths, sizes and rows of the parts stay in their types.               *)
THEOREM BalanceTypeCorrect == BalanceSpec => []BalanceTypeOK
<1>1. BalanceIInv => BalanceTypeOK
  BY DEF BalanceIInv, BalanceTypeOK, Fair, PartRecords
<1> QED
  BY <1>1, BalanceInitInv, BalanceStepInv, PTL DEF BalanceSpec

-----------------------------------------------------------------------------
(* The devices of a training step never wait for one another in vain,      *)
(* whatever the way of choosing micro-batches.  The argument is that they  *)
(* go in lockstep: they are in the same mini-batch with the same number of *)
(* micro-batches to go.                                                    *)

Fields == {"phase", "minis", "mini", "count", "micros", "seen"}

FieldsOK ==
  /\ DOMAIN device = Devices
  /\ \A d \in Devices : DOMAIN device[d] = Fields

\* The devices only work while fit() waits for them.
IdleOutside ==
  driver \notin {"logprob", "update"} => \A d \in Devices : device[d].phase = "idle"

SameWork ==
  \A d, e \in Devices :
    /\ device[d].minis = device[e].minis /\ device[d].mini = device[e].mini
    /\ device[d].count = device[e].count

\* Those that have split their mini-batch wait for those that have not.
SamePhase ==
  \A d, e \in Devices :
    device[d].phase = device[e].phase
      \/ {device[d].phase, device[e].phase} = {"split", "forward"}

SameToGo ==
  \A d, e \in Devices : device[d].phase = "forward" =>
    /\ device[e].phase = "forward" => DOMAIN device[d].micros = DOMAIN device[e].micros
    /\ device[e].phase = "split" => device[d].micros \in MicroBatches(d)

Lockstep == FieldsOK /\ IdleOutside /\ SameWork /\ SamePhase /\ SameToGo

-----------------------------------------------------------------------------
\* However a mini-batch is divided, there are as many micro-batches on all devices.
LEMMA SameNumber ==
  ASSUME SameWork, NEW d \in Devices, NEW e \in Devices,
         NEW f \in MicroBatches(d), NEW g \in MicroBatches(e)
  PROVE  DOMAIN f = DOMAIN g
<1>1. /\ device[d].minis = device[e].minis /\ device[d].mini = device[e].mini
      /\ device[d].count = device[e].count
  BY DEF SameWork
<1>2. Mini(d) = Mini(e)
  BY <1>1 DEF Mini
<1>3. CASE flow.dynamic
  <2>1. DOMAIN f = 1 .. device[d].count
    BY <1>3, Zenon DEF MicroBatches
  <2>2. DOMAIN g = 1 .. device[e].count
    BY <1>3, Zenon DEF MicroBatches
  <2> QED
    BY <1>1, <2>1, <2>2
<1>4. CASE ~flow.dynamic
  <2> DEFINE S(x) == Split([i \in 1 .. Len(x) |-> i], IF driver = "logprob" THEN flow.logprobMicro ELSE flow.micro)
  <2>1. f = S(Mini(d))
    BY <1>4, Zenon DEF MicroBatches
  <2>2. g = S(Mini(e))
    BY <1>4, Zenon DEF MicroBatches
  <2> QED
    BY <1>2, <2>1, <2>2, Zenon
<1> QED
  BY <1>3, <1>4

\* Sequences of one domain have one length, and so do their tails.
LEMMA SameLength ==
  ASSUME NEW s, NEW t, DOMAIN s = DOMAIN t
  PROVE  Len(s) = Len(t) /\ DOMAIN Tail(s) = DOMAIN Tail(t)
<1>1. Len(s) = Len(t)
  OBVIOUS
<1> QED
  BY <1>1

\* Work is handed to all devices at once.
LEMMA GivenInStep ==
  ASSUME NEW minis, device' = Given(minis), flow' = flow, driver' \in {"logprob", "update"}
  PROVE  Lockstep'
<1>1. Devices' = Devices
  BY DEF Devices
<1> DEFINE given == [Idle EXCEPT !.phase = IF flow.dynamic THEN "count" ELSE "split",
                                 !.minis = minis, !.mini = 1]
<1>2. device' = [d \in Devices |-> given]
  BY DEF Given
<1>3. DOMAIN given = Fields /\ given.phase \in {"count", "split"}
  BY DEF Idle, Fields
<1> HIDE DEF given
<1>4. DOMAIN device' = Devices /\ \A d \in Devices : device'[d] = given
  BY <1>2
<1>5. FieldsOK'
  BY <1>1, <1>3, <1>4 DEF FieldsOK
<1>6. IdleOutside'
  BY DEF IdleOutside
<1>7. SameWork' /\ SamePhase'
  BY <1>1, <1>4 DEF SameWork, SamePhase
<1>8. SameToGo'
  BY <1>1, <1>3, <1>4 DEF SameToGo
<1> QED
  BY <1>5, <1>6, <1>7, <1>8 DEF Lockstep

\* And taken from all at once.
LEMMA IdleInStep ==
  ASSUME device' = [d \in Devices |-> Idle], flow' = flow
  PROVE  Lockstep'
<1>1. Devices' = Devices
  BY DEF Devices
<1>2. DOMAIN Idle = Fields /\ Idle.phase = "idle"
  BY DEF Idle, Fields
<1>3. DOMAIN device' = Devices /\ \A d \in Devices : device'[d] = Idle
  OBVIOUS
<1>4. FieldsOK' /\ IdleOutside'
  BY <1>1, <1>2, <1>3 DEF FieldsOK, IdleOutside
<1>5. SameWork' /\ SamePhase'
  BY <1>1, <1>3 DEF SameWork, SamePhase
<1>6. SameToGo'
  BY <1>1, <1>2, <1>3 DEF SameToGo
<1> QED
  BY <1>4, <1>5, <1>6 DEF Lockstep

\* What the driver, a worker or the reward does on its own.
LEMMA OthersInStep ==
  ASSUME Lockstep, UNCHANGED <<flow, device>>,
         driver' = driver \/ (driver \notin {"logprob", "update"})
  PROVE  Lockstep'
<1> USE DEF Lockstep
<1>1. Devices' = Devices
  BY DEF Devices
<1>2. FieldsOK' /\ SameWork' /\ SamePhase'
  BY <1>1 DEF FieldsOK, SameWork, SamePhase
<1>3. IdleOutside'
  BY <1>1 DEF IdleOutside
<1>4. SameToGo'
  <2>1. CASE driver' = driver
    <3>1. ASSUME NEW d
          PROVE  MicroBatches(d)' = MicroBatches(d)
      <4>1. Mini(d)' = Mini(d)
        BY DEF Mini
      <4> QED
        BY <2>1, <4>1 DEF MicroBatches
    <3> QED
      BY <1>1, <3>1 DEF SameToGo
  <2>2. CASE driver \notin {"logprob", "update"}
    BY <1>1, <2>2 DEF IdleOutside, SameToGo
  <2> QED
    BY <2>1, <2>2
<1> QED
  BY <1>2, <1>3, <1>4

-----------------------------------------------------------------------------
(* The steps of the devices.                                               *)

LEMMA AgreeInStep == Lockstep /\ AgreeOnCount => Lockstep'
<1> SUFFICES ASSUME Lockstep, AgreeOnCount
             PROVE  Lockstep'
  OBVIOUS
<1> USE DEF Lockstep
<1> DEFINE count == Max({Wanted(e) : e \in Devices})
<1>1. Devices' = Devices /\ driver' = driver
  BY DEF AgreeOnCount, Devices
<1>2. device' = [d \in Devices |-> [device[d] EXCEPT !.phase = "split", !.count = count]]
  BY DEF AgreeOnCount, AgreedCount
<1>3. \A d \in Devices : device[d].phase = "count"
  BY DEF AgreeOnCount
<1> HIDE DEF count
<1>4. \A d \in Devices :
        /\ DOMAIN device'[d] = Fields /\ device'[d].phase = "split" /\ device'[d].count = count
        /\ device'[d].minis = device[d].minis /\ device'[d].mini = device[d].mini
  BY <1>2 DEF FieldsOK, Fields
<1>5. FieldsOK'
  BY <1>1, <1>2, <1>4 DEF FieldsOK
<1>6. IdleOutside'
  BY <1>1, <1>3 DEF IdleOutside
<1>7. SameWork' /\ SamePhase'
  BY <1>1, <1>4 DEF SameWork, SamePhase
<1>8. SameToGo'
  BY <1>1, <1>4 DEF SameToGo
<1> QED
  BY <1>5, <1>6, <1>7, <1>8

LEMMA SplitInStep == Lockstep /\ (\E x \in Devices : SplitMini(x)) => Lockstep'
<1> SUFFICES ASSUME Lockstep, NEW x \in Devices, SplitMini(x)
             PROVE  Lockstep'
  OBVIOUS
<1> USE DEF Lockstep
<1>1. Devices' = Devices /\ driver' = driver /\ flow' = flow
  BY DEF SplitMini, Devices
<1>2. PICK micros \in MicroBatches(x) :
        device' = [device EXCEPT ![x].phase = "forward", ![x].micros = micros, ![x].seen = <<>>]
  BY DEF SplitMini
<1>3. device[x].phase = "split"
  BY DEF SplitMini
<1>4. /\ device'[x].phase = "forward" /\ device'[x].micros = micros
      /\ \A d \in Devices \ {x} : device'[d] = device[d]
      /\ \A d \in Devices :
           /\ DOMAIN device'[d] = Fields /\ device'[d].minis = device[d].minis
           /\ device'[d].mini = device[d].mini /\ device'[d].count = device[d].count
  BY <1>2 DEF FieldsOK, Fields
<1>5. ASSUME NEW d \in Devices
      PROVE  MicroBatches(d)' = MicroBatches(d)
  <2>1. Mini(d)' = Mini(d) /\ device'[d].count = device[d].count
    BY <1>4 DEF Mini
  <2> QED
    BY <1>1, <2>1 DEF MicroBatches
<1>6. FieldsOK'
  BY <1>1, <1>2, <1>4 DEF FieldsOK
<1>7. IdleOutside'
  BY <1>1, <1>3 DEF IdleOutside
<1>8. SameWork'
  BY <1>1, <1>4 DEF SameWork
<1>9. SamePhase'
  <2> SUFFICES ASSUME NEW d \in Devices, NEW e \in Devices
               PROVE  \/ device'[d].phase = device'[e].phase
                      \/ {device'[d].phase, device'[e].phase} = {"split", "forward"}
    BY <1>1 DEF SamePhase
  <2>1. \A g \in Devices : device[g].phase \in {"split", "forward"}
    BY <1>3 DEF SamePhase
  <2>2. \A g \in Devices : device'[g].phase \in {"split", "forward"}
    BY <1>4, <2>1
  <2> QED
    BY <2>2
<1>10. SameToGo'
  <2> SUFFICES ASSUME NEW d \in Devices, NEW e \in Devices, device'[d].phase = "forward"
               PROVE  /\ device'[e].phase = "forward" => DOMAIN device'[d].micros = DOMAIN device'[e].micros
                      /\ device'[e].phase = "split" => device'[d].micros \in MicroBatches(d)
    BY <1>1, <1>5 DEF SameToGo
  <2>1. \A g \in Devices : device'[g].phase = "forward" => device'[g].micros \in MicroBatches(g)
    <3> SUFFICES ASSUME NEW g \in Devices, g # x, device[g].phase = "forward"
                 PROVE  device[g].micros \in MicroBatches(g)
      BY <1>4
    <3> QED
      BY <1>3 DEF SameToGo
  <2> QED
    BY <2>1, SameNumber
<1> QED
  BY <1>6, <1>7, <1>8, <1>9, <1>10

LEMMA ForwardInStep == Lockstep /\ Forward => Lockstep'
<1> SUFFICES ASSUME Lockstep, Forward
             PROVE  Lockstep'
  OBVIOUS
<1> USE DEF Lockstep
<1> DEFINE next(d) == IF Len(device[d].micros) > 1 THEN "forward"
                      ELSE IF driver = "logprob" THEN "ended" ELSE "step"
<1>1. Devices' = Devices /\ driver' = driver
  BY DEF Forward, Devices
<1>2. \A d \in Devices : device[d].phase = "forward"
  BY DEF Forward
<1>3. device' = [d \in Devices |->
        [device[d] EXCEPT !.seen = @ \o Head(device[d].micros), !.micros = Tail(@), !.phase = next(d)]]
  BY DEF Forward
<1> HIDE DEF next
<1>4. \A d \in Devices :
        /\ DOMAIN device'[d] = Fields /\ device'[d].phase = next(d)
        /\ device'[d].micros = Tail(device[d].micros) /\ device'[d].minis = device[d].minis
        /\ device'[d].mini = device[d].mini /\ device'[d].count = device[d].count
  BY <1>3 DEF FieldsOK, Fields
<1>5. \A d, e \in Devices : DOMAIN device[d].micros = DOMAIN device[e].micros
  BY <1>2 DEF SameToGo
<1>6. \A d, e \in Devices :
        /\ Len(device[d].micros) = Len(device[e].micros)
        /\ DOMAIN Tail(device[d].micros) = DOMAIN Tail(device[e].micros)
  BY <1>5, SameLength
<1>7. \A d, e \in Devices : next(d) = next(e)
  BY <1>6 DEF next
<1>8. \A d \in Devices : next(d) # "split"
  BY DEF next
<1>9. FieldsOK'
  BY <1>1, <1>3, <1>4 DEF FieldsOK
<1>10. IdleOutside'
  BY <1>1, <1>2 DEF IdleOutside
<1>11. SameWork' /\ SamePhase'
  BY <1>1, <1>4, <1>7 DEF SameWork, SamePhase
<1>12. SameToGo'
  BY <1>1, <1>4, <1>6, <1>8 DEF SameToGo
<1> QED
  BY <1>9, <1>10, <1>11, <1>12

LEMMA OptimizerInStep == Lockstep /\ OptimizerStep => Lockstep'
<1> SUFFICES ASSUME Lockstep, OptimizerStep
             PROVE  Lockstep'
  OBVIOUS
<1> USE DEF Lockstep
<1>1. Devices' = Devices /\ driver' = driver
  BY DEF OptimizerStep, Devices
<1>2. \A d \in Devices : device[d].phase = "step"
  BY DEF OptimizerStep
<1>3. device' = [d \in Devices |->
        IF device[d].mini = Len(device[d].minis) THEN [device[d] EXCEPT !.phase = "ended"]
        ELSE [device[d] EXCEPT !.phase = IF flow.dynamic THEN "count" ELSE "split", !.mini = @ + 1]]
  BY DEF OptimizerStep
<1>4. \A d \in Devices :
        /\ DOMAIN device'[d] = Fields
        /\ device'[d].minis = device[d].minis /\ device'[d].count = device[d].count
        /\ device'[d].mini = IF device[d].mini = Len(device[d].minis) THEN device[d].mini ELSE device[d].mini + 1
        /\ device'[d].phase = IF device[d].mini = Len(device[d].minis) THEN "ended"
                              ELSE IF flow.dynamic THEN "count" ELSE "split"
  BY <1>3 DEF FieldsOK, Fields
<1>5. FieldsOK'
  BY <1>1, <1>3, <1>4 DEF FieldsOK
<1>6. IdleOutside'
  BY <1>1, <1>2 DEF IdleOutside
<1>7. SameWork' /\ SamePhase'
  BY <1>1, <1>4 DEF SameWork, SamePhase
<1>8. SameToGo'
  BY <1>1, <1>4 DEF SameToGo
<1> QED
  BY <1>5, <1>6, <1>7, <1>8

LEMMA LockstepNext == Lockstep /\ [FlowNext]_flowVars => Lockstep'
<1> SUFFICES ASSUME Lockstep, [FlowNext]_flowVars
             PROVE  Lockstep'
  OBVIOUS
<1>1. CASE \E w \in Workers : WorkerReturns(w)
  BY <1>1, OthersInStep DEF WorkerReturns
<1>2. CASE CollectResponses
  BY <1>2, OthersInStep DEF CollectResponses
<1>3. CASE Balance
  BY <1>3, OthersInStep DEF Balance
<1>4. CASE Reward
  BY <1>4, GivenInStep DEF Reward
<1>5. CASE RewardEnds
  BY <1>5, OthersInStep DEF RewardEnds
<1>6. CASE CollectLogProbs
  BY <1>6, IdleInStep DEF CollectLogProbs
<1>7. CASE Advantage
  BY <1>7, GivenInStep DEF Advantage
<1>8. CASE CollectUpdate
  BY <1>8, IdleInStep DEF CollectUpdate
<1>9. CASE AgreeOnCount
  BY <1>9, AgreeInStep
<1>10. CASE Forward
  BY <1>10, ForwardInStep
<1>11. CASE OptimizerStep
  BY <1>11, OptimizerInStep
<1>12. CASE \E d \in Devices : SplitMini(d)
  BY <1>12, SplitInStep
<1>13. CASE UNCHANGED flowVars
  BY <1>13, OthersInStep DEF flowVars
<1> QED
  BY <1>1, <1>2, <1>3, <1>4, <1>5, <1>6, <1>7, <1>8, <1>9, <1>10, <1>11, <1>12, <1>13 DEF FlowNext

LEMMA LockstepStarts == FlowInit => Lockstep
<1> SUFFICES ASSUME FlowInit
             PROVE  Lockstep
  OBVIOUS
<1>1. device = [d \in Devices |-> Idle] /\ DOMAIN Idle = Fields /\ Idle.phase = "idle"
  BY DEF FlowInit, Idle, Fields
<1>2. FieldsOK /\ IdleOutside
  BY <1>1 DEF FieldsOK, IdleOutside
<1>3. SameWork /\ SamePhase /\ SameToGo
  BY <1>1 DEF SameWork, SamePhase, SameToGo
<1> QED
  BY <1>2, <1>3 DEF Lockstep

(* No device of a training step waits in a collective operation that       *)
(* another device will not enter, whatever the batch and its lengths.      *)
THEOREM CollectivesMatch == FlowSpec => []NoDeviceLeftBehind
<1>1. FlowInit => Lockstep
  BY LockstepStarts
<1>2. Lockstep => NoDeviceLeftBehind
  <2> SUFFICES ASSUME Lockstep, NEW d \in Devices, NEW e \in Devices,
                      device[d].phase \in {"count", "split", "forward"}
               PROVE  device[e].phase \notin {"step", "ended"}
    BY DEF NoDeviceLeftBehind
  <2>1. \/ device[d].phase = device[e].phase
        \/ {device[d].phase, device[e].phase} = {"split", "forward"}
    BY DEF Lockstep, SamePhase
  <2> QED
    BY <2>1
<1> QED
  BY <1>1, <1>2, LockstepNext, PTL DEF FlowSpec

-----------------------------------------------------------------------------
(* What becomes of the rows of a batch.  The inductive invariant is        *)
(* FlowIInv of BatchFlow: each column is the responses again, what a       *)
(* device has seen and has to see is its mini-batch, and a response was    *)
(* learned from once more than there were whole epochs if its mini-batch   *)
(* has been.  First what dividing and joining sequences does.              *)

(* Rows in equal parts.                                                    *)

\* Integer division, and the places of rows in equal parts.
LEMMA DivisionIs ==
  ASSUME NEW a \in Nat, NEW b \in Nat \ {0}
  PROVE  /\ a \div b \in Nat
         /\ \E r \in 0 .. b - 1 : a = (a \div b) * b + r
<1>1. a = b * (a \div b) + (a % b) /\ a % b \in 0 .. b - 1
  OBVIOUS
<1>2. a \div b \in Nat
  OBVIOUS
<1> QED BY <1>1, <1>2

LEMMA Quotient ==
  ASSUME NEW c \in Nat, NEW b \in Nat \ {0}
  PROVE  (c * b) \div b = c
<1>1. c * b \in Nat
  OBVIOUS
<1>2. PICK q \in Nat : q = (c * b) \div b
  BY <1>1, DivisionIs
<1>3. PICK r \in 0 .. b - 1 : c * b = q * b + r
  BY <1>1, <1>2, DivisionIs
<1>4. ~(q < c)
  <2> SUFFICES ASSUME q < c PROVE FALSE
    OBVIOUS
  <2>1. q * b + b <= c * b
    BY Multiples
  <2>2. q * b \in Nat
    OBVIOUS
  <2> QED BY <1>1, <1>3, <2>1, <2>2
<1>5. ~(c < q)
  <2> SUFFICES ASSUME c < q PROVE FALSE
    OBVIOUS
  <2>1. c * b + b <= q * b
    BY Multiples
  <2>2. q * b \in Nat
    OBVIOUS
  <2> QED BY <1>1, <1>3, <2>1, <2>2
<1> QED BY <1>2, <1>4, <1>5

\* Place p of part e, of a parts of b.
LEMMA PlaceIn ==
  ASSUME NEW a \in Nat, NEW b \in Nat, NEW e \in 1 .. a, NEW p \in 1 .. b
  PROVE  (e - 1) * b + p \in 1 .. a * b
<1>1. (e - 1) * b + b <= a * b
  BY Multiples
<1>2. (e - 1) * b \in Nat /\ a * b \in Nat
  OBVIOUS
<1> QED BY <1>1, <1>2

LEMMA PlaceOf ==
  ASSUME NEW a \in Nat, NEW b \in Nat, NEW k \in 1 .. a * b
  PROVE  \E e \in 1 .. a, p \in 1 .. b : k = (e - 1) * b + p
<1>1. b # 0 /\ a * b \in Nat /\ k - 1 \in Nat /\ b \in Nat \ {0}
  OBVIOUS
<1>2. PICK q \in Nat, r \in 0 .. b - 1 : k - 1 = q * b + r
  BY <1>1, DivisionIs
<1>3. q < a
  <2> SUFFICES ASSUME ~(q < a) PROVE FALSE
    OBVIOUS
  <2>1. a * b <= q * b
    <3>1. CASE a = q
      BY <3>1
    <3>2. CASE a < q
      BY <3>2, Multiples
    <3> QED BY <3>1, <3>2
  <2>2. q * b \in Nat
    OBVIOUS
  <2> QED BY <1>1, <1>2, <2>1, <2>2
<1>4. q + 1 \in 1 .. a /\ r + 1 \in 1 .. b /\ (q + 1) - 1 = q
  BY <1>1, <1>3
<1>5. k = q * b + (r + 1)
  BY <1>1, <1>2
<1> QED BY <1>4, <1>5

LEMMA PlaceUnique ==
  ASSUME NEW b \in Nat, NEW e \in Nat, NEW f \in Nat, NEW p \in 1 .. b, NEW q \in 1 .. b,
         e * b + p = f * b + q
  PROVE  e = f /\ p = q
<1>1. e * b \in Nat /\ f * b \in Nat
  OBVIOUS
<1>2. ~(e < f)
  <2> SUFFICES ASSUME e < f PROVE FALSE
    OBVIOUS
  <2>1. e * b + b <= f * b
    BY Multiples
  <2> QED BY <1>1, <2>1
<1>3. ~(f < e)
  <2> SUFFICES ASSUME f < e PROVE FALSE
    OBVIOUS
  <2>1. f * b + b <= e * b
    BY Multiples
  <2> QED BY <1>1, <2>1
<1> QED BY <1>1, <1>2, <1>3

-----------------------------------------------------------------------------
(* FlattenSeq.                                                             *)

Flattens(f, ss) == f[1] = ss[1] /\ \A i \in 2 .. Len(ss) : f[i] = f[i - 1] \o ss[i]

\* FlattenSeq as the last of the sequences that are built up to it.
LEMMA FlattenIs ==
  ASSUME NEW U, NEW ss \in Seq(Seq(U)), Len(ss) > 0
  PROVE  \E f : Flattens(f, ss) /\ FlattenSeq(ss) = f[Len(ss)]
<1> DEFINE n == Len(ss)
           Def(u) == [i \in 1 .. n |-> IF i = 1 THEN ss[i] ELSE u[i - 1] \o ss[i]]
           up == CHOOSE u : u = Def(u)
<1>1. n \in Nat \ {0} /\ \A i \in 1 .. n : ss[i] \in Seq(U)
  BY LenProperties, ElementOfSeq
<1>2. PICK f \in [0 .. n -> Seq(U)] : Joins(f, ss)
  BY JoinedIs
<1>3. \E g : g = Def(g)
  <2> DEFINE g == [i \in 1 .. n |-> f[i]]
  <2>1. ASSUME NEW i \in 1 .. n PROVE g[i] = IF i = 1 THEN ss[i] ELSE g[i - 1] \o ss[i]
    <3>1. g[i] = f[i] /\ f[i] = f[i - 1] \o ss[i]
      BY <1>2 DEF Joins
    <3>2. CASE i = 1
      <4>1. f[i - 1] = <<>> /\ ss[i] \in Seq(U)
        BY <1>1, <1>2, <3>2 DEF Joins
      <4>2. <<>> \o ss[i] = ss[i]
        BY <4>1, ConcatEmptySeq
      <4> HIDE DEF g
      <4> QED BY <3>1, <3>2, <4>1, <4>2
    <3>3. CASE i # 1
      <4>1. i - 1 \in 1 .. n
        BY <1>1, <3>3
      <4>2. g[i - 1] = f[i - 1]
        <5> HIDE DEF n
        <5> QED BY <4>1
      <4> HIDE DEF g
      <4> QED BY <3>1, <3>3, <4>2
    <3> QED BY <3>2, <3>3
  <2>2. g = Def(g)
    <3>1. g = [i \in 1 .. n |-> g[i]]
      OBVIOUS
    <3> HIDE DEF g, n
    <3> QED BY <2>1, <3>1
  <2> HIDE DEF g, Def
  <2> QED BY <2>2
<1>4. up = Def(up)
  <2> HIDE DEF Def
  <2> QED BY <1>3
<1>5. Flattens(up, ss)
  <2> DEFINE d == Def(up)
  <2>1. d[1] = ss[1] /\ \A i \in 2 .. n : d[i] = up[i - 1] \o ss[i]
    <3>1. 1 \in 1 .. n /\ \A i \in 2 .. n : i \in 1 .. n /\ i # 1
      BY <1>1
    <3> HIDE DEF up, n
    <3> QED BY <3>1
  <2> HIDE DEF d, up
  <2>2. d = up
    BY <1>4 DEF d
  <2> QED BY <2>1, <2>2 DEF Flattens
<1>6. FlattenSeq(ss) = up[n]
  BY <1>1 DEF FlattenSeq
<1> HIDE DEF up
<1> QED BY <1>5, <1>6

\* What holds of the first part, and with every further one of what is there,
\* holds of all: C[i] are the sequences that may come of the first i parts.
LEMMA FlattenKeeps ==
  ASSUME NEW U, NEW ss \in Seq(Seq(U)), Len(ss) > 0, NEW C,
         ss[1] \in C[1],
         \A i \in 2 .. Len(ss) : \A s \in C[i - 1] : s \o ss[i] \in C[i]
  PROVE  FlattenSeq(ss) \in C[Len(ss)]
<1>1. PICK n \in Nat \ {0} : n = Len(ss)
  BY LenProperties
<1>2. PICK f : Flattens(f, ss) /\ FlattenSeq(ss) = f[n]
  BY <1>1, FlattenIs
<1> DEFINE T == {i \in Nat : i + 1 <= n => f[i + 1] \in C[i + 1]}
<1>3. 0 \in T
  BY <1>2 DEF Flattens
<1>4. ASSUME NEW i \in Nat, i \in T PROVE i + 1 \in T
  <2> SUFFICES ASSUME (i + 1) + 1 <= n PROVE f[(i + 1) + 1] \in C[(i + 1) + 1]
    OBVIOUS
  <2>1. PICK j \in 2 .. n : j = (i + 1) + 1 /\ j - 1 = i + 1
    OBVIOUS
  <2>2. f[j - 1] \in C[j - 1]
    BY <1>4, <2>1
  <2>3. f[j] = f[j - 1] \o ss[j]
    BY <1>1, <1>2, <2>1 DEF Flattens
  <2>4. f[j - 1] \o ss[j] \in C[j]
    BY <1>1, <2>2
  <2> QED BY <2>1, <2>3, <2>4
<1> HIDE DEF T
<1>5. Nat \subseteq T
  BY <1>3, <1>4, SetInduction
<1>6. PICK m \in Nat : m + 1 = n
  BY <1>1
<1>7. f[n] \in C[n]
  <2>1. m \in T /\ m + 1 <= n
    BY <1>5, <1>6
  <2>2. f[m + 1] \in C[m + 1]
    BY <2>1 DEF T
  <2> QED BY <1>6, <2>2, Zenon
<1> QED BY <1>1, <1>2, <1>7

\* Of parts of one length, each element is where its part and place say.
LEMMA FlattenEqual ==
  ASSUME NEW U, NEW ss \in Seq(Seq(U)), Len(ss) > 0, NEW b \in Nat,
         \A e \in 1 .. Len(ss) : Len(ss[e]) = b
  PROVE  /\ FlattenSeq(ss) \in Seq(U) /\ Len(FlattenSeq(ss)) = Len(ss) * b
         /\ \A e \in 1 .. Len(ss), p \in 1 .. b : FlattenSeq(ss)[(e - 1) * b + p] = ss[e][p]
<1> DEFINE Fits(s, i) == /\ s \in Seq(U) /\ Len(s) = i * b
                         /\ \A e \in 1 .. i, p \in 1 .. b : s[(e - 1) * b + p] = ss[e][p]
           C == [i \in 1 .. Len(ss) |-> {s \in Seq(U) : Fits(s, i)}]
<1>1. PICK n \in Nat \ {0} : n = Len(ss)
  BY LenProperties
<1>2. \A i \in 1 .. n : ss[i] \in Seq(U) /\ Len(ss[i]) = b
  BY <1>1, ElementOfSeq
<1>3. Fits(ss[1], 1)
  <2>1. ss[1] \in Seq(U) /\ Len(ss[1]) = b /\ 1 * b = b
    BY <1>2
  <2>2. \A e \in 1 .. 1, p \in 1 .. b : e = 1 /\ (e - 1) * b + p = p
    OBVIOUS
  <2> QED BY <2>1, <2>2
<1>4. ASSUME NEW i \in 2 .. n, NEW s \in Seq(U), Fits(s, i - 1)
      PROVE  Fits(s \o ss[i], i)
  <2>1. PICK k \in Nat : k = i - 1 /\ k + 1 = i
    OBVIOUS
  <2>2. PICK t \in Seq(U) : t = ss[i] /\ Len(t) = b
    BY <1>1, <1>2
  <2>3. Len(s) = k * b /\ k * b \in Nat /\ i * b = k * b + b
    BY <1>4, <2>1
  <2>4. /\ s \o t \in Seq(U) /\ Len(s \o t) = Len(s) + Len(t)
        /\ \A j \in 1 .. Len(s) + Len(t) : (s \o t)[j] = IF j <= Len(s) THEN s[j] ELSE t[j - Len(s)]
    BY AppendIs
  <2>5. ASSUME NEW e \in 1 .. i, NEW p \in 1 .. b
        PROVE  (s \o t)[(e - 1) * b + p] = ss[e][p]
    <3>1. CASE e = i
      <4>1. (e - 1) * b + p = k * b + p /\ p = (k * b + p) - k * b /\ ~(k * b + p <= k * b)
            /\ k * b + p \in 1 .. k * b + b
        BY <2>1, <2>3, <3>1
      <4>2. (s \o t)[k * b + p] = t[p]
        BY <2>2, <2>3, <2>4, <4>1
      <4> QED BY <2>2, <3>1, <4>1, <4>2
    <3>2. CASE e # i
      <4>1. e \in 1 .. k
        BY <2>1, <3>2
      <4>2. (e - 1) * b + p \in 1 .. k * b
        BY <4>1, PlaceIn
      <4>3. PICK j \in 1 .. k * b : j = (e - 1) * b + p
        BY <4>2
      <4>4. s[j] = ss[e][p]
        BY <1>4, <2>1, <4>1, <4>3
      <4>5. (s \o t)[j] = s[j]
        BY <2>2, <2>3, <2>4, <4>3
      <4> QED BY <4>3, <4>4, <4>5
    <3> QED BY <3>1, <3>2
  <2> QED BY <2>2, <2>3, <2>4, <2>5
<1>5. C[n] = {s \in Seq(U) : Fits(s, n)} /\ ss[1] \in C[1]
  <2>1. n \in 1 .. n /\ 1 \in 1 .. n /\ ss[1] \in Seq(U)
    BY <1>2
  <2> HIDE DEF Fits
  <2> QED BY <1>1, <1>3, <2>1
<1>6. \A i \in 2 .. n : \A s \in C[i - 1] : s \o ss[i] \in C[i]
  <2> SUFFICES ASSUME NEW i \in 2 .. n, NEW s \in C[i - 1] PROVE s \o ss[i] \in C[i]
    OBVIOUS
  <2>1. i - 1 \in 1 .. n /\ i \in 1 .. n
    OBVIOUS
  <2>2. C[i - 1] = {x \in Seq(U) : Fits(x, i - 1)} /\ C[i] = {x \in Seq(U) : Fits(x, i)}
    <3> HIDE DEF Fits
    <3> QED BY <1>1, <2>1
  <2>3. s \in Seq(U) /\ Fits(s, i - 1)
    BY <2>2
  <2>4. Fits(s \o ss[i], i)
    BY <1>4, <2>3
  <2> QED BY <2>2, <2>4
<1> HIDE DEF C
<1>7. FlattenSeq(ss) \in C[n]
  BY <1>1, <1>5, <1>6, FlattenKeeps
<1> QED BY <1>1, <1>5, <1>7

-----------------------------------------------------------------------------
(* Enumerations.                                                           *)

\* An enumeration is as long as its set is large.
LEMMA EnumerationLength ==
  ASSUME NEW S, NEW s, Enumerates(s, S)
  PROVE  IsFiniteSet(S) /\ Len(s) = Cardinality(S)
<1>1. PICK n \in Nat : n = Len(s)
  BY LenProperties DEF Enumerates
<1> DEFINE f == [i \in 1 .. n |-> s[i]]
<1>2. \A i \in 1 .. n : s[i] \in S
  BY <1>1, ElementOfSeq DEF Enumerates
<1>3. f \in Bijection(1 .. n, S)
  <2>1. f \in [1 .. n -> S]
    BY <1>2
  <2>2. \A i, j \in 1 .. n : f[i] = f[j] => i = j
    BY <1>1 DEF Enumerates, Distinct
  <2>3. \A x \in S : \E i \in 1 .. n : f[i] = x
    BY <1>1 DEF Enumerates, Has
  <2> HIDE DEF f
  <2> QED BY <2>1, <2>2, <2>3 DEF Bijection, Injection, Surjection, IsInjective
<1>4. ExistsBijection(1 .. n, S)
  <2> HIDE DEF f
  <2> QED BY <1>3 DEF ExistsBijection
<1>5. IsFiniteSet(1 .. n) /\ Cardinality(1 .. n) = n
  BY IntervalSize
<1> QED BY <1>1, <1>4, <1>5, FS_Bijection

\* Sorting a set of rows loses none and repeats none.
LEMMA AscendingIs ==
  ASSUME NEW n \in Nat, NEW S \in SUBSET (1 .. n)
  PROVE  Enumerates(Ascending(S), S)
<1>1. IsFiniteSet(S) /\ \A x \in S : x \in Nat
  <2>1. IsFiniteSet(1 .. n)
    BY IntervalSize
  <2>2. IsFiniteSet(S)
    BY <2>1, FS_Subset
  <2> QED BY <2>2
<1>2. PICK c \in Nat : c = Cardinality(S)
  BY <1>1, FS_CardinalityType
<1> DEFINE Below(r) == {q \in S : q < r}
           rank == [r \in S |-> Cardinality(Below(r)) + 1]
<1>3. ASSUME NEW r \in S
      PROVE  IsFiniteSet(Below(r)) /\ Cardinality(Below(r)) \in Nat /\ rank[r] \in 1 .. c
  <2>1. Below(r) \subseteq S /\ r \notin Below(r)
    BY <1>1
  <2>2. /\ IsFiniteSet(Below(r)) /\ Cardinality(Below(r)) <= c
        /\ (c = Cardinality(Below(r)) => S = Below(r))
    <3> HIDE DEF Below
    <3> QED BY <1>1, <1>2, <2>1, FS_Subset
  <2>3. Cardinality(Below(r)) \in Nat
    <3> HIDE DEF Below
    <3> QED BY <2>2, FS_CardinalityType
  <2>4. c # Cardinality(Below(r))
    <3> HIDE DEF Below
    <3> QED BY <2>1, <2>2
  <2> HIDE DEF Below
  <2> QED BY <2>2, <2>3, <2>4
<1>4. ASSUME NEW r \in S, NEW q \in S, q < r
      PROVE  rank[q] < rank[r]
  <2>1. Below(q) \subseteq Below(r) /\ q \in Below(r) /\ q \notin Below(q)
    <3>1. q \in Nat /\ r \in Nat /\ q < r
      BY <1>1, <1>4
    <3>2. \A x \in S : x < q => x < r
      BY <1>1, <3>1
    <3>3. ~(q < q)
      BY <3>1
    <3>4. \A x \in Below(q) : x \in Below(r)
      BY <3>2
    <3>5. q \in Below(r) /\ q \notin Below(q)
      BY <3>1, <3>3
    <3> HIDE DEF Below
    <3> QED BY <3>4, <3>5
  <2> HIDE DEF Below
  <2>2. /\ Cardinality(Below(q)) <= Cardinality(Below(r))
        /\ (Cardinality(Below(r)) = Cardinality(Below(q)) => Below(r) = Below(q))
    BY <1>3, <2>1, FS_Subset
  <2> QED BY <1>3, <2>1, <2>2
<1>5. \A q, r \in S : rank[q] = rank[r] => q = r
  <2> SUFFICES ASSUME NEW q \in S, NEW r \in S, rank[q] = rank[r], q # r PROVE FALSE
    OBVIOUS
  <2>1. q < r \/ r < q
    BY <1>1
  <2>2. rank[q] \in 1 .. c /\ rank[r] \in 1 .. c
    BY <1>3
  <2>3. rank[q] < rank[r] \/ rank[r] < rank[q]
    <3> HIDE DEF rank
    <3> QED BY <1>4, <2>1
  <2> HIDE DEF rank
  <2> QED BY <2>2, <2>3
<1>6. rank \in Surjection(S, 1 .. c)
  <2>1. rank \in [S -> 1 .. c]
    <3>1. rank = [r \in S |-> rank[r]]
      OBVIOUS
    <3> HIDE DEF rank
    <3> QED BY <1>3, <3>1
  <2> HIDE DEF rank
  <2>2. rank \in Injection(S, 1 .. c)
    BY <1>5, <2>1 DEF Injection, IsInjective
  <2> QED BY <1>1, <1>2, <2>2, IntervalSize, FS_Injection
<1>7. \A i \in 1 .. c : \E r \in S : rank[r] = i
  <2> HIDE DEF rank
  <2> QED BY <1>6 DEF Surjection
<1> DEFINE a == [i \in 1 .. c |-> CHOOSE r \in S : Cardinality(Below(r)) = i - 1]
<1>8. Ascending(S) = a
  BY <1>2 DEF Ascending
<1>9. ASSUME NEW i \in 1 .. c PROVE a[i] \in S /\ rank[a[i]] = i
  <2> DEFINE Right(r) == r \in S /\ Cardinality(Below(r)) = i - 1
             x == CHOOSE r : Right(r)
  <2>1. PICK r \in S : rank[r] = i
    BY <1>7
  <2>2. Right(r)
    <3>1. rank[r] = Cardinality(Below(r)) + 1
      OBVIOUS
    <3>2. Cardinality(Below(r)) \in Nat
      BY <1>3
    <3> HIDE DEF rank, Below
    <3> QED BY <2>1, <3>1, <3>2
  <2>3. Right(x)
    <3> HIDE DEF Right
    <3> QED BY <2>2
  <2>4. a[i] = x
    OBVIOUS
  <2>5. x \in S /\ Cardinality(Below(x)) = i - 1
    <3> HIDE DEF x
    <3> QED BY <2>3
  <2>6. rank[x] = Cardinality(Below(x)) + 1
    <3> HIDE DEF x, Below
    <3> QED BY <2>5
  <2>7. rank[x] = i
    <3> HIDE DEF x, Below, rank
    <3> QED BY <2>5, <2>6
  <2> HIDE DEF x, a, rank, Below
  <2> QED BY <2>4, <2>5, <2>7
<1>10. a = [i \in 1 .. c |-> a[i]]
  OBVIOUS
<1> HIDE DEF a, rank, Below
<1>11. a \in Seq(S) /\ Len(a) = c
  BY <1>9, <1>10
<1>12. Distinct(a)
  BY <1>9, <1>11 DEF Distinct
<1>13. ASSUME NEW x \in S PROVE Has(a, x)
  <2>1. rank[x] \in 1 .. c
    BY <1>3
  <2>2. a[rank[x]] \in S /\ rank[a[rank[x]]] = rank[x]
    BY <1>9, <2>1
  <2>3. a[rank[x]] = x
    BY <1>5, <2>2
  <2> QED BY <1>11, <2>1, <2>3 DEF Has
<1> QED BY <1>8, <1>11, <1>12, <1>13 DEF Enumerates

LEMMA ConcatHas ==
  ASSUME NEW U, NEW s \in Seq(U), NEW t \in Seq(U)
  PROVE  \A x : Has(s \o t, x) <=> Has(s, x) \/ Has(t, x)
<1>1. /\ Len(s) \in Nat /\ Len(t) \in Nat /\ Len(s \o t) = Len(s) + Len(t)
      /\ \A i \in 1 .. Len(s) + Len(t) : (s \o t)[i] = IF i <= Len(s) THEN s[i] ELSE t[i - Len(s)]
  BY AppendIs
<1> SUFFICES ASSUME NEW x PROVE Has(s \o t, x) <=> Has(s, x) \/ Has(t, x)
  OBVIOUS
<1>2. ASSUME Has(s \o t, x) PROVE Has(s, x) \/ Has(t, x)
  <2>1. PICK k \in 1 .. Len(s) + Len(t) : (s \o t)[k] = x
    BY <1>1, <1>2 DEF Has
  <2>2. CASE k <= Len(s)
    <3>1. k \in 1 .. Len(s) /\ s[k] = x
      BY <1>1, <2>1, <2>2
    <3> QED BY <3>1 DEF Has
  <2>3. CASE ~(k <= Len(s))
    <3>1. k - Len(s) \in 1 .. Len(t) /\ t[k - Len(s)] = x
      BY <1>1, <2>1, <2>3
    <3> QED BY <3>1 DEF Has
  <2> QED BY <2>2, <2>3
<1>3. ASSUME Has(s, x) PROVE Has(s \o t, x)
  <2>1. PICK k \in 1 .. Len(s) : s[k] = x
    BY <1>3 DEF Has
  <2>2. k \in 1 .. Len(s) + Len(t) /\ (s \o t)[k] = x
    BY <1>1, <2>1
  <2> QED BY <1>1, <2>2 DEF Has
<1>4. ASSUME Has(t, x) PROVE Has(s \o t, x)
  <2>1. PICK k \in 1 .. Len(t) : t[k] = x
    BY <1>4 DEF Has
  <2>2. PICK j : j = k + Len(s)
    OBVIOUS
  <2>3. j \in 1 .. Len(s) + Len(t) /\ ~(j <= Len(s)) /\ j - Len(s) = k
    BY <1>1, <2>2
  <2>4. (s \o t)[j] = x
    BY <1>1, <2>1, <2>3
  <2> QED BY <1>1, <2>3, <2>4 DEF Has
<1> QED BY <1>2, <1>3, <1>4

LEMMA ConcatDistinct ==
  ASSUME NEW U, NEW s \in Seq(U), NEW t \in Seq(U), Distinct(s), Distinct(t),
         \A x \in U : ~(Has(s, x) /\ Has(t, x))
  PROVE  Distinct(s \o t)
<1>1. /\ Len(s) \in Nat /\ Len(t) \in Nat /\ Len(s \o t) = Len(s) + Len(t)
      /\ \A i \in 1 .. Len(s) + Len(t) : (s \o t)[i] = IF i <= Len(s) THEN s[i] ELSE t[i - Len(s)]
  BY AppendIs
<1>2. \A k \in 1 .. Len(s), l \in 1 .. Len(t) : s[k] # t[l]
  <2> SUFFICES ASSUME NEW k \in 1 .. Len(s), NEW l \in 1 .. Len(t), s[k] = t[l] PROVE FALSE
    OBVIOUS
  <2>1. s[k] \in U /\ Has(s, s[k]) /\ Has(t, s[k])
    BY ElementOfSeq DEF Has
  <2> QED BY <2>1
<1>3. ASSUME NEW k \in 1 .. Len(s) + Len(t), NEW l \in 1 .. Len(s) + Len(t),
             (s \o t)[k] = (s \o t)[l]
      PROVE  k = l
  <2>1. CASE k <= Len(s) /\ l <= Len(s)
    <3>1. k \in 1 .. Len(s) /\ l \in 1 .. Len(s) /\ s[k] = s[l]
      BY <1>1, <1>3, <2>1
    <3> QED BY <3>1 DEF Distinct
  <2>2. CASE ~(k <= Len(s)) /\ ~(l <= Len(s))
    <3>0. k - Len(s) \in 1 .. Len(t) /\ l - Len(s) \in 1 .. Len(t)
      BY <1>1, <2>2
    <3>1. PICK i \in 1 .. Len(t), j \in 1 .. Len(t) : i = k - Len(s) /\ j = l - Len(s)
      BY <3>0
    <3>2. t[i] = t[j]
      BY <1>1, <1>3, <2>2, <3>1
    <3>3. i = j
      BY <3>2 DEF Distinct
    <3> QED BY <1>1, <3>1, <3>3
  <2>3. CASE k <= Len(s) /\ ~(l <= Len(s))
    <3>1. PICK j \in 1 .. Len(t) : j = l - Len(s)
      BY <1>1, <2>3
    <3>2. k \in 1 .. Len(s) /\ s[k] = t[j]
      BY <1>1, <1>3, <2>3, <3>1
    <3> QED BY <1>2, <3>2
  <2>4. CASE ~(k <= Len(s)) /\ l <= Len(s)
    <3>1. PICK j \in 1 .. Len(t) : j = k - Len(s)
      BY <1>1, <2>4
    <3>2. l \in 1 .. Len(s) /\ s[l] = t[j]
      BY <1>1, <1>3, <2>4, <3>1
    <3> QED BY <1>2, <3>2
  <2> QED BY <2>1, <2>2, <2>3, <2>4
<1> QED BY <1>1, <1>3 DEF Distinct

LEMMA EmptyHas == \A x : ~Has(<<>>, x)
BY DEF Has

\* Parts that share nothing are joined to what has everything once.
LEMMA FlattenDistinct ==
  ASSUME NEW U, NEW ss \in Seq(Seq(U)), Len(ss) > 0,
         \A i \in 1 .. Len(ss) : Distinct(ss[i]),
         \A i, j \in 1 .. Len(ss), x \in U : Has(ss[i], x) /\ Has(ss[j], x) => i = j
  PROVE  /\ FlattenSeq(ss) \in Seq(U) /\ Distinct(FlattenSeq(ss))
         /\ \A x : Has(FlattenSeq(ss), x) <=> \E i \in 1 .. Len(ss) : Has(ss[i], x)
<1> DEFINE Fits(s, i) == /\ s \in Seq(U) /\ Distinct(s)
                         /\ \A x : Has(s, x) <=> \E j \in 1 .. i : Has(ss[j], x)
           C == [i \in 1 .. Len(ss) |-> {s \in Seq(U) : Fits(s, i)}]
<1>1. PICK n \in Nat \ {0} : n = Len(ss)
  BY LenProperties
<1>2. \A i \in 1 .. n : ss[i] \in Seq(U) /\ Distinct(ss[i])
  BY <1>1, ElementOfSeq
<1>3. Fits(ss[1], 1)
  <2>1. \A j \in 1 .. 1 : j = 1
    OBVIOUS
  <2> QED BY <1>2, <2>1
<1>4. ASSUME NEW i \in 2 .. n, NEW s \in Seq(U), Fits(s, i - 1)
      PROVE  Fits(s \o ss[i], i)
  <2>1. PICK t \in Seq(U) : t = ss[i] /\ Distinct(t)
    BY <1>2
  <2>2. s \o t \in Seq(U)
    BY AppendIs
  <2>3. \A x \in U : ~(Has(s, x) /\ Has(t, x))
    <3> SUFFICES ASSUME NEW x \in U, Has(s, x), Has(t, x) PROVE FALSE
      OBVIOUS
    <3>1. PICK j \in 1 .. i - 1 : Has(ss[j], x)
      BY <1>4
    <3>2. j \in 1 .. n /\ i \in 1 .. n /\ j # i
      OBVIOUS
    <3> QED BY <1>1, <2>1, <3>1, <3>2
  <2>4. Distinct(s \o t)
    BY <1>4, <2>1, <2>3, ConcatDistinct
  <2>5. ASSUME NEW x PROVE Has(s \o t, x) <=> \E j \in 1 .. i : Has(ss[j], x)
    <3>1. Has(s \o t, x) <=> Has(s, x) \/ Has(t, x)
      BY ConcatHas
    <3>2. Has(s, x) <=> \E j \in 1 .. i - 1 : Has(ss[j], x)
      BY <1>4
    <3>3. \A j \in 1 .. i : j \in 1 .. i - 1 \/ j = i
      OBVIOUS
    <3>4. (\A j \in 1 .. i - 1 : j \in 1 .. i) /\ i \in 1 .. i
      OBVIOUS
    <3> QED BY <2>1, <3>1, <3>2, <3>3, <3>4
  <2> QED BY <2>1, <2>2, <2>4, <2>5
<1>5. C[n] = {s \in Seq(U) : Fits(s, n)} /\ ss[1] \in C[1]
  <2>1. n \in 1 .. n /\ 1 \in 1 .. n /\ ss[1] \in Seq(U)
    BY <1>2
  <2> HIDE DEF Fits
  <2> QED BY <1>1, <1>3, <2>1
<1>6. \A i \in 2 .. n : \A s \in C[i - 1] : s \o ss[i] \in C[i]
  <2> SUFFICES ASSUME NEW i \in 2 .. n, NEW s \in C[i - 1] PROVE s \o ss[i] \in C[i]
    OBVIOUS
  <2>1. i - 1 \in 1 .. n /\ i \in 1 .. n
    OBVIOUS
  <2>2. C[i - 1] = {x \in Seq(U) : Fits(x, i - 1)} /\ C[i] = {x \in Seq(U) : Fits(x, i)}
    <3> HIDE DEF Fits
    <3> QED BY <1>1, <2>1
  <2>3. s \in Seq(U) /\ Fits(s, i - 1)
    BY <2>2
  <2>4. Fits(s \o ss[i], i)
    BY <1>4, <2>3
  <2> QED BY <2>2, <2>4
<1> HIDE DEF C
<1>7. FlattenSeq(ss) \in C[n]
  BY <1>1, <1>5, <1>6, FlattenKeeps
<1> QED BY <1>1, <1>5, <1>7

-----------------------------------------------------------------------------
(* Divisions.                                                              *)

\* Before the first forward pass nothing is seen.
LEMMA DividesAll ==
  ASSUME NEW S, NEW ss \in Seq(Seq(S)),
         \A i \in 1 .. Len(ss) : Distinct(ss[i]),
         \A x \in S : \E i \in 1 .. Len(ss) : Has(ss[i], x),
         \A i, j \in 1 .. Len(ss), x \in S : Has(ss[i], x) /\ Has(ss[j], x) => i = j
  PROVE  Divides(<<>>, ss, S)
<1>1. <<>> \in Seq(S) /\ Distinct(<<>>)
  BY EmptySeq DEF Distinct
<1> QED BY <1>1, EmptyHas DEF Divides

\* All micro-batches one after the other are the mini-batch.
LEMMA DivisionFlattens ==
  ASSUME NEW S, NEW ss, Divides(<<>>, ss, S), Len(ss) > 0
  PROVE  Enumerates(FlattenSeq(ss), S)
<1>1. /\ ss \in Seq(Seq(S)) /\ \A i \in 1 .. Len(ss) : Distinct(ss[i])
      /\ \A x \in S : \E i \in 1 .. Len(ss) : Has(ss[i], x)
      /\ \A i, j \in 1 .. Len(ss), x \in S : Has(ss[i], x) /\ Has(ss[j], x) => i = j
  BY EmptyHas DEF Divides
<1>2. /\ FlattenSeq(ss) \in Seq(S) /\ Distinct(FlattenSeq(ss))
      /\ \A x : Has(FlattenSeq(ss), x) <=> \E i \in 1 .. Len(ss) : Has(ss[i], x)
  BY <1>1, FlattenDistinct
<1> QED BY <1>1, <1>2 DEF Enumerates

\* A forward pass moves a micro-batch from those to go to what is seen.
LEMMA ForwardDivides ==
  ASSUME NEW S, NEW seen, NEW micros, Divides(seen, micros, S), Len(micros) > 0
  PROVE  /\ Divides(seen \o Head(micros), Tail(micros), S)
         /\ Len(Tail(micros)) = Len(micros) - 1
         /\ ~(Len(micros) > 1) => Enumerates(seen \o Head(micros), S)
<1>1. /\ seen \in Seq(S) /\ Distinct(seen)
      /\ micros \in Seq(Seq(S)) /\ \A i \in 1 .. Len(micros) : Distinct(micros[i])
      /\ \A x \in S : Has(seen, x) \/ \E i \in 1 .. Len(micros) : Has(micros[i], x)
      /\ \A x \in S : \A i \in 1 .. Len(micros) : Has(micros[i], x) =>
           /\ ~Has(seen, x)
           /\ \A j \in 1 .. Len(micros) : Has(micros[j], x) => i = j
  BY DEF Divides
<1>2. PICK n \in Nat : Len(micros) = n + 1
  <2>1. Len(micros) \in Nat /\ Len(micros) > 0
    BY <1>1, LenProperties
  <2>2. Len(micros) - 1 \in Nat /\ Len(micros) = (Len(micros) - 1) + 1
    BY <2>1
  <2> QED BY <2>2
<1>3. PICK t : t = Tail(micros)
  OBVIOUS
<1>4. t \in Seq(Seq(S)) /\ Len(t) = n /\ \A i \in 1 .. n : t[i] = micros[i + 1]
  <2>1. micros # <<>>
    BY <1>2
  <2> QED BY <1>1, <1>2, <1>3, <2>1, HeadTailProperties
<1>5. PICK h \in Seq(S) : h = Head(micros) /\ h = micros[1] /\ Distinct(h)
  <2>1. 1 \in 1 .. Len(micros)
    BY <1>2
  <2>2. micros[1] \in Seq(S)
    BY <1>1, <2>1, ElementOfSeq
  <2> QED BY <1>1, <2>1, <2>2
<1>6. \A x \in S : Has(h, x) => ~Has(seen, x) /\ \A j \in 1 .. n : ~Has(t[j], x)
  <2> SUFFICES ASSUME NEW x \in S, Has(h, x)
               PROVE  ~Has(seen, x) /\ \A j \in 1 .. n : ~Has(t[j], x)
    OBVIOUS
  <2>1. 1 \in 1 .. Len(micros) /\ Has(micros[1], x)
    BY <1>2, <1>5
  <2>2. ~Has(seen, x) /\ \A j \in 1 .. Len(micros) : Has(micros[j], x) => 1 = j
    BY <1>1, <2>1
  <2>3. \A j \in 1 .. n : j + 1 \in 1 .. Len(micros) /\ j + 1 # 1
    BY <1>2
  <2> QED BY <1>4, <2>2, <2>3
<1>7. seen \o h \in Seq(S) /\ Distinct(seen \o h)
  BY <1>1, <1>5, <1>6, AppendIs, ConcatDistinct
<1>8. \A x : Has(seen \o h, x) <=> Has(seen, x) \/ Has(h, x)
  BY <1>1, <1>5, ConcatHas
<1>9. \A i \in 1 .. n : Distinct(t[i])
  <2>1. \A i \in 1 .. n : i + 1 \in 1 .. Len(micros)
    BY <1>2
  <2> QED BY <1>1, <1>4, <2>1
<1>10. ASSUME NEW x \in S PROVE Has(seen \o h, x) \/ \E i \in 1 .. n : Has(t[i], x)
  <2>1. Has(seen, x) \/ \E i \in 1 .. Len(micros) : Has(micros[i], x)
    BY <1>1
  <2>2. ASSUME NEW i \in 1 .. Len(micros), Has(micros[i], x)
        PROVE  Has(h, x) \/ \E j \in 1 .. n : Has(t[j], x)
    <3>1. CASE i = 1
      BY <1>5, <2>2, <3>1
    <3>2. CASE i # 1
      <4>1. PICK j \in 1 .. n : j + 1 = i
        <5>1. i - 1 \in 1 .. n /\ (i - 1) + 1 = i
          BY <1>2, <3>2
        <5> QED BY <5>1
      <4> QED BY <1>4, <2>2, <4>1
    <3> QED BY <3>1, <3>2
  <2> QED BY <1>8, <2>1, <2>2
<1>11. ASSUME NEW x \in S, NEW i \in 1 .. n, Has(t[i], x)
       PROVE  /\ ~Has(seen \o h, x)
              /\ \A j \in 1 .. n : Has(t[j], x) => i = j
  <2>1. i + 1 \in 1 .. Len(micros) /\ Has(micros[i + 1], x)
    BY <1>2, <1>4, <1>11
  <2>2. ~Has(seen, x) /\ \A j \in 1 .. Len(micros) : Has(micros[j], x) => i + 1 = j
    BY <1>1, <2>1
  <2>3. ~Has(h, x)
    BY <1>6, <1>11
  <2>4. ASSUME NEW j \in 1 .. n, Has(t[j], x) PROVE i = j
    <3>1. j + 1 \in 1 .. Len(micros) /\ Has(micros[j + 1], x)
      BY <1>2, <1>4, <2>4
    <3>2. i + 1 = j + 1
      BY <2>2, <3>1
    <3> QED BY <3>2
  <2> QED BY <1>8, <2>2, <2>3, <2>4
<1>12. Divides(seen \o h, t, S)
  BY <1>4, <1>7, <1>9, <1>10, <1>11 DEF Divides
<1>13. ASSUME ~(Len(micros) > 1) PROVE Enumerates(seen \o h, S)
  <2>1. \A i \in 1 .. n : FALSE
    BY <1>2, <1>13
  <2> QED BY <1>7, <1>10, <2>1 DEF Enumerates
<1> QED BY <1>2, <1>3, <1>4, <1>5, <1>12, <1>13

\* split() on positions: the parts are in order, and none is empty.
LEMMA SplitDivides ==
  ASSUME NEW n \in Nat \ {0}, NEW b \in Nat \ {0},
         NEW ss, ss = Split([i \in 1 .. n |-> i], b)
  PROVE  /\ Divides(<<>>, ss, 1 .. n) /\ Len(ss) > 0
         /\ \A m \in 1 .. Len(ss) : Len(ss[m]) > 0
<1> DEFINE rows == [i \in 1 .. n |-> i]
           hi(m) == IF m * b < n THEN m * b ELSE n
<1>1. /\ rows \in Seq(1 .. n) /\ Len(rows) = n /\ \A i \in 1 .. n : rows[i] = i
  OBVIOUS
<1>2. PICK c \in Nat : c = (n + b - 1) \div b
  BY DivisionIs
<1>3. PICK r \in 0 .. b - 1 : n + b - 1 = c * b + r
  BY <1>2, DivisionIs
<1>4. c * b \in Nat /\ n <= c * b /\ c * b < n + b
  BY <1>3
<1>5. c > 0
  <2> SUFFICES ASSUME c = 0 PROVE FALSE
    OBVIOUS
  <2> QED BY <1>4
<1>6. ss = [m \in 1 .. c |-> SubSeq(rows, (m - 1) * b + 1, hi(m))]
  BY <1>1, <1>2 DEF Split
<1>7. ASSUME NEW m \in 1 .. c
      PROVE  \E w \in 1 .. b : /\ ss[m] \in Seq(1 .. n) /\ Len(ss[m]) = w
                               /\ hi(m) = (m - 1) * b + w
                               /\ \A k \in 1 .. w : ss[m][k] = (m - 1) * b + k
  <2>1. PICK lo \in Nat : lo = (m - 1) * b
    OBVIOUS
  <2>2. lo + b <= c * b
    <3>1. m - 1 \in Nat /\ m - 1 < c
      OBVIOUS
    <3> QED BY <2>1, <3>1, Multiples
  <2>3. m * b = lo + b
    BY <2>1
  <2>4. hi(m) \in Nat /\ lo < hi(m) /\ hi(m) <= n /\ hi(m) <= lo + b
    BY <1>4, <2>2, <2>3
  <2>5. ss[m] = SubSeq(rows, lo + 1, hi(m))
    BY <1>6, <2>1
  <2>6. PICK h \in Nat : h = hi(m) /\ lo < h /\ h <= n /\ h <= lo + b
    BY <2>4
  <2> HIDE DEF rows, hi
  <2>7. \A i \in lo + 1 .. h : rows[i] \in 1 .. n
    BY <1>1, <2>6
  <2>8. /\ SubSeq(rows, lo + 1, h) \in Seq(1 .. n)
        /\ Len(SubSeq(rows, lo + 1, h)) = IF lo + 1 <= h THEN h - (lo + 1) + 1 ELSE 0
        /\ \A i \in 1 .. h - (lo + 1) + 1 : SubSeq(rows, lo + 1, h)[i] = rows[(lo + 1) + i - 1]
    BY <1>1, <2>6, <2>7, SubSeqProperties
  <2>9. PICK w \in 1 .. b : w = h - lo
    <3>1. h - lo \in 1 .. b
      BY <2>6
    <3> QED BY <3>1
  <2>10. h = lo + w /\ h - (lo + 1) + 1 = w /\ lo + 1 <= h
    BY <2>6, <2>9
  <2>11. \A k \in 1 .. w : ss[m][k] = lo + k
    <3> SUFFICES ASSUME NEW k \in 1 .. w PROVE ss[m][k] = lo + k
      OBVIOUS
    <3>1. lo + k \in 1 .. n /\ (lo + 1) + k - 1 = lo + k
      BY <2>6, <2>10
    <3>2. ss[m][k] = rows[lo + k]
      BY <2>5, <2>6, <2>8, <2>10, <3>1
    <3> QED BY <1>1, <3>1, <3>2
  <2>12. ss[m] \in Seq(1 .. n) /\ Len(ss[m]) = w
    BY <2>5, <2>6, <2>8, <2>10
  <2> QED BY <2>1, <2>6, <2>9, <2>10, <2>11, <2>12
<1>8. ss \in Seq(Seq(1 .. n)) /\ Len(ss) = c
  <2>1. \A m \in 1 .. c : ss[m] \in Seq(1 .. n)
    BY <1>7
  <2>2. ss = [m \in 1 .. c |-> ss[m]]
    BY <1>6
  <2> QED BY <2>1, <2>2
<1>9. \A m \in 1 .. c : \A x : Has(ss[m], x) => \E k \in 1 .. b : x = (m - 1) * b + k
  <2> SUFFICES ASSUME NEW m \in 1 .. c, NEW x, Has(ss[m], x)
               PROVE  \E k \in 1 .. b : x = (m - 1) * b + k
    OBVIOUS
  <2>1. PICK w \in 1 .. b : Len(ss[m]) = w /\ \A k \in 1 .. w : ss[m][k] = (m - 1) * b + k
    BY <1>7
  <2>2. PICK k \in 1 .. w : ss[m][k] = x
    BY <2>1 DEF Has
  <2>3. k \in 1 .. b
    OBVIOUS
  <2> QED BY <2>1, <2>2, <2>3
<1>10. \A m \in 1 .. c : Distinct(ss[m]) /\ Len(ss[m]) > 0
  <2> SUFFICES ASSUME NEW m \in 1 .. c PROVE Distinct(ss[m]) /\ Len(ss[m]) > 0
    OBVIOUS
  <2>1. PICK w \in 1 .. b : Len(ss[m]) = w /\ \A k \in 1 .. w : ss[m][k] = (m - 1) * b + k
    BY <1>7
  <2>2. PICK lo \in Nat : lo = (m - 1) * b
    OBVIOUS
  <2> QED BY <2>1, <2>2 DEF Distinct
<1>11. ASSUME NEW x \in 1 .. n PROVE \E m \in 1 .. c : Has(ss[m], x)
  <2>1. x \in 1 .. c * b
    BY <1>4
  <2>2. PICK m \in 1 .. c, p \in 1 .. b : x = (m - 1) * b + p
    BY <2>1, PlaceOf
  <2>3. PICK w \in 1 .. b : /\ Len(ss[m]) = w /\ hi(m) = (m - 1) * b + w
                            /\ \A k \in 1 .. w : ss[m][k] = (m - 1) * b + k
    BY <1>7
  <2>4. PICK lo \in Nat : lo = (m - 1) * b /\ m * b = lo + b
    OBVIOUS
  <2>5. p <= w
    BY <2>2, <2>3, <2>4
  <2>6. ss[m][p] = x /\ p \in 1 .. Len(ss[m])
    BY <2>2, <2>3, <2>5
  <2> QED BY <2>6 DEF Has
<1>12. ASSUME NEW i \in 1 .. c, NEW j \in 1 .. c, NEW x \in 1 .. n, Has(ss[i], x), Has(ss[j], x)
       PROVE  i = j
  <2>0. PICK k \in 1 .. b : x = (i - 1) * b + k
    BY <1>9, <1>12
  <2>1. PICK l \in 1 .. b : x = (j - 1) * b + l
    BY <1>9, <1>12
  <2>2. PICK e \in Nat, f \in Nat : e = i - 1 /\ f = j - 1
    OBVIOUS
  <2>3. e * b + k = f * b + l
    BY <2>0, <2>1, <2>2
  <2>4. e = f
    BY <2>3, PlaceUnique
  <2> QED BY <2>2, <2>4
<1> HIDE DEF rows, hi
<1>13. Divides(<<>>, ss, 1 .. n)
  BY <1>8, <1>10, <1>11, <1>12, DividesAll
<1> QED BY <1>5, <1>8, <1>10, <1>13

\* Micro-batches of any division.
LEMMA PartsDivide ==
  ASSUME NEW n \in Nat \ {0}, NEW k \in Nat, NEW equal, NEW parts \in PartitionsOf(1 .. n, k, equal),
         NEW ss, ss = [i \in 1 .. k |-> Ascending(parts[i])]
  PROVE  Divides(<<>>, ss, 1 .. n) /\ Len(ss) > 0
<1>1. /\ \A i \in 1 .. k : parts[i] \in SUBSET (1 .. n)
      /\ \A r \in 1 .. n : \E i \in 1 .. k : r \in parts[i]
      /\ \A i, j \in 1 .. k : i # j => parts[i] \cap parts[j] = {}
  BY DEF PartitionsOf, IsPartition
<1>2. ASSUME NEW i \in 1 .. k
      PROVE  /\ ss[i] \in Seq(1 .. n) /\ Distinct(ss[i])
             /\ \A x \in 1 .. n : Has(ss[i], x) <=> x \in parts[i]
  <2>1. parts[i] \in SUBSET (1 .. n) /\ ss[i] = Ascending(parts[i])
    BY <1>1
  <2>2. Enumerates(ss[i], parts[i])
    BY <2>1, AscendingIs
  <2>3. /\ ss[i] \in Seq(parts[i]) /\ Distinct(ss[i])
        /\ \A x \in parts[i] : Has(ss[i], x)
    BY <2>2 DEF Enumerates
  <2>4. \A j \in 1 .. Len(ss[i]) : ss[i][j] \in parts[i]
    BY <2>3, ElementOfSeq
  <2>5. \A x : Has(ss[i], x) => x \in parts[i]
    BY <2>4 DEF Has
  <2>6. ss[i] \in Seq(1 .. n)
    BY <2>1, <2>3
  <2> QED BY <2>3, <2>5, <2>6
<1>3. ss \in Seq(Seq(1 .. n)) /\ Len(ss) = k
  <2>1. ss = [i \in 1 .. k |-> ss[i]]
    OBVIOUS
  <2> QED BY <1>2, <2>1
<1>4. \A x \in 1 .. n : \E i \in 1 .. k : Has(ss[i], x)
  BY <1>1, <1>2
<1>5. \A i, j \in 1 .. k, x \in 1 .. n : Has(ss[i], x) /\ Has(ss[j], x) => i = j
  BY <1>1, <1>2
<1>6. Divides(<<>>, ss, 1 .. n)
  BY <1>2, <1>3, <1>4, <1>5, DividesAll
<1>7. k > 0
  <2>1. PICK i \in 1 .. k : 1 \in parts[i]
    BY <1>1
  <2> QED BY <2>1
<1> QED BY <1>3, <1>6, <1>7

\* Balancing only changes the order of the rows.
LEMMA InOrderIs ==
  ASSUME NEW n \in Nat \ {0}, NEW k \in Nat, NEW equal, NEW parts \in PartitionsOf(1 .. n, k, equal)
  PROVE  Enumerates(InOrder(parts), 1 .. n) /\ Len(InOrder(parts)) = n
<1> DEFINE ss == [i \in 1 .. k |-> Ascending(parts[i])]
<1>1. Divides(<<>>, ss, 1 .. n) /\ Len(ss) > 0
  BY PartsDivide
<1>2. InOrder(parts) = FlattenSeq(ss)
  BY DEF InOrder, PartitionsOf
<1> HIDE DEF ss
<1>3. Enumerates(InOrder(parts), 1 .. n)
  BY <1>1, <1>2, DivisionFlattens
<1>4. n \in Nat
  OBVIOUS
<1> QED BY <1>3, <1>4, EnumerationLength, IntervalSize

LEMMA SumIsNat ==
  ASSUME NEW s \in Seq(Nat)
  PROVE  Sum(s) \in Nat
<1>1. s \in Seq(Int) /\ Len(s) \in Nat /\ \A i \in 1 .. Len(s) : s[i] \in Nat
  BY LenProperties, ElementOfSeq
<1>2. PICK f \in [0 .. Len(s) -> Int] : Sums(f, s) /\ Sum(s) = f[Len(s)]
  BY <1>1, SumIs
<1> DEFINE T == {i \in Nat : i <= Len(s) => f[i] \in Nat}
<1>3. 0 \in T
  BY <1>2 DEF Sums
<1>4. ASSUME NEW i \in Nat, i \in T PROVE i + 1 \in T
  <2> SUFFICES ASSUME i + 1 <= Len(s) PROVE f[i + 1] \in Nat
    OBVIOUS
  <2>1. i + 1 \in 1 .. Len(s) /\ f[i] \in Nat /\ (i + 1) - 1 = i
    BY <1>1, <1>4
  <2>2. f[i + 1] = f[i] + s[i + 1]
    BY <1>2, <2>1 DEF Sums
  <2> QED BY <1>1, <2>1, <2>2
<1> HIDE DEF T
<1>5. Nat \subseteq T
  BY <1>3, <1>4, SetInduction
<1> QED BY <1>1, <1>2, <1>5 DEF T

\* A bounded set of numbers has a greatest one.
LEMMA MaxIs ==
  ASSUME NEW n \in Nat, NEW S \in SUBSET (0 .. n), S # {}
  PROVE  Max(S) \in Nat
<1> DEFINE T == {k \in Nat : n - k \in S}
<1>1. PICK k \in T : \A l \in T : k <= l
  <2>1. T \in SUBSET Nat
    OBVIOUS
  <2>2. T # {}
    <3>1. PICK x \in S : x \in 0 .. n
      OBVIOUS
    <3>2. n - x \in Nat /\ n - (n - x) = x
      BY <3>1
    <3> QED BY <3>1, <3>2
  <2> HIDE DEF T
  <2> QED BY <2>1, <2>2, LeastOf
<1>2. n - k \in S /\ \A y \in S : n - k >= y
  <2>1. k \in Nat /\ n - k \in S
    OBVIOUS
  <2>2. ASSUME NEW y \in S PROVE n - k >= y
    <3>1. y \in 0 .. n /\ n - y \in Nat /\ n - (n - y) = y
      OBVIOUS
    <3>2. n - y \in T
      BY <3>1
    <3>3. k <= n - y
      BY <1>1, <3>2
    <3> QED BY <2>1, <3>1, <3>3
  <2> QED BY <2>1, <2>2
<1> HIDE DEF T
<1> DEFINE Greatest(x) == x \in S /\ \A y \in S : x >= y
<1>3. Greatest(n - k)
  BY <1>2
<1>4. Max(S) = CHOOSE x : Greatest(x)
  BY DEF Max
<1> HIDE DEF Greatest
<1>5. Greatest(Max(S))
  BY <1>3, <1>4
<1>6. Max(S) \in S
  BY <1>5 DEF Greatest
<1>7. \A x \in S : x \in Nat
  OBVIOUS
<1> QED BY ONLY <1>6, <1>7

-----------------------------------------------------------------------------
(* The rows of the devices.                                                *)

Share == Size \div flow.devices

\* The sizes of a configuration: what chunk() asserts.
LEMMA SizesAre ==
  ASSUME flow \in Flows
  PROVE  /\ Size \in Nat \ {0} /\ Share \in Nat \ {0} /\ Size = flow.devices * Share
         /\ flow.devices \in Nat \ {0} /\ flow.workers \in Nat \ {0} /\ flow.n \in Nat \ {0}
         /\ flow.prompts \in Nat \ {0}
         /\ flow.epochs \in Nat \ {0} /\ flow.mini \in Nat \ {0}
         /\ flow.micro \in Nat \ {0} /\ flow.logprobMicro \in Nat \ {0} /\ flow.limit \in Nat \ {0}
         /\ flow.len \in [1 .. Size -> Nat]
<1>1. /\ {flow.prompts, flow.n, flow.workers, flow.devices, flow.epochs} \subseteq Nat \ {0}
      /\ {flow.mini, flow.micro, flow.logprobMicro, flow.limit} \subseteq Nat \ {0}
      /\ flow.len \in [1 .. flow.prompts * flow.n -> Nat]
      /\ \E c \in 1 .. flow.prompts * flow.n : flow.prompts * flow.n = c * flow.devices
  BY FlowAssumption
<1>2. PICK a \in Nat \ {0}, b \in Nat \ {0} : a = flow.prompts /\ b = flow.n
  BY <1>1
<1>3. PICK c \in 1 .. a * b : a * b = c * flow.devices
  BY <1>1, <1>2
<1>4. PICK d \in Nat \ {0} : d = flow.devices
  BY <1>1
<1>5. a * b \in Nat /\ c \in Nat /\ c # 0 /\ a * b # 0
  BY <1>3
<1>6. (c * d) \div d = c
  BY <1>5, Quotient
<1>7. Size = a * b /\ Share = c
  BY <1>2, <1>3, <1>4, <1>6 DEF Size, Share
<1>8. Size = flow.devices * Share
  BY <1>3, <1>4, <1>5, <1>7
<1> QED BY <1>1, <1>2, <1>5, <1>7, <1>8 DEF Size

LEMMA WorkersShare ==
  ASSUME flow \in Flows
  PROVE  \E c \in Nat \ {0} : Size \div flow.workers = c /\ Size = flow.workers * c
<1>1. /\ {flow.prompts, flow.n, flow.workers} \subseteq Nat \ {0}
      /\ \E c \in 1 .. flow.prompts * flow.n : flow.prompts * flow.n = c * flow.workers
  BY FlowAssumption
<1>2. PICK w \in Nat \ {0} : w = flow.workers
  BY <1>1
<1>3. PICK c \in 1 .. Size : Size = c * w
  BY <1>1, <1>2 DEF Size
<1>4. c \in Nat \ {0}
  <2>1. Size \in Nat
    BY SizesAre
  <2> QED BY <1>3, <2>1
<1>5. (c * w) \div w = c /\ c * w = w * c
  BY <1>4, Quotient
<1> QED BY <1>2, <1>3, <1>4, <1>5

\* Each row of the batch is at one position of one device.
LEMMA RowsAre ==
  ASSUME flow \in Flows
  PROVE  /\ \A d \in Devices, i \in 1 .. Share : RowAt(d, i) \in 1 .. Size
         /\ \A r \in 1 .. Size : \E d \in Devices, i \in 1 .. Share : r = RowAt(d, i)
         /\ \A d, e \in Devices, i, j \in 1 .. Share : RowAt(d, i) = RowAt(e, j) => d = e /\ i = j
<1>1. PICK q \in Nat \ {0} : q = Share
  BY SizesAre
<1>2. PICK k \in Nat \ {0} : k = flow.devices /\ Size = k * q
  BY <1>1, SizesAre
<1>3. \A d, i : RowAt(d, i) = (d - 1) * q + i
  BY <1>1 DEF RowAt, Share
<1>4. Devices = 1 .. k
  BY <1>2 DEF Devices
<1>5. \A d \in 1 .. k, i \in 1 .. q : (d - 1) * q + i \in 1 .. k * q
  BY PlaceIn
<1>6. \A r \in 1 .. k * q : \E d \in 1 .. k, i \in 1 .. q : r = (d - 1) * q + i
  BY PlaceOf
<1>7. ASSUME NEW d \in 1 .. k, NEW e \in 1 .. k, NEW i \in 1 .. q, NEW j \in 1 .. q,
             (d - 1) * q + i = (e - 1) * q + j
      PROVE  d = e /\ i = j
  <2>1. PICK f \in Nat, g \in Nat : f = d - 1 /\ g = e - 1
    OBVIOUS
  <2>2. f * q + i = g * q + j
    BY <1>7, <2>1
  <2>3. f = g /\ i = j
    BY <2>2, PlaceUnique
  <2> QED BY <2>1, <2>3
<1>8. ASSUME NEW d \in Devices, NEW i \in 1 .. Share PROVE RowAt(d, i) \in 1 .. Size
  <2>1. RowAt(d, i) = (d - 1) * q + i
    BY <1>3
  <2> QED BY <1>1, <1>2, <1>4, <1>5, <2>1
<1>9. ASSUME NEW r \in 1 .. Size PROVE \E d \in Devices, i \in 1 .. Share : r = RowAt(d, i)
  <2>1. PICK d \in 1 .. k, i \in 1 .. q : r = (d - 1) * q + i
    BY <1>2, <1>6
  <2>2. d \in Devices /\ i \in 1 .. Share /\ r = RowAt(d, i)
    BY <1>1, <1>3, <1>4, <2>1
  <2> QED BY <2>2
<1>10. ASSUME NEW d \in Devices, NEW e \in Devices, NEW i \in 1 .. Share, NEW j \in 1 .. Share,
              RowAt(d, i) = RowAt(e, j)
       PROVE  d = e /\ i = j
  <2>1. (d - 1) * q + i = (e - 1) * q + j
    BY <1>3, <1>10
  <2> QED BY <1>1, <1>4, <1>7, <2>1
<1> QED BY <1>8, <1>9, <1>10

LEMMA LocalIs ==
  ASSUME flow \in Flows
  PROVE  /\ Local = [i \in 1 .. Share |-> i] /\ Local \in Seq(1 .. Share) /\ Len(Local) = Share
         /\ Distinct(Local) /\ Len(Local) > 0 /\ \A i \in 1 .. Share : Local[i] = i
<1>1. Share \in Nat \ {0} /\ Local = [i \in 1 .. Share |-> i]
  BY SizesAre DEF Local, Share
<1> QED BY <1>1 DEF Distinct

Work == FlattenSeq([e \in 1 .. flow.epochs |-> Minis])

\* Each position of a device is in one mini-batch, and each epoch goes
\* through all.
LEMMA MinisAre ==
  ASSUME flow \in Flows
  PROVE  /\ Minis \in Seq(Seq(1 .. Share)) /\ Len(Minis) \in Nat \ {0}
         /\ \A p \in 1 .. Len(Minis) : Len(Minis[p]) > 0 /\ Distinct(Minis[p])
         /\ \A i \in 1 .. Share : \E p \in 1 .. Len(Minis) : Has(Minis[p], i)
         /\ \A i \in 1 .. Share, p, q \in 1 .. Len(Minis) : Has(Minis[p], i) /\ Has(Minis[q], i) => p = q
         /\ Work \in Seq(Seq(1 .. Share)) /\ Len(Work) = flow.epochs * Len(Minis)
         /\ \A e \in 1 .. flow.epochs, p \in 1 .. Len(Minis) : Work[(e - 1) * Len(Minis) + p] = Minis[p]
<1>1. Share \in Nat \ {0} /\ flow.mini \in Nat \ {0} /\ flow.epochs \in Nat \ {0}
  BY SizesAre
<1>2. Minis = Split([i \in 1 .. Share |-> i], flow.mini)
  BY LocalIs DEF Minis
<1>3. /\ Divides(<<>>, Minis, 1 .. Share) /\ Len(Minis) > 0
      /\ \A m \in 1 .. Len(Minis) : Len(Minis[m]) > 0
  BY <1>1, <1>2, SplitDivides
<1>4. /\ Minis \in Seq(Seq(1 .. Share)) /\ \A p \in 1 .. Len(Minis) : Distinct(Minis[p])
      /\ \A x \in 1 .. Share : \E p \in 1 .. Len(Minis) : Has(Minis[p], x)
      /\ \A i \in 1 .. Share, p, q \in 1 .. Len(Minis) : Has(Minis[p], i) /\ Has(Minis[q], i) => p = q
  BY <1>3, EmptyHas DEF Divides
<1>5. PICK b \in Nat \ {0} : b = Len(Minis)
  BY <1>3, <1>4, LenProperties
<1>6. PICK ss : ss = [e \in 1 .. flow.epochs |-> Minis]
  OBVIOUS
<1>7. /\ ss \in Seq(Seq(Seq(1 .. Share))) /\ Len(ss) = flow.epochs
      /\ \A e \in 1 .. flow.epochs : ss[e] = Minis
  <2>1. PICK n \in Nat \ {0} : n = flow.epochs
    BY <1>1
  <2>2. PICK t \in Seq(Seq(1 .. Share)) : t = Minis
    BY <1>4
  <2>3. ss = [e \in 1 .. n |-> t]
    BY <1>6, <2>1, <2>2
  <2>4. ss \in [1 .. n -> Seq(Seq(1 .. Share))]
    BY <2>3, Zenon
  <2>5. ss \in Seq(Seq(Seq(1 .. Share))) /\ Len(ss) = n
    <3> DEFINE V == Seq(Seq(1 .. Share))
    <3>1. ss \in [1 .. n -> V] /\ n \in Nat
      BY <2>4
    <3> HIDE DEF V
    <3>2. ss \in Seq(V) /\ Len(ss) = n
      BY <3>1
    <3> QED BY <3>2 DEF V
  <2>6. \A e \in 1 .. n : ss[e] = Minis
    BY <2>2, <2>3, Zenon
  <2> QED BY <2>1, <2>5, <2>6
<1>8. /\ FlattenSeq(ss) \in Seq(Seq(1 .. Share)) /\ Len(FlattenSeq(ss)) = Len(ss) * b
      /\ \A e \in 1 .. Len(ss), p \in 1 .. b : FlattenSeq(ss)[(e - 1) * b + p] = ss[e][p]
  <2> DEFINE V == Seq(1 .. Share)
  <2>1. Len(ss) > 0 /\ \A e \in 1 .. Len(ss) : Len(ss[e]) = b
    BY <1>1, <1>5, <1>7
  <2>2. ss \in Seq(Seq(V)) /\ b \in Nat
    BY <1>5, <1>7
  <2> HIDE DEF V
  <2>3. /\ FlattenSeq(ss) \in Seq(V) /\ Len(FlattenSeq(ss)) = Len(ss) * b
        /\ \A e \in 1 .. Len(ss), p \in 1 .. b : FlattenSeq(ss)[(e - 1) * b + p] = ss[e][p]
    BY <2>1, <2>2, FlattenEqual
  <2> QED BY <2>3 DEF V
<1>9. Work = FlattenSeq(ss)
  BY <1>6 DEF Work
<1>10. Work \in Seq(Seq(1 .. Share)) /\ Len(Work) = flow.epochs * Len(Minis)
  BY <1>5, <1>7, <1>8, <1>9, Zenon
<1>11. ASSUME NEW e \in 1 .. flow.epochs, NEW p \in 1 .. Len(Minis)
       PROVE  Work[(e - 1) * Len(Minis) + p] = Minis[p]
  <2>1. Work[(e - 1) * b + p] = ss[e][p] /\ ss[e] = Minis
    BY <1>5, <1>7, <1>8, <1>9, Zenon
  <2> QED BY <1>5, <2>1, Zenon
<1>12. Len(Minis) \in Nat \ {0} /\ \A p \in 1 .. Len(Minis) : Len(Minis[p]) > 0
  BY <1>3, <1>5
<1> QED BY <1>4, <1>10, <1>11, <1>12, Zenon

\* The mini-batch a device is in.
LEMMA MiniIs ==
  ASSUME flow \in Flows, DevicesOK, driver \in {"logprob", "update"}, NEW d \in Devices
  PROVE  /\ Mini(d) \in Seq(1 .. Share) /\ Len(Mini(d)) \in Nat \ {0} /\ Distinct(Mini(d))
         /\ driver = "logprob" => Mini(d) = Local
<1>1. CASE driver = "logprob"
  <2>1. Mini(d) = Local
    BY <1>1 DEF DevicesOK, Mini
  <2>2. Share \in Nat \ {0}
    BY SizesAre
  <2> QED BY <2>1, <2>2, LocalIs
<1>2. CASE driver = "update"
  <2>1. device[d].minis = Work /\ device[d].mini \in 1 .. Len(Work)
    BY <1>2 DEF DevicesOK, Work
  <2>2. PICK b \in Nat \ {0} : b = Len(Minis)
    BY MinisAre
  <2>3. PICK a \in Nat : a = flow.epochs /\ Len(Work) = a * b
    BY <2>2, MinisAre, SizesAre
  <2>10. device[d].mini \in 1 .. a * b
    BY <2>1, <2>3
  <2>4. PICK e \in 1 .. a, p \in 1 .. b : device[d].mini = (e - 1) * b + p
    BY <2>10, PlaceOf
  <2>5. Mini(d) = Minis[p]
    BY <2>1, <2>2, <2>3, <2>4, MinisAre DEF Mini
  <2>6. Minis \in Seq(Seq(1 .. Share)) /\ p \in 1 .. Len(Minis)
    BY <2>2, MinisAre
  <2>7. Minis[p] \in Seq(1 .. Share)
    BY <2>6, ElementOfSeq
  <2>8. Len(Minis[p]) \in Nat
    BY <2>7, LenProperties
  <2>9. Len(Minis[p]) > 0 /\ Distinct(Minis[p])
    BY <2>6, MinisAre
  <2> QED BY <1>2, <2>5, <2>7, <2>8, <2>9
<1> QED BY <1>1, <1>2

\* However a mini-batch is split, its rows are in one micro-batch each.
LEMMA MicrosDivide ==
  ASSUME flow \in Flows, NEW d \in Devices, Len(Mini(d)) \in Nat \ {0},
         flow.dynamic => device[d].count \in Nat, NEW micros \in MicroBatches(d)
  PROVE  Divides(<<>>, micros, 1 .. Len(Mini(d))) /\ Len(micros) > 0
<1>1. PICK n \in Nat \ {0} : n = Len(Mini(d))
  OBVIOUS
<1>2. CASE flow.dynamic
  <2>1. PICK k \in Nat : k = device[d].count
    BY <1>2
  <2>2. PICK parts \in PartitionsOf(1 .. n, k, FALSE) : micros = [i \in 1 .. k |-> Ascending(parts[i])]
    BY <1>1, <1>2, <2>1, Zenon DEF MicroBatches
  <2> QED BY <1>1, <2>2, PartsDivide
<1>3. CASE ~flow.dynamic
  <2>1. PICK b \in Nat \ {0} : b = IF driver = "logprob" THEN flow.logprobMicro ELSE flow.micro
    BY SizesAre
  <2>2. micros = Split([i \in 1 .. n |-> i], b)
    BY <1>1, <1>3, <2>1, Zenon DEF MicroBatches
  <2> QED BY <1>1, <2>2, SplitDivides
<1> QED BY <1>2, <1>3

\* A mini-batch is not longer than what the device was given.
LEMMA MiniShort ==
  ASSUME flow \in Flows, DevicesOK, driver \in {"logprob", "update"}, NEW d \in Devices
  PROVE  Len(Mini(d)) <= Share
<1>1. Share \in Nat
  BY SizesAre
<1>2. PICK n \in Nat \ {0} : n = Len(Mini(d))
  BY MiniIs
<1>3. Mini(d) \in Seq(1 .. Share) /\ Distinct(Mini(d))
  BY MiniIs
<1> DEFINE f == [i \in 1 .. n |-> Mini(d)[i]]
<1>4. f \in [1 .. n -> 1 .. Share] /\ \A i, j \in 1 .. n : f[i] = f[j] => i = j
  BY <1>2, <1>3, ElementOfSeq DEF Distinct
<1> HIDE DEF f
<1>5. f \in Injection(1 .. n, 1 .. Share)
  BY <1>4 DEF Injection, IsInjective
<1> QED BY <1>1, <1>2, <1>5, IntervalSize, FS_Injection

LEMMA CountIsNat ==
  ASSUME flow \in Flows, ColumnsOK, DevicesOK, driver \in {"logprob", "update"}, NEW d \in Devices
  PROVE  AgreedCount(d) \in Nat
<1>1. Share \in Nat
  BY SizesAre
<1>2. ASSUME NEW e \in Devices PROVE Wanted(e) \in 0 .. Share
  <2>1. PICK n \in Nat \ {0} : n = Len(Mini(e))
    BY MiniIs
  <2>2. Mini(e) \in Seq(1 .. Share) /\ Distinct(Mini(e))
    BY MiniIs
  <2>3. \A i \in 1 .. n : flow.len[batch.resp[RowAt(e, Mini(e)[i])]] \in Nat
    <3> SUFFICES ASSUME NEW i \in 1 .. n PROVE flow.len[batch.resp[RowAt(e, Mini(e)[i])]] \in Nat
      OBVIOUS
    <3>1. Mini(e)[i] \in 1 .. Share
      BY <2>1, <2>2, ElementOfSeq
    <3>2. RowAt(e, Mini(e)[i]) \in 1 .. Size
      BY <3>1, RowsAre
    <3>3. batch.resp \in Seq(1 .. Size) /\ Len(batch.resp) = Size
      BY DEF ColumnsOK, Enumerates
    <3>4. batch.resp[RowAt(e, Mini(e)[i])] \in 1 .. Size
      BY <3>2, <3>3, ElementOfSeq
    <3> QED BY <3>4, SizesAre
  <2>4. Lengths(e) \in Seq(Nat)
    <3>1. Lengths(e) = [i \in 1 .. n |-> flow.len[batch.resp[RowAt(e, Mini(e)[i])]]]
      BY <2>1 DEF Lengths
    <3> QED BY <2>3, <3>1
  <2>5. PICK total \in Nat : total = Sum(Lengths(e))
    BY <2>4, SumIsNat
  <2>6. PICK limit \in Nat \ {0} : limit = flow.limit
    BY SizesAre
  <2>7. (total + limit - 1) \div limit \in Nat
    BY DivisionIs
  <2>8. n <= Share
    BY <2>1, MiniShort
  <2>9. Wanted(e) = IF (total + limit - 1) \div limit < n THEN (total + limit - 1) \div limit ELSE n
    BY <2>1, <2>5, <2>6 DEF Wanted
  <2>10. PICK asked \in Nat : asked = (total + limit - 1) \div limit
    BY <2>7
  <2>11. Wanted(e) = IF asked < n THEN asked ELSE n
    BY <2>9, <2>10
  <2> QED BY <1>1, <2>8, <2>11
<1>3. {Wanted(e) : e \in Devices} \in SUBSET (0 .. Share) /\ {Wanted(e) : e \in Devices} # {}
  BY <1>2
<1>4. Max({Wanted(e) : e \in Devices}) \in Nat
  BY <1>1, <1>3, MaxIs
<1> QED BY <1>4 DEF AgreedCount

-----------------------------------------------------------------------------
(* What a step leaves as it was.                                           *)

LEMMA SameFlow ==
  ASSUME flow' = flow
  PROVE  /\ Size' = Size /\ Devices' = Devices /\ Share' = Share /\ Local' = Local
         /\ Minis' = Minis /\ Work' = Work
<1>1. Size' = Size /\ Devices' = Devices
  BY DEF Size, Devices
<1>2. Share' = Share /\ Local' = Local
  BY <1>1 DEF Share, Local
<1>3. Minis' = Minis
  BY <1>2 DEF Minis, Split
<1> QED BY <1>1, <1>2, <1>3 DEF Work

LEMMA ColumnsKept ==
  ASSUME ColumnsOK, UNCHANGED <<flow, driver, batch, future>>
  PROVE  ColumnsOK'
<1>1. Size' = Size
  BY SameFlow
<1> QED BY <1>1 DEF ColumnsOK, GroupOf, Advantages

\* After f epochs and g mini-batches of the next.
LEMMA TaughtIs ==
  ASSUME flow' = flow, driver' = "update", taught' \in [1 .. Size -> Nat],
         NEW f \in 0 .. flow.epochs, NEW g \in 0 .. Len(Minis) - 1,
         \A d \in Devices :
           /\ Through(d)' = f * Len(Minis) + g
           /\ \A i \in 1 .. Len(Local) :
                taught'[batch'.resp[RowAt(d, i)]]
                  = IF \E m \in 1 .. g : Has(Minis[m], i) THEN f + 1 ELSE f
  PROVE  TaughtOK'
<1>1. /\ Size' = Size /\ Devices' = Devices /\ Local' = Local /\ Minis' = Minis
      /\ \A d, i : RowAt(d, i)' = RowAt(d, i)
  BY SameFlow DEF RowAt
<1>2. f \in 0 .. flow'.epochs /\ g \in 0 .. Len(Minis') - 1
  BY <1>1, Zenon
<1>3. \A d \in Devices' :
        /\ Through(d)' = f * Len(Minis') + g
        /\ \A i \in 1 .. Len(Local') :
             taught'[batch'.resp[RowAt(d, i)']]
               = IF \E m \in 1 .. g : Has(Minis'[m], i) THEN f + 1 ELSE f
  BY <1>1, Zenon
<1>4. \E h \in 0 .. flow'.epochs, l \in 0 .. Len(Minis') - 1 : \A d \in Devices' :
        /\ Through(d)' = h * Len(Minis') + l
        /\ \A i \in 1 .. Len(Local') :
             taught'[batch'.resp[RowAt(d, i)']]
               = IF \E m \in 1 .. l : Has(Minis'[m], i) THEN h + 1 ELSE h
  BY <1>2, <1>3, Zenon
<1> QED BY <1>1, <1>4 DEF TaughtOK

LEMMA TaughtKept ==
  ASSUME TaughtOK, UNCHANGED <<flow, driver, batch, taught>>,
         driver = "update" => \A d \in Devices : Through(d)' = Through(d)
  PROVE  TaughtOK'
<1>1. Size' = Size
  BY SameFlow
<1>2. taught' \in [1 .. Size -> Nat]
  BY DEF TaughtOK
<1>3. CASE driver = "update"
  <2>1. PICK e \in 0 .. flow.epochs, p \in 0 .. Len(Minis) - 1 : \A d \in Devices :
          /\ Through(d) = e * Len(Minis) + p
          /\ \A i \in 1 .. Len(Local) :
               taught[batch.resp[RowAt(d, i)]]
                 = IF \E m \in 1 .. p : Has(Minis[m], i) THEN e + 1 ELSE e
    BY <1>3 DEF TaughtOK
  <2>2. \A d \in Devices :
          /\ Through(d)' = e * Len(Minis) + p
          /\ \A i \in 1 .. Len(Local) :
               taught'[batch'.resp[RowAt(d, i)]]
                 = IF \E m \in 1 .. p : Has(Minis[m], i) THEN e + 1 ELSE e
    BY <1>3, <2>1, Zenon
  <2> QED BY <1>2, <1>3, <2>2, TaughtIs
<1>4. CASE driver # "update"
  BY <1>1, <1>4 DEF TaughtOK
<1> QED BY <1>3, <1>4

LEMMA NotTaught ==
  ASSUME TaughtOK, UNCHANGED <<flow, taught>>,
         driver \notin {"update", "done"}, driver' \notin {"update", "done"}
  PROVE  TaughtOK'
<1>1. Size' = Size
  BY SameFlow
<1> QED BY <1>1 DEF TaughtOK

LEMMA IdleDevices ==
  ASSUME flow' = flow, driver' \notin {"logprob", "update"},
         \A d \in Devices : device'[d].phase = "idle"
  PROVE  DevicesOK'
<1>1. Devices' = Devices
  BY SameFlow
<1> QED BY <1>1 DEF DevicesOK

\* What a worker, the reward or nobody does.
LEMMA OthersKeep ==
  ASSUME FlowIInv, UNCHANGED <<flow, driver, batch, future, device, taught>>
  PROVE  FlowIInv'
<1>1. ColumnsOK'
  BY ColumnsKept DEF FlowIInv
<1>2. Devices' = Devices /\ Minis' = Minis /\ Local' = Local
  BY SameFlow
<1>3. \A d : Mini(d)' = Mini(d) /\ Through(d)' = Through(d)
  BY DEF Mini, Through
<1>4. DevicesOK'
  BY <1>2, <1>3 DEF DevicesOK, FlowIInv
<1>5. TaughtOK'
  BY <1>3, TaughtKept DEF FlowIInv
<1> QED BY <1>1, <1>4, <1>5 DEF FlowIInv

-----------------------------------------------------------------------------
(* The responses come, and are moved.                                      *)

\* concat() undoes chunk().
LEMMA CollectedIs ==
  ASSUME flow \in Flows
  PROVE  Collected = [i \in 1 .. Size |-> i]
<1>1. PICK c \in Nat \ {0} : Size \div flow.workers = c /\ Size = flow.workers * c
  BY WorkersShare
<1>2. PICK k \in Nat \ {0} : k = flow.workers /\ Size = k * c
  BY <1>1, SizesAre
<1>3. PICK n \in Nat \ {0} : n = Size
  BY SizesAre
<1> DEFINE rows == [r \in 1 .. n |-> r]
           ss == [w \in 1 .. k |-> Chunk(rows, k, w)]
<1>4. rows \in Seq(1 .. n) /\ Len(rows) = n /\ \A i \in 1 .. n : rows[i] = i
  OBVIOUS
<1>5. Collected = FlattenSeq(ss)
  BY <1>2, <1>3 DEF Collected, Workers
<1>6. ASSUME NEW w \in 1 .. k
      PROVE  /\ ss[w] \in Seq(1 .. n) /\ Len(ss[w]) = c
             /\ \A i \in 1 .. c : ss[w][i] = (w - 1) * c + i
  <2>1. ss[w] = SubSeq(rows, (w - 1) * c + 1, w * c)
    BY <1>1, <1>2, <1>3, <1>4 DEF Chunk
  <2>2. \A i \in 1 .. c : (w - 1) * c + i \in 1 .. n
    BY <1>2, <1>3, PlaceIn
  <2>3. PICK a \in Nat, b \in Nat : a = (w - 1) * c /\ b = w * c
    OBVIOUS
  <2>4. b = a + c
    BY <2>3
  <2> HIDE DEF rows, ss
  <2>5. ss[w] = SubSeq(rows, a + 1, a + c) /\ \A i \in 1 .. c : a + i \in 1 .. n
    BY <2>1, <2>2, <2>3, <2>4
  <2>6. a + 1 \in 1 .. n /\ a + c \in 1 .. n
    BY <2>5
  <2>7. \A i \in a + 1 .. a + c : rows[i] \in 1 .. n
    BY <1>4, <2>6
  <2>8. SubSeq(rows, a + 1, a + c) = [i \in 1 .. c |-> rows[i + (a + 1) - 1]]
    BY <1>4, <2>6
  <2>9. \A i \in 1 .. c : rows[i + (a + 1) - 1] = a + i /\ a + i \in 1 .. n
    BY <1>4, <2>5
  <2>10. ss[w] = [i \in 1 .. c |-> a + i]
    BY <2>5, <2>8, <2>9
  <2> QED BY <2>3, <2>9, <2>10
<1> HIDE DEF rows
<1>7. ss \in Seq(Seq(1 .. n)) /\ Len(ss) = k
  BY <1>6
<1> HIDE DEF ss
<1>8. /\ FlattenSeq(ss) \in Seq(1 .. n) /\ Len(FlattenSeq(ss)) = k * c
      /\ \A w \in 1 .. k, i \in 1 .. c : FlattenSeq(ss)[(w - 1) * c + i] = ss[w][i]
  <2>3. Len(ss) > 0 /\ 1 .. Len(ss) = 1 .. k
    BY <1>7
  <2>4. \A w \in 1 .. k : Len(ss[w]) = c
    BY <1>6, Zenon
  <2>1. Len(ss) > 0 /\ \A w \in 1 .. Len(ss) : Len(ss[w]) = c
    BY <2>3, <2>4, Zenon
  <2>2. /\ FlattenSeq(ss) \in Seq(1 .. n) /\ Len(FlattenSeq(ss)) = Len(ss) * c
        /\ \A w \in 1 .. Len(ss), i \in 1 .. c : FlattenSeq(ss)[(w - 1) * c + i] = ss[w][i]
    BY <1>7, <2>1, FlattenEqual
  <2> QED BY <1>7, <2>2, Zenon
<1>9. ASSUME NEW r \in 1 .. n PROVE FlattenSeq(ss)[r] = r
  <2>1. r \in 1 .. k * c
    BY <1>2, <1>3
  <2>2. PICK w \in 1 .. k, i \in 1 .. c : r = (w - 1) * c + i
    BY <2>1, PlaceOf
  <2>3. FlattenSeq(ss)[(w - 1) * c + i] = ss[w][i]
    BY <1>8
  <2>4. ss[w][i] = (w - 1) * c + i
    BY <1>6
  <2> QED BY <2>2, <2>3, <2>4
<1>10. PICK t : t = FlattenSeq(ss)
  OBVIOUS
<1>11. t \in Seq(1 .. n) /\ Len(t) = n /\ \A r \in 1 .. n : t[r] = r
  BY <1>2, <1>3, <1>8, <1>9, <1>10
<1>12. t = [i \in 1 .. n |-> i]
  BY <1>11
<1> QED BY <1>3, <1>5, <1>10, <1>12

\* The driver repeats the ids as it repeats the prompts.
LEMMA GroupIdsAre ==
  ASSUME flow \in Flows
  PROVE  GroupIds = [i \in 1 .. Size |-> GroupOf(i)]
<1>1. PICK a \in Nat \ {0}, b \in Nat \ {0} : a = flow.prompts /\ b = flow.n /\ Size = a * b
  BY SizesAre DEF Size
<1>2. GroupIds = [i \in 1 .. a * b |-> [p \in 1 .. a |-> p][((i - 1) \div b) + 1]]
  BY <1>1 DEF GroupIds, Repeat
<1>3. ASSUME NEW i \in 1 .. a * b PROVE ((i - 1) \div b) + 1 \in 1 .. a
  <2>1. PICK e \in 1 .. a, p \in 1 .. b : i = (e - 1) * b + p
    BY PlaceOf
  <2>2. PICK f \in Nat : f = e - 1
    OBVIOUS
  <2>3. PICK j \in Nat : j = i - 1
    BY <1>1
  <2>4. PICK q \in Nat, r \in 0 .. b - 1 : q = j \div b /\ j = q * b + r
    BY DivisionIs
  <2>5. q * b + (r + 1) = f * b + p
    BY <2>1, <2>2, <2>3, <2>4
  <2>6. r + 1 \in 1 .. b
    BY <2>4
  <2>7. q = f
    BY <2>5, <2>6, PlaceUnique
  <2> QED BY <2>2, <2>3, <2>4, <2>7
<1>4. \A i \in 1 .. a * b : [p \in 1 .. a |-> p][((i - 1) \div b) + 1] = ((i - 1) \div b) + 1
  BY <1>3
<1>5. GroupIds = [i \in 1 .. a * b |-> ((i - 1) \div b) + 1]
  BY <1>2, <1>4, Zenon
<1> QED BY <1>1, <1>5 DEF GroupOf

LEMMA CollectKeeps == FlowIInv /\ Lockstep /\ CollectResponses => FlowIInv'
<1> SUFFICES ASSUME FlowIInv, Lockstep, CollectResponses
             PROVE  FlowIInv'
  OBVIOUS
<1> USE DEF FlowIInv
<1>1. flow' = flow /\ device' = device /\ taught' = taught /\ future' = future /\ Size' = Size
  BY SameFlow DEF CollectResponses
<1>2. driver = "generate" /\ driver' \in {"balance", "reward"}
  BY DEF CollectResponses
<1>3. batch = NoBatch
  BY <1>2 DEF ColumnsOK
<1>4. PICK n \in Nat \ {0} : n = Size
  BY SizesAre
<1>5. batch' = [NoBatch EXCEPT !.uid = [i \in 1 .. n |-> GroupOf(i)], !.resp = [i \in 1 .. n |-> i]]
  BY <1>3, <1>4, CollectedIs, GroupIdsAre DEF CollectResponses
<1>6. /\ DOMAIN batch' = {"uid", "resp", "logp", "score", "adv"}
      /\ batch'.uid = [i \in 1 .. n |-> GroupOf(i)] /\ batch'.resp = [i \in 1 .. n |-> i]
      /\ batch'.logp = <<>> /\ batch'.score = <<>> /\ batch'.adv = <<>>
  BY <1>5 DEF NoBatch
<1>7. Enumerates([i \in 1 .. n |-> i], 1 .. n) /\ Len([i \in 1 .. n |-> i]) = n
  BY DEF Enumerates, Distinct, Has
<1>8. \A r : GroupOf(r)' = GroupOf(r)
  BY <1>1 DEF GroupOf
<1>9. batch'.uid = [i \in 1 .. n |-> GroupOf(batch'.resp[i])]
  BY <1>6
<1>10. ColumnsOK'
  BY <1>1, <1>2, <1>4, <1>6, <1>7, <1>8, <1>9 DEF ColumnsOK
<1>11. DevicesOK'
  BY <1>1, <1>2, IdleDevices DEF Lockstep, IdleOutside
<1>12. TaughtOK'
  BY <1>1, <1>2, NotTaught
<1> QED BY <1>1, <1>10, <1>11, <1>12

\* An enumeration of an enumeration.
LEMMA ReorderIs ==
  ASSUME NEW n \in Nat \ {0}, NEW s, Enumerates(s, 1 .. n), Len(s) = n,
         NEW o, Enumerates(o, 1 .. n), Len(o) = n, NEW t, t = [i \in 1 .. n |-> s[o[i]]]
  PROVE  Enumerates(t, 1 .. n) /\ Len(t) = n
<1>1. s \in Seq(1 .. n) /\ Distinct(s) /\ \A x \in 1 .. n : Has(s, x)
  BY DEF Enumerates
<1>2. o \in Seq(1 .. n) /\ Distinct(o) /\ \A x \in 1 .. n : Has(o, x)
  BY DEF Enumerates
<1>3. \A i \in 1 .. n : o[i] \in 1 .. n /\ s[o[i]] \in 1 .. n
  BY <1>1, <1>2, ElementOfSeq
<1>4. t \in Seq(1 .. n) /\ Len(t) = n /\ \A i \in 1 .. n : t[i] = s[o[i]]
  <2>1. t \in [1 .. n -> 1 .. n]
    BY <1>3, Zenon
  <2>2. t \in Seq(1 .. n) /\ Len(t) = n
    BY <2>1
  <2>3. \A i \in 1 .. n : t[i] = s[o[i]]
    BY Zenon
  <2> QED BY <2>2, <2>3
<1>5. Distinct(t)
  <2> SUFFICES ASSUME NEW i \in 1 .. n, NEW j \in 1 .. n, t[i] = t[j]
               PROVE  i = j
    BY <1>4 DEF Distinct
  <2>1. o[i] \in 1 .. n /\ o[j] \in 1 .. n /\ s[o[i]] = s[o[j]]
    BY <1>3, <1>4
  <2>2. o[i] = o[j]
    BY <1>1, <2>1 DEF Distinct
  <2> QED BY <1>2, <2>2 DEF Distinct
<1>6. ASSUME NEW x \in 1 .. n PROVE Has(t, x)
  <2>1. PICK k \in 1 .. n : s[k] = x
    BY <1>1 DEF Has
  <2>2. PICK i \in 1 .. n : o[i] = k
    BY <1>2 DEF Has
  <2> QED BY <1>4, <2>1, <2>2 DEF Has
<1> QED BY <1>4, <1>5, <1>6 DEF Enumerates

LEMMA BalanceKeeps == FlowIInv /\ Lockstep /\ Balance => FlowIInv'
<1> SUFFICES ASSUME FlowIInv, Lockstep, Balance
             PROVE  FlowIInv'
  OBVIOUS
<1> USE DEF FlowIInv
<1>1. flow' = flow /\ device' = device /\ taught' = taught /\ future' = future /\ Size' = Size
  BY SameFlow DEF Balance
<1>2. driver = "balance" /\ driver' = "reward"
  BY DEF Balance
<1>3. PICK n \in Nat \ {0} : n = Size
  BY SizesAre
<1>4. PICK k \in Nat : k = flow.devices
  BY SizesAre
<1>5. PICK parts \in PartitionsOf(1 .. n, k, TRUE) : batch' = Reorder(batch, InOrder(parts))
  BY <1>3, <1>4 DEF Balance
<1>6. PICK o : o = InOrder(parts) /\ Enumerates(o, 1 .. n) /\ Len(o) = n
  BY InOrderIs
<1>7. /\ DOMAIN batch = {"uid", "resp", "logp", "score", "adv"}
      /\ Enumerates(batch.resp, 1 .. n) /\ Len(batch.resp) = n
      /\ batch.uid = [i \in 1 .. n |-> GroupOf(batch.resp[i])]
      /\ batch.logp = <<>> /\ batch.score = <<>> /\ batch.adv = <<>>
  BY <1>2, <1>3 DEF ColumnsOK
<1>8. \A i \in 1 .. n : o[i] \in 1 .. n
  BY <1>6, ElementOfSeq DEF Enumerates
<1>9. batch.resp # <<>> /\ batch.uid # <<>>
  BY <1>7
<1>10. batch' = [c \in DOMAIN batch |->
         IF batch[c] = <<>> THEN <<>> ELSE [i \in 1 .. n |-> batch[c][o[i]]]]
  BY <1>5, <1>6 DEF Reorder
<1>11. /\ DOMAIN batch' = {"uid", "resp", "logp", "score", "adv"}
       /\ batch'.logp = <<>> /\ batch'.score = <<>> /\ batch'.adv = <<>>
       /\ batch'.resp = [i \in 1 .. n |-> batch.resp[o[i]]]
       /\ batch'.uid = [i \in 1 .. n |-> batch.uid[o[i]]]
  BY <1>7, <1>9, <1>10
<1>12. Enumerates(batch'.resp, 1 .. n) /\ Len(batch'.resp) = n
  BY <1>6, <1>7, <1>11, ReorderIs
<1>13. batch'.uid = [i \in 1 .. n |-> GroupOf(batch'.resp[i])]
  BY <1>7, <1>8, <1>11
<1>14. \A r : GroupOf(r)' = GroupOf(r)
  BY <1>1 DEF GroupOf
<1>15. ColumnsOK'
  BY <1>1, <1>2, <1>3, <1>11, <1>12, <1>13, <1>14 DEF ColumnsOK
<1>16. DevicesOK'
  BY <1>1, <1>2, IdleDevices DEF Lockstep, IdleOutside
<1>17. TaughtOK'
  BY <1>1, <1>2, NotTaught
<1> QED BY <1>1, <1>15, <1>16, <1>17

-----------------------------------------------------------------------------
(* Work is given to the devices and taken from them.                       *)

LEMMA GivenIs ==
  ASSUME NEW minis, device' = Given(minis), flow' = flow
  PROVE  \A d \in Devices' :
           /\ device'[d].minis = minis /\ device'[d].mini = 1
           /\ device'[d].phase \in {"count", "split"} /\ (flow'.dynamic => device'[d].phase = "count")
<1>1. Devices' = Devices
  BY SameFlow
<1> DEFINE given == [Idle EXCEPT !.phase = IF flow.dynamic THEN "count" ELSE "split",
                                 !.minis = minis, !.mini = 1]
<1>2. device' = [d \in Devices |-> given]
  BY DEF Given
<1>3. /\ given.minis = minis /\ given.mini = 1
      /\ given.phase \in {"count", "split"} /\ (flow.dynamic => given.phase = "count")
  BY DEF Idle
<1> HIDE DEF given
<1> QED BY <1>1, <1>2, <1>3

LEMMA RewardKeeps == FlowIInv /\ Lockstep /\ Reward => FlowIInv'
<1> SUFFICES ASSUME FlowIInv, Lockstep, Reward
             PROVE  FlowIInv'
  OBVIOUS
<1> USE DEF FlowIInv
<1>1. /\ flow' = flow /\ taught' = taught
      /\ Size' = Size /\ Devices' = Devices /\ Local' = Local
  BY SameFlow DEF Reward
<1>2. driver = "reward" /\ driver' = "logprob"
  BY DEF Reward
<1>3. \A r : GroupOf(r)' = GroupOf(r)
  BY <1>1 DEF GroupOf
<1>4. /\ DOMAIN batch' = {"uid", "resp", "logp", "score", "adv"}
      /\ batch'.uid = batch.uid /\ batch'.resp = batch.resp
      /\ (IF flow.async THEN future' ELSE batch'.score) = batch.resp
  BY DEF Reward, ColumnsOK
<1>5. /\ Enumerates(batch.resp, 1 .. Size) /\ Len(batch.resp) = Size
      /\ batch.uid = [i \in 1 .. Size |-> GroupOf(batch.resp[i])]
  BY <1>2 DEF ColumnsOK
<1>6. ColumnsOK'
  BY <1>1, <1>2, <1>3, <1>4, <1>5 DEF ColumnsOK
<1>7. device' = Given(<<Local>>)
  BY DEF Reward
<1>8. \A d \in Devices' :
        /\ device'[d].minis = <<Local>> /\ device'[d].mini = 1
        /\ device'[d].phase \in {"count", "split"} /\ (flow'.dynamic => device'[d].phase = "count")
  BY <1>1, <1>7, GivenIs
<1>9. DevicesOK'
  BY <1>1, <1>2, <1>8 DEF DevicesOK
<1>10. TaughtOK'
  BY <1>1, <1>2, NotTaught
<1> QED BY <1>1, <1>6, <1>9, <1>10

\* What the devices computed, put back in the order of the rows.
LEMMA RestoredIs ==
  ASSUME FlowIInv, driver = "logprob", AllEnded
  PROVE  FlattenSeq([d \in Devices |-> Restored(d)]) = batch.resp
<1> USE DEF FlowIInv
<1>1. PICK k \in Nat \ {0}, q \in Nat \ {0}, n \in Nat \ {0} :
        k = flow.devices /\ q = Share /\ n = Size /\ n = k * q
  BY SizesAre
<1>2. Devices = 1 .. k
  BY <1>1 DEF Devices
<1>3. batch.resp \in Seq(1 .. n) /\ Len(batch.resp) = n
  BY <1>1 DEF ColumnsOK, Enumerates
<1>4. ASSUME NEW d \in 1 .. k
      PROVE  Restored(d) = [i \in 1 .. q |-> batch.resp[RowAt(d, i)]]
  <2>1. Mini(d) = Local /\ Len(Mini(d)) = q
    BY <1>1, <1>2, MiniIs, LocalIs
  <2>2. Enumerates(device[d].seen, 1 .. q)
    BY <1>2, <2>1 DEF DevicesOK, AllEnded
  <2>3. PICK seen : seen = device[d].seen
    OBVIOUS
  <2>4. seen \in Seq(1 .. q) /\ Distinct(seen) /\ \A i \in 1 .. q : Has(seen, i)
    BY <2>2, <2>3 DEF Enumerates
  <2>5. Len(seen) = q
    BY <2>2, <2>3, EnumerationLength, IntervalSize
  <2> DEFINE C == [j \in 1 .. q |-> batch.resp[RowAt(d, seen[j])]]
             W(i) == CHOOSE j \in 1 .. q : seen[j] = i
  <2>6. Restored(d) = [i \in 1 .. q |-> C[W(i)]]
    BY <2>3, <2>5 DEF Restored, Computed
  <2>7. ASSUME NEW i \in 1 .. q PROVE C[W(i)] = batch.resp[RowAt(d, i)]
    <3>1. W(i) \in 1 .. q /\ seen[W(i)] = i
      BY <2>4, <2>5 DEF Has
    <3> QED BY <3>1
  <2> HIDE DEF C, W
  <2> QED BY <2>6, <2>7, Zenon
<1>5. PICK ss : ss = [d \in 1 .. k |-> Restored(d)]
  OBVIOUS
<1>6. \A d \in 1 .. k, i \in 1 .. q : RowAt(d, i) = (d - 1) * q + i /\ RowAt(d, i) \in 1 .. n
  BY <1>1, <1>2, RowsAre DEF RowAt, Share
<1>7. ASSUME NEW d \in 1 .. k
      PROVE  /\ ss[d] \in Seq(1 .. n) /\ Len(ss[d]) = q
             /\ \A i \in 1 .. q : ss[d][i] = batch.resp[(d - 1) * q + i]
  <2>1. ss[d] = [i \in 1 .. q |-> batch.resp[RowAt(d, i)]]
    BY <1>4, <1>5
  <2>2. \A i \in 1 .. q : batch.resp[RowAt(d, i)] \in 1 .. n
    BY <1>3, <1>6, ElementOfSeq
  <2>3. ss[d] \in [1 .. q -> 1 .. n]
    BY <2>1, <2>2, Zenon
  <2>4. ss[d] \in Seq(1 .. n) /\ Len(ss[d]) = q
    BY <2>3
  <2>5. \A i \in 1 .. q : ss[d][i] = batch.resp[RowAt(d, i)]
    BY <2>1, Zenon
  <2> QED BY <1>6, <2>4, <2>5
<1>8. ss \in Seq(Seq(1 .. n)) /\ Len(ss) = k
  <2> DEFINE V == Seq(1 .. n)
  <2>1. ss \in [1 .. k -> V]
    BY <1>5, <1>7
  <2> HIDE DEF V
  <2>2. ss \in Seq(V) /\ Len(ss) = k
    BY <2>1
  <2> QED BY <2>2 DEF V
<1>9. /\ FlattenSeq(ss) \in Seq(1 .. n) /\ Len(FlattenSeq(ss)) = k * q
      /\ \A d \in 1 .. k, i \in 1 .. q : FlattenSeq(ss)[(d - 1) * q + i] = ss[d][i]
  <2>1. Len(ss) > 0 /\ 1 .. Len(ss) = 1 .. k
    BY <1>8
  <2>2. \A d \in 1 .. k : Len(ss[d]) = q
    BY <1>7, Zenon
  <2>3. Len(ss) > 0 /\ \A d \in 1 .. Len(ss) : Len(ss[d]) = q
    BY <2>1, <2>2, Zenon
  <2>4. /\ FlattenSeq(ss) \in Seq(1 .. n) /\ Len(FlattenSeq(ss)) = Len(ss) * q
        /\ \A d \in 1 .. Len(ss), i \in 1 .. q : FlattenSeq(ss)[(d - 1) * q + i] = ss[d][i]
    BY <1>8, <2>3, FlattenEqual
  <2> QED BY <1>8, <2>4, Zenon
<1>10. PICK t : t = FlattenSeq(ss)
  OBVIOUS
<1>11. ASSUME NEW r \in 1 .. n PROVE t[r] = batch.resp[r]
  <2>1. r \in 1 .. k * q
    BY <1>1
  <2>2. PICK d \in 1 .. k, i \in 1 .. q : r = (d - 1) * q + i
    BY <2>1, PlaceOf
  <2>3. FlattenSeq(ss)[(d - 1) * q + i] = ss[d][i]
    BY <1>9
  <2>4. ss[d][i] = batch.resp[(d - 1) * q + i]
    BY <1>7
  <2> QED BY <1>10, <2>2, <2>3, <2>4
<1>12. t \in Seq(1 .. n) /\ Len(t) = n
  BY <1>1, <1>9, <1>10
<1>13. t = batch.resp
  <2>1. PICK u \in Seq(1 .. n) : u = batch.resp /\ Len(u) = n
    BY <1>3
  <2>2. \A r \in 1 .. n : t[r] = u[r]
    BY <1>11, <2>1
  <2>3. t = u
    BY <1>12, <2>1, <2>2
  <2> QED BY <2>1, <2>3
<1> QED BY <1>2, <1>5, <1>10, <1>13

LEMMA CollectLogProbsKeeps == FlowIInv /\ CollectLogProbs => FlowIInv'
<1> SUFFICES ASSUME FlowIInv, CollectLogProbs
             PROVE  FlowIInv'
  OBVIOUS
<1> USE DEF FlowIInv
<1>1. /\ flow' = flow /\ taught' = taught /\ future' = future
      /\ Size' = Size /\ Devices' = Devices /\ Local' = Local
  BY SameFlow DEF CollectLogProbs
<1>2. driver = "logprob" /\ driver' = "advantage"
  BY DEF CollectLogProbs
<1>3. \A r : GroupOf(r)' = GroupOf(r)
  BY <1>1 DEF GroupOf
<1>4. batch' = [batch EXCEPT !.logp = batch.resp]
  BY RestoredIs DEF CollectLogProbs
<1>5. /\ DOMAIN batch' = {"uid", "resp", "logp", "score", "adv"}
      /\ batch'.uid = batch.uid /\ batch'.resp = batch.resp /\ batch'.score = batch.score
      /\ batch'.logp = batch.resp
  BY <1>4 DEF ColumnsOK
<1>6. /\ Enumerates(batch.resp, 1 .. Size) /\ Len(batch.resp) = Size
      /\ batch.uid = [i \in 1 .. Size |-> GroupOf(batch.resp[i])]
      /\ (IF flow.async THEN future ELSE batch.score) = batch.resp
  BY <1>2 DEF ColumnsOK
<1>7. ColumnsOK'
  BY <1>1, <1>2, <1>3, <1>5, <1>6 DEF ColumnsOK
<1>8. \A d \in Devices : device'[d].phase = "idle"
  BY DEF CollectLogProbs, Idle
<1>9. DevicesOK'
  BY <1>1, <1>2, <1>8, IdleDevices
<1>10. TaughtOK'
  BY <1>1, <1>2, NotTaught
<1> QED BY <1>1, <1>7, <1>9, <1>10

LEMMA AdvantageKeeps == FlowIInv /\ Advantage => FlowIInv'
<1> SUFFICES ASSUME FlowIInv, Advantage
             PROVE  FlowIInv'
  OBVIOUS
<1> USE DEF FlowIInv
<1>1. /\ flow' = flow /\ taught' = taught
      /\ Size' = Size /\ Devices' = Devices /\ Local' = Local /\ Minis' = Minis /\ Work' = Work
      /\ Share' = Share
  BY SameFlow DEF Advantage
<1>2. driver = "advantage" /\ driver' = "update"
  BY DEF Advantage
<1>3. (\A r : GroupOf(r)' = GroupOf(r)) /\ \A d, i : RowAt(d, i)' = RowAt(d, i)
  BY <1>1 DEF GroupOf, RowAt
<1>4. /\ Enumerates(batch.resp, 1 .. Size) /\ Len(batch.resp) = Size
      /\ batch.uid = [i \in 1 .. Size |-> GroupOf(batch.resp[i])]
      /\ (IF flow.async THEN future ELSE batch.score) = batch.resp
      /\ batch.logp = batch.resp
  BY <1>2 DEF ColumnsOK
<1>5. batch' = [batch EXCEPT !.score = batch.resp, !.adv = Advantages(batch.uid, batch.resp)]
  BY <1>4 DEF Advantage
<1>6. /\ DOMAIN batch' = {"uid", "resp", "logp", "score", "adv"}
      /\ batch'.uid = batch.uid /\ batch'.resp = batch.resp /\ batch'.logp = batch.logp
      /\ batch'.score = batch.resp /\ batch'.adv = Advantages(batch.uid, batch.resp)
  BY <1>5 DEF ColumnsOK
<1>7. Advantages(batch.uid, batch.resp)' = Advantages(batch'.uid, batch'.resp)
  BY <1>1 DEF Advantages
<1>8. ColumnsOK'
  BY <1>1, <1>2, <1>3, <1>4, <1>6, <1>7 DEF ColumnsOK
<1>9. device' = Given(Work)
  BY DEF Advantage, Work, Minis
<1>10. \A d \in Devices' :
        /\ device'[d].minis = Work /\ device'[d].mini = 1
        /\ device'[d].phase \in {"count", "split"} /\ (flow'.dynamic => device'[d].phase = "count")
  BY <1>1, <1>9, GivenIs
<1>11. PICK a \in Nat \ {0}, b \in Nat \ {0} : a = flow.epochs /\ b = Len(Minis) /\ Len(Work) = a * b
  BY MinisAre, SizesAre
<1>12. 1 \in 1 .. Len(Work)
  BY <1>11
<1>13. DevicesOK'
  <2>1. \A d \in Devices' : device'[d].minis = Work' /\ device'[d].mini \in 1 .. Len(device'[d].minis)
    BY <1>1, <1>10, <1>12
  <2> QED BY <1>1, <1>2, <1>10, <2>1 DEF DevicesOK, Work
<1>14. TaughtOK'
  <2>1. taught \in [1 .. Size -> Nat] /\ \A r \in 1 .. Size : taught[r] = 0
    BY <1>2 DEF TaughtOK
  <2>2. \A d \in Devices : Through(d)' = 0
    BY <1>1, <1>10 DEF Through
  <2>3. ASSUME NEW d \in Devices, NEW i \in 1 .. Len(Local)
        PROVE  taught[batch.resp[RowAt(d, i)]] = 0
    <3>1. RowAt(d, i) \in 1 .. Size
      BY RowsAre, LocalIs
    <3>2. batch.resp[RowAt(d, i)] \in 1 .. Size
      BY <1>4, <3>1, ElementOfSeq DEF Enumerates
    <3> QED BY <2>1, <3>2
  <2>4. 0 \in 0 .. flow.epochs /\ 0 \in 0 .. Len(Minis) - 1 /\ 0 = 0 * Len(Minis) + 0
    BY <1>11
  <2>5. \A i : ~ \E m \in 1 .. 0 : Has(Minis[m], i)
    OBVIOUS
  <2>6. \A d \in Devices :
          /\ Through(d)' = 0 * Len(Minis) + 0
          /\ \A i \in 1 .. Len(Local) :
               taught'[batch'.resp[RowAt(d, i)]]
                 = IF \E m \in 1 .. 0 : Has(Minis[m], i) THEN 0 + 1 ELSE 0
    BY <1>1, <1>6, <2>2, <2>3, <2>4, <2>5
  <2> QED BY <1>1, <1>2, <1>6, <2>1, <2>4, <2>6, TaughtIs
<1> QED BY <1>1, <1>8, <1>13, <1>14

LEMMA CollectUpdateKeeps == FlowIInv /\ CollectUpdate => FlowIInv'
<1> SUFFICES ASSUME FlowIInv, CollectUpdate
             PROVE  FlowIInv'
  OBVIOUS
<1> USE DEF FlowIInv
<1>1. /\ flow' = flow /\ taught' = taught /\ batch' = batch /\ future' = future
      /\ Size' = Size /\ Devices' = Devices
  BY SameFlow DEF CollectUpdate
<1>2. driver = "update" /\ driver' = "done"
  BY DEF CollectUpdate
<1>3. \A r : GroupOf(r)' = GroupOf(r)
  BY <1>1 DEF GroupOf
<1>4. Advantages(batch.uid, batch.resp)' = Advantages(batch.uid, batch.resp)
  BY <1>1 DEF Advantages
<1>5. ColumnsOK'
  BY <1>1, <1>2, <1>3, <1>4 DEF ColumnsOK
<1>6. \A d \in Devices : device'[d].phase = "idle"
  BY DEF CollectUpdate, Idle
<1>7. DevicesOK'
  BY <1>1, <1>2, <1>6, IdleDevices
<1>8. PICK a \in Nat \ {0}, b \in Nat \ {0} : a = flow.epochs /\ b = Len(Minis) /\ Len(Work) = a * b
  BY MinisAre, SizesAre
<1>9. PICK e \in 0 .. a, p \in 0 .. b - 1 : \A d \in Devices :
         /\ Through(d) = e * b + p
         /\ \A i \in 1 .. Len(Local) :
              taught[batch.resp[RowAt(d, i)]]
                = IF \E m \in 1 .. p : Has(Minis[m], i) THEN e + 1 ELSE e
  BY <1>2, <1>8 DEF TaughtOK
<1>10. ASSUME NEW r \in 1 .. Size PROVE taught[r] = a
  <2>1. batch.resp \in Seq(1 .. Size) /\ Len(batch.resp) = Size /\ Has(batch.resp, r)
    BY <1>2 DEF ColumnsOK, Enumerates
  <2>2. PICK k \in 1 .. Size : batch.resp[k] = r
    BY <2>1 DEF Has
  <2>3. PICK d \in Devices, i \in 1 .. Share : k = RowAt(d, i)
    BY RowsAre
  <2>4. Through(d) = a * b
    BY <1>2, <1>8 DEF CollectUpdate, AllEnded, Through, DevicesOK, Work
  <2>5. e * b + p = a * b
    BY <1>9, <2>4
  <2>6. PICK q \in 1 .. b : q = p + 1
    BY <1>8
  <2>7. e * b + q = a * b + 1 /\ 1 \in 1 .. b
    BY <1>8, <2>5, <2>6
  <2>8. e = a /\ q = 1
    <3>1. e \in Nat /\ a \in Nat /\ b \in Nat \ {0}
      OBVIOUS
    <3> QED BY <2>7, <3>1, PlaceUnique
  <2>9. taught[batch.resp[RowAt(d, i)]]
          = IF \E m \in 1 .. p : Has(Minis[m], i) THEN e + 1 ELSE e
    BY <1>9, <2>3, LocalIs
  <2>10. p = 0
    BY <2>6, <2>8
  <2> QED BY <2>2, <2>3, <2>8, <2>9, <2>10
<1>11. TaughtOK'
  BY <1>1, <1>2, <1>8, <1>10 DEF TaughtOK
<1> QED BY <1>1, <1>5, <1>7, <1>11

-----------------------------------------------------------------------------
(* The devices at work.                                                    *)

LEMMA AtWork ==
  ASSUME Lockstep, NEW d \in Devices, device[d].phase # "idle"
  PROVE  driver \in {"logprob", "update"}
BY DEF Lockstep, IdleOutside

LEMMA SomeDevice == ASSUME flow \in Flows PROVE 1 \in Devices
BY SizesAre DEF Devices

LEMMA AgreeKeeps == FlowIInv /\ Lockstep /\ AgreeOnCount => FlowIInv'
<1> SUFFICES ASSUME FlowIInv, Lockstep, AgreeOnCount
             PROVE  FlowIInv'
  OBVIOUS
<1> USE DEF FlowIInv
<1>1. UNCHANGED <<flow, driver, batch, future, taught>>
  BY DEF AgreeOnCount
<1>2. Devices' = Devices /\ Local' = Local /\ Minis' = Minis
  BY <1>1, SameFlow
<1>3. \A d \in Devices : device[d].phase = "count"
  BY DEF AgreeOnCount
<1>4. driver \in {"logprob", "update"}
  BY <1>3, AtWork, SomeDevice
<1>5. device' = [d \in Devices |-> [device[d] EXCEPT !.phase = "split", !.count = AgreedCount(d)]]
  BY DEF AgreeOnCount
<1>6. ASSUME NEW d \in Devices
      PROVE  /\ device'[d].phase = "split" /\ device'[d].count = AgreedCount(d)
             /\ device'[d].minis = device[d].minis /\ device'[d].mini = device[d].mini
  <2>1. PICK c : c = AgreedCount(d)
    OBVIOUS
  <2>2. device'[d] = [device[d] EXCEPT !.phase = "split", !.count = c]
    BY <1>5, <2>1
  <2> QED BY <2>1, <2>2 DEF Lockstep, FieldsOK, Fields
<1>7. \A d \in Devices : device'[d].count \in Nat
  BY <1>4, <1>6, CountIsNat
<1>8. DevicesOK'
  BY <1>1, <1>2, <1>6, <1>7 DEF DevicesOK
<1>9. \A d \in Devices : Through(d)' = Through(d)
  BY <1>3, <1>6 DEF Through
<1>10. TaughtOK'
  BY <1>1, <1>9, TaughtKept
<1>11. ColumnsOK'
  BY <1>1, ColumnsKept
<1> QED BY <1>1, <1>8, <1>10, <1>11

LEMMA SplitKeeps == FlowIInv /\ Lockstep /\ (\E x \in Devices : SplitMini(x)) => FlowIInv'
<1> SUFFICES ASSUME FlowIInv, Lockstep, NEW x \in Devices, SplitMini(x)
             PROVE  FlowIInv'
  OBVIOUS
<1> USE DEF FlowIInv
<1>1. UNCHANGED <<flow, driver, batch, future, taught>>
  BY DEF SplitMini
<1>2. Devices' = Devices /\ Local' = Local /\ Minis' = Minis
  BY <1>1, SameFlow
<1>3. device[x].phase = "split"
  BY DEF SplitMini
<1>4. driver \in {"logprob", "update"}
  BY <1>3, AtWork
<1>5. PICK micros \in MicroBatches(x) :
        device' = [device EXCEPT ![x].phase = "forward", ![x].micros = micros, ![x].seen = <<>>]
  BY DEF SplitMini
<1>6. /\ device'[x].phase = "forward" /\ device'[x].micros = micros /\ device'[x].seen = <<>>
      /\ \A d \in Devices \ {x} : device'[d] = device[d]
      /\ \A d \in Devices :
           /\ device'[d].minis = device[d].minis
           /\ device'[d].mini = device[d].mini /\ device'[d].count = device[d].count
  BY <1>5 DEF Lockstep, FieldsOK, Fields
<1>7. \A d \in Devices : Mini(d)' = Mini(d)
  BY <1>6 DEF Mini
<1>8. Len(Mini(x)) \in Nat \ {0}
  BY <1>4, MiniIs
<1>9. Divides(<<>>, micros, 1 .. Len(Mini(x))) /\ Len(micros) > 0
  BY <1>3, <1>8, MicrosDivide DEF DevicesOK
<1>10. /\ driver = "logprob" =>
            \A d \in Devices : device'[d].minis = <<Local>> /\ device'[d].mini = 1
       /\ driver = "update" =>
            \A d \in Devices : /\ device'[d].minis = Work
                               /\ device'[d].mini \in 1 .. Len(device'[d].minis)
  BY <1>6 DEF DevicesOK, Work
<1>11. ASSUME NEW d \in Devices
       PROVE  /\ device'[d].phase \in {"split", "forward"} /\ flow.dynamic => device'[d].count \in Nat
              /\ device'[d].phase = "forward" =>
                   /\ Len(device'[d].micros) > 0
                   /\ Divides(device'[d].seen, device'[d].micros, 1 .. Len(Mini(d)))
              /\ device'[d].phase = "step" => driver = "update"
              /\ device'[d].phase = "step" \/ (device'[d].phase = "ended" /\ driver = "logprob") =>
                   Enumerates(device'[d].seen, 1 .. Len(Mini(d)))
  <2>1. CASE d = x
    BY <1>3, <1>6, <1>9, <2>1 DEF DevicesOK
  <2>2. CASE d # x
    BY <1>6, <2>2 DEF DevicesOK
  <2> QED BY <2>1, <2>2
<1>12. DevicesOK'
  BY <1>1, <1>2, <1>7, <1>10, <1>11, SameFlow DEF DevicesOK, Work
<1>13. \A d \in Devices : Through(d)' = Through(d)
  BY <1>3, <1>6 DEF Through
<1>14. TaughtOK'
  BY <1>1, <1>13, TaughtKept
<1>15. ColumnsOK'
  BY <1>1, ColumnsKept
<1> QED BY <1>1, <1>12, <1>14, <1>15

LEMMA ForwardKeeps == FlowIInv /\ Lockstep /\ Forward => FlowIInv'
<1> SUFFICES ASSUME FlowIInv, Lockstep, Forward
             PROVE  FlowIInv'
  OBVIOUS
<1> USE DEF FlowIInv
<1>1. UNCHANGED <<flow, driver, batch, future, taught>>
  BY DEF Forward
<1>2. Devices' = Devices /\ Local' = Local /\ Minis' = Minis /\ Work' = Work
  BY <1>1, SameFlow
<1>3. \A d \in Devices : device[d].phase = "forward"
  BY DEF Forward
<1>4. driver \in {"logprob", "update"}
  BY <1>3, AtWork, SomeDevice
<1> DEFINE next(d) == IF Len(device[d].micros) > 1 THEN "forward"
                      ELSE IF driver = "logprob" THEN "ended" ELSE "step"
<1>5. device' = [d \in Devices |->
        [device[d] EXCEPT !.seen = @ \o Head(device[d].micros), !.micros = Tail(@), !.phase = next(d)]]
  BY DEF Forward
<1> HIDE DEF next
<1>6. \A d \in Devices :
        /\ device'[d].phase = next(d)
        /\ device'[d].seen = device[d].seen \o Head(device[d].micros)
        /\ device'[d].micros = Tail(device[d].micros) /\ device'[d].minis = device[d].minis
        /\ device'[d].mini = device[d].mini /\ device'[d].count = device[d].count
  BY <1>5 DEF Lockstep, FieldsOK, Fields
<1>7. \A d \in Devices : Mini(d)' = Mini(d)
  BY <1>6 DEF Mini
<1>8. /\ driver = "logprob" =>
            \A d \in Devices : device'[d].minis = <<Local>> /\ device'[d].mini = 1
      /\ driver = "update" =>
            \A d \in Devices : /\ device'[d].minis = Work
                               /\ device'[d].mini \in 1 .. Len(device'[d].minis)
  BY <1>6 DEF DevicesOK, Work
<1>9. ASSUME NEW d \in Devices
      PROVE  /\ device'[d].phase \in {"split", "forward"} /\ flow.dynamic => device'[d].count \in Nat
             /\ device'[d].phase = "forward" =>
                  /\ Len(device'[d].micros) > 0
                  /\ Divides(device'[d].seen, device'[d].micros, 1 .. Len(Mini(d)))
             /\ device'[d].phase = "step" => driver = "update"
             /\ device'[d].phase = "step" \/ (device'[d].phase = "ended" /\ driver = "logprob") =>
                  Enumerates(device'[d].seen, 1 .. Len(Mini(d)))
  <2>1. PICK seen, micros, S :
          seen = device[d].seen /\ micros = device[d].micros /\ S = 1 .. Len(Mini(d))
    OBVIOUS
  <2>2. Divides(seen, micros, S) /\ Len(micros) > 0
    BY <1>3, <2>1 DEF DevicesOK
  <2>3. /\ Divides(seen \o Head(micros), Tail(micros), S)
        /\ Len(Tail(micros)) = Len(micros) - 1
        /\ ~(Len(micros) > 1) => Enumerates(seen \o Head(micros), S)
    BY <2>2, ForwardDivides
  <2>4. device'[d].seen = seen \o Head(micros) /\ device'[d].micros = Tail(micros)
    BY <1>6, <2>1
  <2>5. Len(micros) \in Nat
    BY <2>2, LenProperties DEF Divides
  <2>6. CASE Len(micros) > 1
    <3>3. next(d) = "forward"
      BY <2>1, <2>6 DEF next
    <3>4. Len(Tail(micros)) > 0
      BY <2>3, <2>5, <2>6
    <3>1. device'[d].phase = "forward" /\ Len(Tail(micros)) > 0
      BY <1>6, <3>3, <3>4
    <3>2. flow.dynamic => device'[d].count \in Nat
      BY <1>3, <1>6 DEF DevicesOK
    <3> QED BY <2>1, <2>3, <2>4, <3>1, <3>2
  <2>7. CASE ~(Len(micros) > 1)
    <3>1. device'[d].phase = IF driver = "logprob" THEN "ended" ELSE "step"
      BY <1>6, <2>1, <2>7 DEF next
    <3> QED BY <1>4, <2>1, <2>3, <2>4, <2>7, <3>1
  <2> QED BY <2>6, <2>7
<1>10. DevicesOK'
  BY <1>1, <1>2, <1>7, <1>8, <1>9 DEF DevicesOK, Work
<1>11. driver = "update" => \A d \in Devices : Through(d)' = Through(d)
  <2> SUFFICES ASSUME driver = "update", NEW d \in Devices PROVE Through(d)' = Through(d)
    OBVIOUS
  <2>1. device'[d].phase # "ended" /\ device[d].phase # "ended" /\ device'[d].mini = device[d].mini
    BY <1>3, <1>6 DEF next
  <2> QED BY <2>1 DEF Through
<1>12. TaughtOK'
  BY <1>1, <1>11, TaughtKept
<1>13. ColumnsOK'
  BY <1>1, ColumnsKept
<1> QED BY <1>1, <1>10, <1>12, <1>13

\* The epoch of a mini-batch that there is.
LEMMA EpochIn ==
  ASSUME NEW a \in Nat, NEW b \in Nat \ {0}, NEW e \in Nat, NEW q \in 1 .. b,
         e * b + q \in 1 .. a * b
  PROVE  e + 1 \in 1 .. a
<1>1. PICK k \in 1 .. a * b : k = e * b + q
  OBVIOUS
<1>2. PICK f \in 1 .. a, g \in 1 .. b : k = (f - 1) * b + g
  BY PlaceOf
<1>3. PICK h \in Nat : h = f - 1
  OBVIOUS
<1>4. h * b + g = e * b + q
  BY <1>1, <1>2, <1>3
<1>5. h = e
  BY <1>4, PlaceUnique
<1> QED BY <1>3, <1>5

\* The places in what the devices accumulated where a response is.
Counted(r) ==
  {at \in Devices \X (1 .. Size) :
     at[2] <= Len(device[at[1]].seen) /\ Accumulated(at[1])[at[2]] = r}

\* One, if its position is in the mini-batch.
LEMMA CountedOnce ==
  ASSUME FlowIInv, driver = "update", \A c \in Devices : device[c].phase = "step",
         NEW mb, \A c \in Devices : Mini(c) = mb,
         NEW d \in Devices, NEW i \in 1 .. Share
  PROVE  Cardinality(Counted(batch.resp[RowAt(d, i)])) = IF Has(mb, i) THEN 1 ELSE 0
<1> USE DEF FlowIInv
<1>1. PICK r : r = batch.resp[RowAt(d, i)]
  OBVIOUS
<1>2. Share \in Nat \ {0} /\ Size \in Nat \ {0} /\ Share <= Size
  <2>1. PICK k \in Nat \ {0}, q \in Nat \ {0}, n \in Nat \ {0} :
          k = flow.devices /\ q = Share /\ n = Size /\ n = k * q
    BY SizesAre
  <2>2. 1 <= k
    OBVIOUS
  <2>3. q <= k * q
    BY <2>2
  <2> QED BY <2>1, <2>3
<1>3. mb \in Seq(1 .. Share) /\ Len(mb) \in Nat /\ Len(mb) <= Share /\ Distinct(mb)
  BY MiniIs, MiniShort
<1>4. \A c \in Devices : /\ device[c].seen \in Seq(1 .. Len(mb)) /\ Distinct(device[c].seen)
                         /\ \A l \in 1 .. Len(mb) : Has(device[c].seen, l)
                         /\ Len(device[c].seen) = Len(mb)
  <2> SUFFICES ASSUME NEW c \in Devices
               PROVE  /\ device[c].seen \in Seq(1 .. Len(mb)) /\ Distinct(device[c].seen)
                      /\ \A l \in 1 .. Len(mb) : Has(device[c].seen, l)
                      /\ Len(device[c].seen) = Len(mb)
    OBVIOUS
  <2>1. Enumerates(device[c].seen, 1 .. Len(mb))
    BY DEF DevicesOK
  <2>2. Len(device[c].seen) = Len(mb)
    BY <1>3, <2>1, EnumerationLength, IntervalSize
  <2> QED BY <2>1, <2>2 DEF Enumerates
<1>5. /\ batch.resp \in Seq(1 .. Size) /\ Len(batch.resp) = Size
      /\ \A k, l \in 1 .. Size : batch.resp[k] = batch.resp[l] => k = l
  BY DEF ColumnsOK, Enumerates, Distinct
<1>6. ASSUME NEW c \in Devices, NEW j \in 1 .. Len(mb)
      PROVE  /\ Accumulated(c)[j] = batch.resp[RowAt(c, mb[device[c].seen[j]])]
             /\ device[c].seen[j] \in 1 .. Len(mb) /\ mb[device[c].seen[j]] \in 1 .. Share
  <2>1. PICK seen : seen = device[c].seen
    OBVIOUS
  <2>2. Accumulated(c) = [l \in 1 .. Len(mb) |-> batch.resp[RowAt(c, mb[seen[l]])]]
    BY <1>4, <2>1 DEF Accumulated
  <2>3. seen[j] \in 1 .. Len(mb)
    BY <1>4, <2>1, ElementOfSeq
  <2>4. mb[seen[j]] \in 1 .. Share
    BY <1>3, <2>3, ElementOfSeq
  <2> QED BY <2>1, <2>2, <2>3, <2>4
<1>7. ASSUME NEW c \in Devices, NEW j \in 1 .. Len(mb)
      PROVE  Accumulated(c)[j] = r <=> c = d /\ mb[device[c].seen[j]] = i
  <2>1. PICK l \in 1 .. Share : l = mb[device[c].seen[j]] /\ Accumulated(c)[j] = batch.resp[RowAt(c, l)]
    BY <1>6
  <2>2. RowAt(c, l) \in 1 .. Size /\ RowAt(d, i) \in 1 .. Size
    BY RowsAre
  <2>3. batch.resp[RowAt(c, l)] = batch.resp[RowAt(d, i)] => RowAt(c, l) = RowAt(d, i)
    BY <1>5, <2>2
  <2>4. RowAt(c, l) = RowAt(d, i) => c = d /\ l = i
    BY RowsAre
  <2> QED BY <1>1, <2>1, <2>3, <2>4
<1>8. Counted(r) = {at \in Devices \X (1 .. Size) :
                     at[2] \in 1 .. Len(mb) /\ at[1] = d /\ mb[device[d].seen[at[2]]] = i}
  <2>1. ASSUME NEW c \in Devices, NEW j \in 1 .. Size
        PROVE  (j <= Len(device[c].seen) /\ Accumulated(c)[j] = r)
                 <=> (j \in 1 .. Len(mb) /\ c = d /\ mb[device[d].seen[j]] = i)
    <3>1. Len(device[c].seen) = Len(mb)
      BY <1>4
    <3>2. j <= Len(mb) <=> j \in 1 .. Len(mb)
      BY <1>2, <1>3
    <3> QED BY <1>7, <3>1, <3>2
  <2> QED BY <2>1 DEF Counted
<1>9. CASE Has(mb, i)
  <2>1. PICK l \in 1 .. Len(mb) : mb[l] = i
    BY <1>9 DEF Has
  <2>2. PICK j \in 1 .. Len(mb) : device[d].seen[j] = l
    BY <1>4 DEF Has
  <2>3. j \in 1 .. Size
    BY <1>2, <1>3
  <2>4. ASSUME NEW k \in 1 .. Len(mb), mb[device[d].seen[k]] = i
        PROVE  k = j
    <3>1. device[d].seen[k] = l
      BY <1>3, <1>6, <2>1, <2>4 DEF Distinct
    <3> QED BY <1>4, <2>2, <3>1 DEF Distinct
  <2>5. Counted(r) = {<<d, j>>}
    BY <1>8, <2>1, <2>2, <2>3, <2>4
  <2> QED BY <1>1, <1>9, <2>5, FS_Singleton
<1>10. CASE ~Has(mb, i)
  <2>1. \A k \in 1 .. Len(mb) : mb[device[d].seen[k]] # i
    BY <1>6, <1>10 DEF Has
  <2>2. Counted(r) = {}
    BY <1>8, <2>1
  <2> QED BY <1>1, <1>10, <2>2, FS_EmptySet
<1> QED BY <1>9, <1>10

LEMMA OptimizerKeeps == FlowIInv /\ Lockstep /\ OptimizerStep => FlowIInv'
<1> SUFFICES ASSUME FlowIInv, Lockstep, OptimizerStep
             PROVE  FlowIInv'
  OBVIOUS
<1> USE DEF FlowIInv
<1>1. UNCHANGED <<flow, driver, batch, future>>
  BY DEF OptimizerStep
<1>2. /\ Devices' = Devices /\ Local' = Local /\ Minis' = Minis /\ Work' = Work /\ Size' = Size
      /\ \A d, i : RowAt(d, i)' = RowAt(d, i)
  BY <1>1, SameFlow DEF RowAt
<1>3. \A d \in Devices : device[d].phase = "step"
  BY DEF OptimizerStep
<1>4. driver = "update"
  BY <1>3, SomeDevice DEF DevicesOK
<1>5. \A d \in Devices : device[d].minis = Work /\ device[d].mini \in 1 .. Len(Work)
  BY <1>4 DEF DevicesOK, Work
<1>6. ASSUME NEW d \in Devices
      PROVE  /\ device'[d].minis = Work
             /\ device'[d].mini = IF device[d].mini = Len(Work) THEN device[d].mini ELSE device[d].mini + 1
             /\ device'[d].phase = IF device[d].mini = Len(Work) THEN "ended"
                                   ELSE IF flow.dynamic THEN "count" ELSE "split"
  <2>1. device'[d] =
          IF device[d].mini = Len(Work) THEN [device[d] EXCEPT !.phase = "ended"]
          ELSE [device[d] EXCEPT !.phase = IF flow.dynamic THEN "count" ELSE "split", !.mini = @ + 1]
    BY <1>5 DEF OptimizerStep
  <2>2. DOMAIN device[d] = Fields
    BY DEF Lockstep, FieldsOK
  <2> QED BY <1>5, <2>1, <2>2 DEF Fields
<1>7. PICK a \in Nat \ {0}, b \in Nat \ {0} : a = flow.epochs /\ b = Len(Minis) /\ Len(Work) = a * b
  BY MinisAre, SizesAre
<1>8. PICK w \in Nat : w = Len(Work)
  BY <1>7
<1>9. ASSUME NEW d \in Devices
      PROVE  Through(d)' = device[d].mini /\ Through(d) = device[d].mini - 1
  <2>1. PICK m \in 1 .. w : m = device[d].mini
    BY <1>5, <1>8
  <2>2. Through(d) = m - 1
    BY <1>3, <2>1 DEF Through
  <2>3. CASE m = w
    <3>1. device'[d].phase = "ended" /\ device'[d].minis = Work
      BY <1>6, <1>8, <2>1, <2>3
    <3>2. Through(d)' = Len(Work)
      BY <3>1 DEF Through
    <3> QED BY <1>8, <2>1, <2>2, <2>3, <3>2
  <2>4. CASE m # w
    <3>1. device'[d].phase # "ended" /\ device'[d].mini = m + 1
      BY <1>6, <1>8, <2>1, <2>4
    <3>2. Through(d)' = (m + 1) - 1
      BY <3>1 DEF Through
    <3> QED BY <2>1, <2>2, <3>2
  <2> QED BY <2>1, <2>2, <2>3, <2>4
<1>10. \A d \in Devices : device'[d].mini \in 1 .. Len(Work)
  <2> SUFFICES ASSUME NEW d \in Devices PROVE device'[d].mini \in 1 .. w
    BY <1>8
  <2>1. PICK m \in 1 .. w : m = device[d].mini
    BY <1>5, <1>8
  <2>2. device'[d].mini = IF m = w THEN m ELSE m + 1
    BY <1>6, <1>8, <2>1
  <2> QED BY <2>2
<1>11. DevicesOK'
  BY <1>1, <1>2, <1>4, <1>6, <1>10 DEF DevicesOK, Work
<1>12. ColumnsOK'
  BY <1>1, ColumnsKept
<1>13. PICK e \in 0 .. a, p \in 0 .. b - 1 : \A d \in Devices :
         /\ Through(d) = e * b + p
         /\ \A i \in 1 .. Len(Local) :
              taught[batch.resp[RowAt(d, i)]]
                = IF \E m \in 1 .. p : Has(Minis[m], i) THEN e + 1 ELSE e
  BY <1>4, <1>7 DEF TaughtOK
<1>14. PICK q \in 1 .. b : q = p + 1
  OBVIOUS
<1>15. \A d \in Devices : device[d].mini = e * b + q
  <2> SUFFICES ASSUME NEW d \in Devices PROVE device[d].mini = e * b + q
    OBVIOUS
  <2>1. PICK m \in 1 .. w : m = device[d].mini
    BY <1>5, <1>8
  <2>2. PICK c \in Nat : c = e * b
    OBVIOUS
  <2>3. m - 1 = c + p
    BY <1>9, <1>13, <2>1, <2>2
  <2> QED BY <1>14, <2>1, <2>2, <2>3
<1>16. e + 1 \in 1 .. a
  <2>1. PICK d \in Devices : TRUE
    BY SomeDevice
  <2>2. device[d].mini \in 1 .. a * b
    BY <1>5, <1>7
  <2>3. e * b + q \in 1 .. a * b
    BY <1>15, <2>2
  <2>4. a \in Nat /\ e \in Nat
    OBVIOUS
  <2> QED BY <2>3, <2>4, EpochIn
<1>17. \A d \in Devices : Mini(d) = Minis[q]
  <2> SUFFICES ASSUME NEW d \in Devices PROVE Mini(d) = Minis[q]
    OBVIOUS
  <2>1. Work[((e + 1) - 1) * Len(Minis) + q] = Minis[q]
    BY <1>7, <1>16, MinisAre
  <2>2. (e + 1) - 1 = e
    OBVIOUS
  <2>3. Work[e * b + q] = Minis[q]
    BY <1>7, <2>1, <2>2
  <2> QED BY <1>5, <1>15, <2>3 DEF Mini
<1>18. /\ taught \in [1 .. Size -> Nat]
       /\ taught' = [r \in 1 .. Size |-> taught[r] + Cardinality(Counted(r))]
  BY DEF TaughtOK, OptimizerStep, Counted
<1>19. Share \in Nat \ {0} /\ Len(Local) = Share
  BY SizesAre, LocalIs
<1>20. ASSUME NEW d \in Devices, NEW i \in 1 .. Share
       PROVE  /\ batch.resp[RowAt(d, i)] \in 1 .. Size
              /\ taught'[batch.resp[RowAt(d, i)]]
                   = (IF \E m \in 1 .. p : Has(Minis[m], i) THEN e + 1 ELSE e)
                       + (IF Has(Minis[q], i) THEN 1 ELSE 0)
  <2>1. RowAt(d, i) \in 1 .. Size
    BY RowsAre
  <2>2. batch.resp \in Seq(1 .. Size) /\ Len(batch.resp) = Size
    BY <1>4 DEF ColumnsOK, Enumerates
  <2>3. PICK r \in 1 .. Size : r = batch.resp[RowAt(d, i)]
    BY <2>1, <2>2, ElementOfSeq
  <2>4. Cardinality(Counted(r)) = IF Has(Minis[q], i) THEN 1 ELSE 0
    BY <1>3, <1>4, <1>17, <2>3, CountedOnce
  <2>5. taught[r] = IF \E m \in 1 .. p : Has(Minis[m], i) THEN e + 1 ELSE e
    BY <1>13, <1>19, <2>3
  <2>6. taught'[r] = taught[r] + Cardinality(Counted(r))
    BY <1>18
  <2> QED BY <2>3, <2>4, <2>5, <2>6
<1>21. taught' \in [1 .. Size -> Nat]
  <2>1. ASSUME NEW r \in 1 .. Size PROVE taught[r] + Cardinality(Counted(r)) \in Nat
    <3>1. batch.resp \in Seq(1 .. Size) /\ Len(batch.resp) = Size /\ Has(batch.resp, r)
      BY <1>4 DEF ColumnsOK, Enumerates
    <3>2. PICK k \in 1 .. Size : batch.resp[k] = r
      BY <3>1 DEF Has
    <3>3. PICK d \in Devices, i \in 1 .. Share : k = RowAt(d, i)
      BY RowsAre
    <3>4. Cardinality(Counted(r)) = IF Has(Minis[q], i) THEN 1 ELSE 0
      BY <1>3, <1>4, <1>17, <3>2, <3>3, CountedOnce
    <3> QED BY <1>18, <3>4
  <2> QED BY <1>18, <2>1
<1>22. /\ \A i \in 1 .. Share : \E m \in 1 .. b : Has(Minis[m], i)
       /\ \A i \in 1 .. Share, m, n \in 1 .. b : Has(Minis[m], i) /\ Has(Minis[n], i) => m = n
  BY <1>7, MinisAre
<1>23. CASE q < b
  <2>1. q \in 0 .. b - 1 /\ e \in 0 .. a
    BY <1>23
  <2>2. ASSUME NEW d \in Devices
        PROVE  /\ Through(d)' = e * b + q
               /\ \A i \in 1 .. Share :
                    taught'[batch.resp[RowAt(d, i)]]
                      = IF \E m \in 1 .. q : Has(Minis[m], i) THEN e + 1 ELSE e
    <3>1. Through(d)' = e * b + q
      BY <1>9, <1>15
    <3>2. ASSUME NEW i \in 1 .. Share
          PROVE  taught'[batch.resp[RowAt(d, i)]]
                   = IF \E m \in 1 .. q : Has(Minis[m], i) THEN e + 1 ELSE e
      <4>1. (\E m \in 1 .. q : Has(Minis[m], i))
              <=> (\E m \in 1 .. p : Has(Minis[m], i)) \/ Has(Minis[q], i)
        <5>1. 1 .. q = (1 .. p) \union {q}
          BY <1>14
        <5> QED BY <5>1, Zenon
      <4>2. Has(Minis[q], i) => ~ \E m \in 1 .. p : Has(Minis[m], i)
        BY <1>14, <1>22
      <4> QED BY <1>20, <4>1, <4>2
    <3> QED BY <3>1, <3>2
  <2>3. \E f \in 0 .. a, g \in 0 .. b - 1 : \A d \in Devices :
          /\ Through(d)' = f * b + g
          /\ \A i \in 1 .. Share :
               taught'[batch.resp[RowAt(d, i)]]
                 = IF \E m \in 1 .. g : Has(Minis[m], i) THEN f + 1 ELSE f
    BY <2>1, <2>2, Zenon
  <2>4. TaughtOK'
    <3>1. PICK f \in 0 .. a, g \in 0 .. b - 1 : \A d \in Devices :
            /\ Through(d)' = f * b + g
            /\ \A i \in 1 .. Share :
                 taught'[batch.resp[RowAt(d, i)]]
                   = IF \E m \in 1 .. g : Has(Minis[m], i) THEN f + 1 ELSE f
      BY <2>3
    <3>3. f \in 0 .. flow.epochs /\ g \in 0 .. Len(Minis) - 1
      BY <1>7
    <3>4. \A d \in Devices :
            /\ Through(d)' = f * Len(Minis) + g
            /\ \A i \in 1 .. Len(Local) :
                 taught'[batch'.resp[RowAt(d, i)]]
                   = IF \E m \in 1 .. g : Has(Minis[m], i) THEN f + 1 ELSE f
      BY <1>1, <1>7, <1>19, <3>1, Zenon
    <3> QED BY <1>1, <1>4, <1>21, <3>3, <3>4, TaughtIs
  <2> QED BY <1>1, <1>11, <1>12, <2>4
<1>24. CASE ~(q < b)
  <2>1. q = b /\ 0 \in 0 .. b - 1 /\ e + 1 \in 0 .. a
    BY <1>16, <1>24
  <2>2. ASSUME NEW d \in Devices
        PROVE  /\ Through(d)' = (e + 1) * b + 0
               /\ \A i \in 1 .. Share :
                    taught'[batch.resp[RowAt(d, i)]]
                      = IF \E m \in 1 .. 0 : Has(Minis[m], i) THEN (e + 1) + 1 ELSE e + 1
    <3>1. Through(d)' = e * b + b
      BY <1>9, <1>15, <2>1
    <3>2. ASSUME NEW i \in 1 .. Share
          PROVE  taught'[batch.resp[RowAt(d, i)]] = e + 1
      <4>1. PICK m \in 1 .. b : Has(Minis[m], i)
        BY <1>22
      <4>2. CASE m = q
        <5>1. ~ \E l \in 1 .. p : Has(Minis[l], i)
          BY <1>14, <1>22, <4>1, <4>2
        <5> QED BY <1>20, <4>1, <4>2, <5>1
      <4>3. CASE m # q
        <5>1. m \in 1 .. p /\ ~Has(Minis[q], i)
          BY <1>14, <1>22, <2>1, <4>1, <4>3
        <5> QED BY <1>20, <4>1, <5>1
      <4> QED BY <4>2, <4>3
    <3>3. e * b + b = (e + 1) * b + 0
      OBVIOUS
    <3> QED BY <3>1, <3>2, <3>3
  <2>3. \E f \in 0 .. a, g \in 0 .. b - 1 : \A d \in Devices :
          /\ Through(d)' = f * b + g
          /\ \A i \in 1 .. Share :
               taught'[batch.resp[RowAt(d, i)]]
                 = IF \E m \in 1 .. g : Has(Minis[m], i) THEN f + 1 ELSE f
    BY <2>1, <2>2, Zenon
  <2>4. TaughtOK'
    <3>1. PICK f \in 0 .. a, g \in 0 .. b - 1 : \A d \in Devices :
            /\ Through(d)' = f * b + g
            /\ \A i \in 1 .. Share :
                 taught'[batch.resp[RowAt(d, i)]]
                   = IF \E m \in 1 .. g : Has(Minis[m], i) THEN f + 1 ELSE f
      BY <2>3
    <3>3. f \in 0 .. flow.epochs /\ g \in 0 .. Len(Minis) - 1
      BY <1>7
    <3>4. \A d \in Devices :
            /\ Through(d)' = f * Len(Minis) + g
            /\ \A i \in 1 .. Len(Local) :
                 taught'[batch'.resp[RowAt(d, i)]]
                   = IF \E m \in 1 .. g : Has(Minis[m], i) THEN f + 1 ELSE f
      BY <1>1, <1>7, <1>19, <3>1, Zenon
    <3> QED BY <1>1, <1>4, <1>21, <3>3, <3>4, TaughtIs
  <2> QED BY <1>1, <1>11, <1>12, <2>4
<1> QED BY <1>23, <1>24
-----------------------------------------------------------------------------
(* All steps.                                                              *)

LEMMA FlowStarts == FlowInit => FlowIInv
<1> SUFFICES ASSUME FlowInit
             PROVE  FlowIInv
  OBVIOUS
<1>1. flow \in Flows /\ driver = "generate" /\ batch = NoBatch
  BY DEF FlowInit
<1>2. \A d \in Devices : device[d].phase = "idle"
  BY DEF FlowInit, Idle
<1>3. taught \in [1 .. Size -> Nat] /\ \A r \in 1 .. Size : taught[r] = 0
  BY DEF FlowInit
<1>4. ColumnsOK
  BY <1>1 DEF ColumnsOK, NoBatch
<1>5. DevicesOK
  BY <1>1, <1>2 DEF DevicesOK
<1>6. TaughtOK
  BY <1>1, <1>3 DEF TaughtOK
<1> QED BY <1>1, <1>4, <1>5, <1>6 DEF FlowIInv

LEMMA FlowKeeps == FlowIInv /\ Lockstep /\ [FlowNext]_flowVars => FlowIInv'
<1> SUFFICES ASSUME FlowIInv, Lockstep, [FlowNext]_flowVars
             PROVE  FlowIInv'
  OBVIOUS
<1>1. CASE \E w \in Workers : WorkerReturns(w)
  BY <1>1, OthersKeep DEF WorkerReturns
<1>2. CASE CollectResponses
  BY <1>2, CollectKeeps
<1>3. CASE Balance
  BY <1>3, BalanceKeeps
<1>4. CASE Reward
  BY <1>4, RewardKeeps
<1>5. CASE RewardEnds
  BY <1>5, OthersKeep DEF RewardEnds
<1>6. CASE CollectLogProbs
  BY <1>6, CollectLogProbsKeeps
<1>7. CASE Advantage
  BY <1>7, AdvantageKeeps
<1>8. CASE CollectUpdate
  BY <1>8, CollectUpdateKeeps
<1>9. CASE AgreeOnCount
  BY <1>9, AgreeKeeps
<1>10. CASE Forward
  BY <1>10, ForwardKeeps
<1>11. CASE OptimizerStep
  BY <1>11, OptimizerKeeps
<1>12. CASE \E d \in Devices : SplitMini(d)
  BY <1>12, SplitKeeps
<1>13. CASE UNCHANGED flowVars
  BY <1>13, OthersKeep DEF flowVars
<1> QED
  BY <1>1, <1>2, <1>3, <1>4, <1>5, <1>6, <1>7, <1>8, <1>9, <1>10, <1>11, <1>12, <1>13 DEF FlowNext

\* In the end the columns are the responses, so the row of a response has
\* what belongs to it.
LEMMA ColumnsTell == FlowIInv => LearnsEachRowOnce
<1> SUFFICES ASSUME FlowIInv, driver = "done", NEW r \in 1 .. Size
             PROVE  /\ taught[r] = flow.epochs
                    /\ \E i \in 1 .. Size :
                         /\ batch.resp[i] = r /\ batch.uid[i] = GroupOf(r)
                         /\ batch.logp[i] = r /\ batch.score[i] = r
                         /\ batch.adv[i] = [own |-> r,
                                            group |-> {q \in 1 .. Size : GroupOf(q) = GroupOf(r)}]
  BY DEF LearnsEachRowOnce
<1>1. taught[r] = flow.epochs
  BY DEF FlowIInv, TaughtOK
<1>2. PICK resp : resp = batch.resp
  OBVIOUS
<1>3. /\ Enumerates(resp, 1 .. Size) /\ Len(resp) = Size
      /\ batch.uid = [i \in 1 .. Size |-> GroupOf(resp[i])]
      /\ batch.logp = resp /\ batch.score = resp /\ batch.adv = Advantages(batch.uid, resp)
  BY <1>2 DEF FlowIInv, ColumnsOK
<1>4. PICK i \in 1 .. Size : resp[i] = r
  BY <1>3 DEF Enumerates, Has
<1>5. batch.adv[i] = [own |-> r, group |-> {resp[j] : j \in {k \in 1 .. Size : batch.uid[k] = batch.uid[i]}}]
  BY <1>3, <1>4 DEF Advantages
<1>6. {resp[j] : j \in {k \in 1 .. Size : batch.uid[k] = batch.uid[i]}}
        = {q \in 1 .. Size : GroupOf(q) = GroupOf(r)}
  <2>1. \A k \in 1 .. Size : batch.uid[k] = GroupOf(resp[k]) /\ resp[k] \in 1 .. Size
    BY <1>3, ElementOfSeq DEF Enumerates
  <2>2. ASSUME NEW q \in 1 .. Size, GroupOf(q) = GroupOf(r)
        PROVE  \E j \in {k \in 1 .. Size : batch.uid[k] = batch.uid[i]} : q = resp[j]
    <3>1. PICK j \in 1 .. Size : resp[j] = q
      BY <1>3 DEF Enumerates, Has
    <3>2. batch.uid[j] = batch.uid[i]
      BY <1>4, <2>1, <2>2, <3>1
    <3> QED BY <3>1, <3>2
  <2>3. ASSUME NEW j \in 1 .. Size, batch.uid[j] = batch.uid[i]
        PROVE  resp[j] \in 1 .. Size /\ GroupOf(resp[j]) = GroupOf(r)
    BY <1>4, <2>1, <2>3
  <2> HIDE <1>3
  <2> QED BY <2>2, <2>3
<1>7. batch.uid[i] = GroupOf(r)
  BY <1>3, <1>4
<1> QED BY <1>1, <1>2, <1>3, <1>4, <1>5, <1>6, <1>7

(* When a training step is done, every response has been learned from once *)
(* per epoch, and its row holds its own group, log-probabilities, score    *)
(* and advantage: for any batch, lengths, workers, devices and division.   *)
THEOREM EachRowOnce == FlowSpec => []LearnsEachRowOnce
<1>1. FlowInit => FlowIInv
  BY FlowStarts
<1>2. FlowIInv /\ Lockstep /\ [FlowNext]_flowVars => FlowIInv'
  BY FlowKeeps
<1>3. FlowIInv => LearnsEachRowOnce
  BY ColumnsTell
<1>4. FlowInit => Lockstep
  BY LockstepStarts
<1> QED
  BY <1>1, <1>2, <1>3, <1>4, LockstepNext, PTL DEF FlowSpec
=============================================================================
