---------------------------- MODULE Checkpoints -----------------------------
(***************************************************************************)
(* What its checkpoints promise a training job, with no files and no       *)
(* ranks: a save keeps all that was learned, at one instant, and a job     *)
(* that starts has learned exactly what was kept.  A job may be lost at    *)
(* any time; what was kept is lost with it only while the next save is     *)
(* about to replace it.  Trainer implements it.                            *)
(***************************************************************************)
EXTENDS Naturals

CONSTANTS
  Parts,  \* parts of the model
  Tunes   \* the actor is fine-tuned before it is trained

VARIABLES
  memory,  \* what the job that runs has learned; empty if none runs
  tuned,   \* its actor needs no fine-tuning any more
  kept,    \* what a job would start with; empty if it is lost
  refused  \* a job found that it is lost

checkpointVars == <<memory, tuned, kept, refused>>

Untrained == [position |-> 0, updates |-> [p \in Parts |-> 0], sft |-> 0]

CheckpointInit ==
  /\ memory = {} /\ tuned = FALSE
  /\ kept = {Untrained}
  /\ refused = FALSE

Begin ==
  /\ memory = {} /\ kept # {} /\ ~refused
  /\ memory' = kept /\ tuned' = ~Tunes
  /\ UNCHANGED <<kept, refused>>

\* Only what is lost keeps a job from starting, and then every job.
Refuse ==
  /\ memory = {} /\ kept = {} /\ ~refused
  /\ refused' = TRUE
  /\ UNCHANGED <<memory, tuned, kept>>

\* After one batch more each part has had at most one update more, an actor
\* that waits for its fine-tuning none; it is fine-tuned once in a job.
Learnt(m, updated, rounds) ==
  [position |-> m.position + 1,
   updates |-> [p \in Parts |-> IF p \in updated THEN m.updates[p] + 1 ELSE m.updates[p]],
   sft |-> m.sft + rounds]

Learn ==
  /\ kept # {}
  /\ \E m \in memory, updated \in SUBSET Parts, rounds \in {0, 1} :
       /\ tuned \/ "actor" \notin updated
       /\ rounds = 1 => ~tuned
       /\ memory' = {Learnt(m, updated, rounds)}
       /\ tuned' = (tuned \/ rounds = 1)
  /\ UNCHANGED <<kept, refused>>

\* What was kept is replaced by something later, and not before that is ready.
Replace ==
  /\ \E m \in memory, k \in kept : k.position < m.position
  /\ kept' = {}
  /\ UNCHANGED <<memory, tuned, refused>>

Ended == memory' = {} /\ tuned' = FALSE

Save ==
  /\ memory # {} /\ kept = {}
  /\ kept' = memory
  /\ Ended \/ UNCHANGED <<memory, tuned>>
  /\ UNCHANGED refused

\* The job comes to its end, or to an untimely one.
End ==
  /\ memory # {}
  /\ Ended
  /\ UNCHANGED <<kept, refused>>

CheckpointNext == Begin \/ Refuse \/ Learn \/ Replace \/ Save \/ End

CheckpointSpec == CheckpointInit /\ [][CheckpointNext]_checkpointVars
=============================================================================
