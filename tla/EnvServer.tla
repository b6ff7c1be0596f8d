------------------------------ MODULE EnvServer ------------------------------
(***************************************************************************)
(* The ScienceWorld environment server: a FastAPI process that owns a pool *)
(* of at most PoolSize game environments.                                  *)
(*                                                                         *)
(* Every HTTP call becomes a job (coroutine, future) on one of two queues  *)
(* of the PriorityScheduler; a fixed set of asyncio workers takes the next *)
(* job, high queue first, and stays with it until it has an answer.  What  *)
(* blocks inside the job blocks its worker: the pool semaphore for a       *)
(* create, an executor thread for the game code.  The event loop is single *)
(* threaded, so an action here is what runs between two awaits.            *)
(*                                                                         *)
(* Abstracted: what a game computes, the JSON of requests and replies, and *)
(* the monitor pages, which only read.  An environment is named by the     *)
(* create request that made it (the code draws a fresh uuid).              *)
(***************************************************************************)
EXTENDS Naturals, Sequences, FiniteSets

CONSTANTS
  Reqs,       \* requests the callers may make, each used at most once
  Workers,    \* scheduler workers
  NoJob,      \* a worker's job when it has none
  PoolSize,   \* slots of the pool
  MaxCreates  \* create requests the callers leave unanswered at any time

\* The executor has as many threads as there are workers, so that a job that
\* needs a thread never waits for one.
ASSUME ServerAssumption ==
  /\ IsFiniteSet(Reqs)
  /\ IsFiniteSet(Workers)
  /\ NoJob \notin Reqs
  /\ PoolSize \in Nat \ {0}
  /\ Cardinality(Workers) = 2 * PoolSize
  /\ MaxCreates \in Nat

VARIABLES
  kind,     \* what each request asks for
  target,   \* the environment each request names
  stage,    \* how far each request has got
  high,     \* the queue of operations on existing environments
  low,      \* the queue of creates
  worker,   \* the job each worker is in
  waiters,  \* creates waiting on the pool semaphore, first come first served
  slots,    \* the value of the pool semaphore
  envs,     \* the registered environments
  running   \* the scheduler has not been stopped

queueVars == <<high, low>>
poolVars  == <<waiters, slots, envs>>
vars == <<kind, target, stage, high, low, worker, waiters, slots, envs, running>>

\* "use" is reset, reset_state or step, which run in the executor; "read" is
\* observe or get_key_stats, which answer at once.
Kinds == {"create", "use", "read", "close"}

\* "thread" is a job whose code runs in the executor; a request "dropped" is
\* one whose future is never resolved; "orphan" is a create whose thread
\* outlives the worker that would have registered its environment.
Stages == {"unsent", "queued", "blocked", "thread",
           "ok", "missing", "error", "dropped", "orphan"}
Answered == {"ok", "missing", "error"}

CreatesIn(st) == {r \in Reqs : kind[r] = "create" /\ stage[r] \in st}
ClosesIn(st)  == {r \in Reqs : kind[r] = "close" /\ stage[r] \in st}

PendingCreates == CreatesIn({"queued", "blocked", "thread"})
Creating == CreatesIn({"thread"})
Closing  == ClosesIn({"thread"})
Orphans  == CreatesIn({"orphan"})

\* The environment ids callers have been told.
KnownEnvs == CreatesIn({"ok"})

Init ==
  /\ kind = [r \in Reqs |-> "create"]
  /\ target = [r \in Reqs |-> r]
  /\ stage = [r \in Reqs |-> "unsent"]
  /\ high = <<>>
  /\ low = <<>>
  /\ worker = [w \in Workers |-> NoJob]
  /\ waiters = <<>>
  /\ slots = PoolSize
  /\ envs = {}
  /\ running = TRUE

-----------------------------------------------------------------------------
(* Handlers put their job on a queue and wait for its future.              *)

\* [mutant] callers that do not limit how many creates they leave waiting.
SubmitLowUnbounded(r) ==
  /\ running
  /\ stage[r] = "unsent"
  /\ kind' = [kind EXCEPT ![r] = "create"]
  /\ target' = [target EXCEPT ![r] = r]
  /\ stage' = [stage EXCEPT ![r] = "queued"]
  /\ low' = Append(low, r)
  /\ UNCHANGED <<high, worker, poolVars, running>>

SubmitLow(r) ==
  /\ running
  /\ stage[r] = "unsent"
  /\ Cardinality(PendingCreates) < MaxCreates
  /\ kind' = [kind EXCEPT ![r] = "create"]
  /\ target' = [target EXCEPT ![r] = r]
  /\ stage' = [stage EXCEPT ![r] = "queued"]
  /\ low' = Append(low, r)
  /\ UNCHANGED <<high, worker, poolVars, running>>

SubmitHigh(r) ==
  /\ running
  /\ stage[r] = "unsent"
  /\ \E k \in Kinds \ {"create"}, e \in KnownEnvs :
       /\ kind' = [kind EXCEPT ![r] = k]
       /\ target' = [target EXCEPT ![r] = e]
  /\ stage' = [stage EXCEPT ![r] = "queued"]
  /\ high' = Append(high, r)
  /\ UNCHANGED <<low, worker, poolVars, running>>

-----------------------------------------------------------------------------
(* A free worker takes the next job and runs it up to its first wait.      *)

HasJob == high # <<>> \/ low # <<>>

NextJob == IF high # <<>> THEN Head(high) ELSE Head(low)

TakeJob(w) ==
  /\ running
  /\ worker[w] = NoJob
  /\ HasJob
  /\ IF high # <<>> THEN high' = Tail(high) /\ UNCHANGED low
                    ELSE low' = Tail(low) /\ UNCHANGED high
  /\ UNCHANGED <<kind, target, running>>

\* The job keeps its worker, waiting in stage st.
KeepWorker(w, st) ==
  /\ worker' = [worker EXCEPT ![w] = NextJob]
  /\ stage' = [stage EXCEPT ![NextJob] = st]

\* [mutant] a create that does not wait for a slot.
StartCreateAtOnce(w) ==
  /\ TakeJob(w)
  /\ kind[NextJob] = "create"
  /\ KeepWorker(w, "thread")
  /\ slots' = slots - 1
  /\ UNCHANGED <<waiters, envs>>

\* A create first acquires a slot of the pool, inside the worker.
StartCreate(w) ==
  /\ TakeJob(w)
  /\ kind[NextJob] = "create"
  /\ IF slots > 0
       THEN /\ KeepWorker(w, "thread")
            /\ slots' = slots - 1
            /\ UNCHANGED waiters
       ELSE /\ KeepWorker(w, "blocked")
            /\ waiters' = Append(waiters, NextJob)
            /\ UNCHANGED slots
  /\ UNCHANGED envs

StartUse(w) ==
  /\ TakeJob(w)
  /\ kind[NextJob] = "use"
  /\ target[NextJob] \in envs
  /\ KeepWorker(w, "thread")
  /\ UNCHANGED poolVars

\* Observing an environment that was never reset raises.
AnswerRead(w) ==
  /\ TakeJob(w)
  /\ kind[NextJob] = "read"
  /\ target[NextJob] \in envs
  /\ \E a \in {"ok", "error"} : stage' = [stage EXCEPT ![NextJob] = a]
  /\ UNCHANGED <<worker, poolVars>>

\* [mutant] a close that does not look the environment up.
StartCloseUnchecked(w) ==
  /\ TakeJob(w)
  /\ kind[NextJob] = "close"
  /\ envs' = envs \ {target[NextJob]}
  /\ KeepWorker(w, "thread")
  /\ UNCHANGED <<waiters, slots>>

\* A close takes the environment out of the table before it waits, and gives
\* the slot back only when the game is down.
StartClose(w) ==
  /\ TakeJob(w)
  /\ kind[NextJob] = "close"
  /\ target[NextJob] \in envs
  /\ envs' = envs \ {target[NextJob]}
  /\ KeepWorker(w, "thread")
  /\ UNCHANGED <<waiters, slots>>

AnswerMissing(w) ==
  /\ TakeJob(w)
  /\ kind[NextJob] # "create"
  /\ target[NextJob] \notin envs
  /\ stage' = [stage EXCEPT ![NextJob] = "missing"]
  /\ UNCHANGED <<worker, poolVars>>

-----------------------------------------------------------------------------
(* The executor thread of a worker's job is done.                          *)

\* [mutant] a worker that does not come back from its job.
InThreadForGood(w, k) ==
  /\ running
  /\ worker[w] # NoJob
  /\ kind[worker[w]] = k
  /\ stage[worker[w]] = "thread"
  /\ UNCHANGED <<kind, target, queueVars, worker, running>>

InThread(w, k) ==
  /\ running
  /\ worker[w] # NoJob
  /\ kind[worker[w]] = k
  /\ stage[worker[w]] = "thread"
  /\ worker' = [worker EXCEPT ![w] = NoJob]
  /\ UNCHANGED <<kind, target, queueVars, running>>

\* [mutant] a slot handed to the youngest waiter.
ReleaseSlotToYoungest(r, answer) ==
  IF waiters # <<>>
    THEN /\ stage' = [stage EXCEPT ![r] = answer,
                                   ![waiters[Len(waiters)]] = "thread"]
         /\ waiters' = SubSeq(waiters, 1, Len(waiters) - 1)
         /\ UNCHANGED slots
    ELSE /\ stage' = [stage EXCEPT ![r] = answer]
         /\ slots' = slots + 1
         /\ UNCHANGED waiters

\* Job r is answered and its slot released: asyncio's semaphore hands it to
\* the first waiter, if there is one, without raising its value.
ReleaseSlot(r, answer) ==
  IF waiters # <<>>
    THEN /\ stage' = [stage EXCEPT ![r] = answer, ![Head(waiters)] = "thread"]
         /\ waiters' = Tail(waiters)
         /\ UNCHANGED slots
    ELSE /\ stage' = [stage EXCEPT ![r] = answer]
         /\ slots' = slots + 1
         /\ UNCHANGED waiters

FinishCreate(w) ==
  /\ InThread(w, "create")
  /\ envs' = envs \cup {worker[w]}
  /\ stage' = [stage EXCEPT ![worker[w]] = "ok"]
  /\ UNCHANGED <<waiters, slots>>

\* [mutant] a failed create that keeps its slot.
FailCreateKeepingSlot(w) ==
  /\ InThread(w, "create")
  /\ stage' = [stage EXCEPT ![worker[w]] = "error"]
  /\ UNCHANGED poolVars

FailCreate(w) ==
  /\ InThread(w, "create")
  /\ ReleaseSlot(worker[w], "error")
  /\ UNCHANGED envs

FinishUse(w) ==
  /\ InThread(w, "use")
  /\ \E a \in {"ok", "error"} : stage' = [stage EXCEPT ![worker[w]] = a]
  /\ UNCHANGED poolVars

\* An error while closing is swallowed.
FinishClose(w) ==
  /\ InThread(w, "close")
  /\ ReleaseSlot(worker[w], "ok")
  /\ UNCHANGED envs

-----------------------------------------------------------------------------
(* Shutdown cancels every worker.  A cancelled create keeps its slot (only *)
(* Exception is caught), a cancelled close gives it back (finally), and    *)
(* the futures of all unanswered jobs stay unresolved.  What is still      *)
(* registered is closed.                                                   *)

Stop ==
  /\ running
  /\ running' = FALSE
  /\ worker' = [w \in Workers |-> NoJob]
  /\ stage' = [r \in Reqs |->
       IF r \in Creating THEN "orphan"
       ELSE IF stage[r] \in {"queued", "blocked", "thread"} THEN "dropped"
       ELSE stage[r]]
  /\ waiters' = <<>>
  /\ slots' = slots + Cardinality(Closing)
  /\ envs' = {}
  /\ UNCHANGED <<kind, target, queueVars>>

WorkerStep(w) ==
  \/ StartCreate(w) \/ StartUse(w) \/ AnswerRead(w) \/ StartClose(w)
  \/ AnswerMissing(w)

ThreadStep(w) ==
  FinishCreate(w) \/ FailCreate(w) \/ FinishUse(w) \/ FinishClose(w)

Next ==
  \/ \E r \in Reqs : SubmitLow(r) \/ SubmitHigh(r)
  \/ \E w \in Workers : WorkerStep(w) \/ ThreadStep(w)
  \/ Stop

Spec == Init /\ [][Next]_vars

\* The event loop keeps polling and the game code returns.
Fairness == \A w \in Workers : WF_vars(WorkerStep(w)) /\ WF_vars(ThreadStep(w))

FairSpec == Spec /\ Fairness

-----------------------------------------------------------------------------
TypeOK ==
  /\ kind \in [Reqs -> Kinds]
  /\ target \in [Reqs -> Reqs]
  /\ stage \in [Reqs -> Stages]
  /\ high \in Seq(Reqs)
  /\ low \in Seq(Reqs)
  /\ worker \in [Workers -> Reqs \cup {NoJob}]
  /\ waiters \in Seq(Reqs)
  /\ slots \in 0 .. PoolSize
  /\ envs \subseteq Reqs
  /\ running \in BOOLEAN

\* Slots are neither lost nor minted: a slot is free, or held by exactly one
\* environment that is being created, is registered or is being closed.  This
\* spans the acquire of _do_create_env, its release when the game fails to
\* start, and the release of _do_close_env however the close went.
SlotAccounting ==
  running => slots + Cardinality(envs) + Cardinality(Creating)
                   + Cardinality(Closing) = PoolSize

\* An environment is taken down once: of all closes of it that were sent, at
\* most one ever got hold of the game (the others are answered 404).
ClosedOnce ==
  \A r, s \in ClosesIn({"thread", "ok"}) : target[r] = target[s] => r = s

\* A worker starved by creates never serves the closes that would free slots.
\* As long as callers keep fewer creates unanswered than there are workers,
\* some worker is not waiting on the pool semaphore.
SomeWorkerUnblocked ==
  MaxCreates < Cardinality(Workers) =>
    \E w \in Workers : worker[w] = NoJob \/ stage[worker[w]] # "blocked"

\* A server whose workers all wait on the semaphore answers nothing any more,
\* whatever is sent to it: only a shutdown ends that.
Starved ==
  running /\ \A w \in Workers : worker[w] # NoJob /\ stage[worker[w]] = "blocked"

StarvedForGood ==
  [][Starved /\ running' =>
       /\ Starved'
       /\ \A r \in Reqs : stage[r] # "unsent" => stage'[r] = stage[r]]_vars

\* The life of the environment of create r, as a caller of the pool sees it.
BeingClosed == {target[c] : c \in Closing}

PhaseOf(r) ==
  IF kind[r] = "create" /\ stage[r] = "thread" THEN "starting"
  ELSE IF r \in envs THEN "live"
  ELSE IF r \in BeingClosed THEN "ending"
  ELSE IF kind[r] = "create" /\ stage[r] \in {"ok", "error", "orphan"}
    THEN "gone"
  ELSE "none"

Pool == INSTANCE EnvPool WITH
  Envs <- Reqs, phase <- [r \in Reqs |-> PhaseOf(r)], up <- running

\* The server is a pool: every step of the queues, workers and semaphore is a
\* step of EnvPool or changes no environment's life.
ImplementsPool == Pool!PoolSpec

\* Slots go to creates in the order they were submitted, across the low queue
\* and the semaphore's own line: no create overtakes an older one.
SlotsInOrder ==
  [][\A r \in Reqs :
       (kind[r] = "create" /\ stage[r] \in {"queued", "blocked"}
          /\ stage'[r] = "thread")
         => r = Head(waiters \o low)]_vars

\* Every operation on an existing environment is answered while the server
\* runs: operations run before creates and free slots for them.
OperationsAnswered ==
  \A r \in Reqs :
    (kind[r] # "create" /\ stage[r] = "queued")
      ~> (stage[r] \in Answered \/ ~running)
-----------------------------------------------------------------------------
(* The inductive invariant behind the theorems of EnvServerProofs.         *)

\* Line q holds distinct requests of kinds ks, all in stage st, under the
\* kinds k and stages s.
LineOf(q, k, s, ks, st) ==
  /\ \A i \in 1 .. Len(q) : k[q[i]] \in ks /\ s[q[i]] = st
  /\ \A i, j \in 1 .. Len(q) : q[i] = q[j] => i = j

LinesOK ==
  running =>
    /\ LineOf(high, kind, stage, Kinds \ {"create"}, "queued")
    /\ LineOf(low, kind, stage, {"create"}, "queued")
    /\ LineOf(waiters, kind, stage, {"create"}, "blocked")

WorkersOK ==
  /\ \A w \in Workers :
       worker[w] # NoJob => stage[worker[w]] \in {"blocked", "thread"}
  /\ \A v, w \in Workers : worker[v] = worker[w] /\ worker[v] # NoJob => v = w

\* Only creates wait on the semaphore.
BlockedOK == \A r \in Reqs : stage[r] = "blocked" => kind[r] = "create"

EnvsOK ==
  /\ \A e \in envs : kind[e] = "create" /\ stage[e] = "ok"
  /\ \A r \in Reqs : stage[r] # "unsent" /\ kind[r] # "create"
       => kind[target[r]] = "create" /\ stage[target[r]] = "ok"
  /\ \A c \in ClosesIn({"thread", "ok"}) : target[c] \notin envs

\* Nobody waits for a slot while there is one.
NoIdleSlot == running => (waiters # <<>> => slots = 0)

\* The bound the callers keep.
CallersOK == Cardinality(PendingCreates) <= MaxCreates

IInv ==
  /\ TypeOK /\ SlotAccounting /\ ClosedOnce
  /\ LinesOK /\ WorkersOK /\ BlockedOK /\ EnvsOK /\ NoIdleSlot /\ CallersOK
=============================================================================
