----------------------------- MODULE BatchFlow ------------------------------
(***************************************************************************)
(* The way of a batch through one step of the trainer: its prompts are     *)
(* repeated and divided among the agent loop workers, the responses are    *)
(* joined with the group ids the driver kept, the rows are reordered to    *)
(* balance the devices, rewards are computed beside the log-probabilities, *)
(* advantages come from the groups, and the devices learn from the rows.   *)
(* Columns that arrive at different times are joined by position alone.    *)
(*                                                                         *)
(* A device works through micro-batches.  A forward pass, an optimizer     *)
(* step and the choice of how many micro-batches there are take all        *)
(* devices together: none goes on before the others have come as far.      *)
(*                                                                         *)
(* Abstracted: a response, its log-probability and its score are named by  *)
(* the row of the generation batch they are of.                            *)
(***************************************************************************)
EXTENDS Integers, Sequences, FiniteSets, SequencesExt, Partitions, TokenLists

CONSTANT Flows \* the configurations, with the length each row turns out to have

\* chunk() asserts that its parts are equal.
ASSUME FlowAssumption ==
  \A f \in Flows :
    /\ {f.prompts, f.n, f.workers, f.devices, f.epochs} \subseteq Nat \ {0}
    /\ {f.mini, f.micro, f.logprobMicro, f.limit} \subseteq Nat \ {0}
    /\ {f.balance, f.async, f.parallel, f.dynamic} \subseteq BOOLEAN
    /\ f.len \in [1 .. f.prompts * f.n -> Nat]
    /\ \E c \in 1 .. f.prompts * f.n : f.prompts * f.n = c * f.workers
    /\ \E c \in 1 .. f.prompts * f.n : f.prompts * f.n = c * f.devices

VARIABLES
  flow,     \* the configuration
  driver,   \* where fit() is
  returned, \* the agent loop workers that returned, in that order
  batch,    \* the columns of the batch, <<>> before they are there
  future,   \* future_reward: the responses it is to score
  scored,   \* the asynchronous reward is done
  device,   \* what each device is doing
  taught    \* how often each response was learned from

flowVars == <<flow, driver, returned, batch, future, scored, device, taught>>

Size == flow.prompts * flow.n
Devices == 1 .. flow.devices
Workers == 1 .. flow.workers

-----------------------------------------------------------------------------
(* DataProto.                                                              *)

\* repeat(n, interleave=True)
Repeat(rows, n) == [i \in 1 .. Len(rows) * n |-> rows[((i - 1) \div n) + 1]]

\* chunk(): the c-th of so many equal parts.
Chunk(rows, chunks, c) ==
  LET size == Len(rows) \div chunks
  IN  SubSeq(rows, (c - 1) * size + 1, c * size)

\* split(): parts of one size, the last perhaps shorter.
Split(rows, size) ==
  [m \in 1 .. (Len(rows) + size - 1) \div size |->
     SubSeq(rows, (m - 1) * size + 1, IF m * size < Len(rows) THEN m * size ELSE Len(rows))]

\* reorder(), on every column there is.
Reorder(columns, order) ==
  [c \in DOMAIN columns |->
     IF columns[c] = <<>> THEN <<>> ELSE [i \in 1 .. Len(order) |-> columns[c][order[i]]]]

\* The rows of a part, sorted: so many are less than each.
Ascending(rows) ==
  [i \in 1 .. Cardinality(rows) |-> CHOOSE r \in rows : Cardinality({q \in rows : q < r}) = i - 1]

\* The rows of all parts one after the other.
InOrder(parts) == FlattenSeq([i \in DOMAIN parts |-> Ascending(parts[i])])

-----------------------------------------------------------------------------
(* Generation.                                                             *)

NoBatch == [uid |-> <<>>, resp |-> <<>>, logp |-> <<>>, score |-> <<>>, adv |-> <<>>]
Idle == [phase |-> "idle", minis |-> <<>>, mini |-> 0, count |-> 0, micros |-> <<>>, seen |-> <<>>]

FlowInit ==
  /\ flow \in Flows
  /\ driver = "generate" /\ returned = <<>>
  /\ batch = NoBatch /\ future = <<>> /\ scored = FALSE
  /\ device = [d \in Devices |-> Idle]
  /\ taught = [r \in 1 .. Size |-> 0]

\* One after the other without parallel_mode; within a worker asyncio.gather
\* keeps the order of its rows.
WorkerReturns(w) ==
  /\ driver = "generate"
  /\ w \notin Range(returned)
  /\ ~flow.parallel => \A v \in 1 .. w - 1 : v \in Range(returned)
  /\ returned' = Append(returned, w)
  /\ UNCHANGED <<flow, driver, batch, future, scored, device, taught>>

\* [mutant] the chunks are joined as they come in.
CollectAsReturned ==
  FlattenSeq([i \in 1 .. flow.workers |-> Chunk([r \in 1 .. Size |-> r], flow.workers, returned[i])])

\* concat() of what the workers returned.
Collected ==
  FlattenSeq([w \in Workers |-> Chunk([r \in 1 .. Size |-> r], flow.workers, w)])

GroupIds == Repeat([p \in 1 .. flow.prompts |-> p], flow.n)

CollectResponses ==
  /\ driver = "generate"
  /\ Range(returned) = Workers
  /\ batch' = [batch EXCEPT !.uid = GroupIds, !.resp = Collected]
  /\ driver' = IF flow.balance THEN "balance" ELSE "reward"
  /\ UNCHANGED <<flow, returned, future, scored, device, taught>>

\* _balance_batch: Balancing says how the parts are chosen.
Balance ==
  /\ driver = "balance"
  /\ \E parts \in PartitionsOf(1 .. Size, flow.devices, TRUE) :
       batch' = Reorder(batch, InOrder(parts))
  /\ driver' = "reward"
  /\ UNCHANGED <<flow, returned, future, scored, device, taught>>

-----------------------------------------------------------------------------
(* Work on the devices.                                                    *)

\* dispatch: device d gets its chunk of the rows, as the mini-batches it
\* works through; each is a sequence of positions in that chunk.
Given(minis) ==
  [d \in Devices |->
     [Idle EXCEPT !.phase = IF flow.dynamic THEN "count" ELSE "split",
                  !.minis = minis, !.mini = 1]]

Local == [i \in 1 .. Size \div flow.devices |-> i]

\* The row of the batch at position i of the chunk of device d.
RowAt(d, i) == (d - 1) * (Size \div flow.devices) + i

Mini(d) == device[d].minis[device[d].mini]

Lengths(d) == [i \in 1 .. Len(Mini(d)) |-> flow.len[batch.resp[RowAt(d, Mini(d)[i])]]]

\* rearrange_micro_batches: as many as the total length asks for, at most one a row.
Wanted(d) ==
  LET total == Sum(Lengths(d))
      asked == (total + flow.limit - 1) \div flow.limit
  IN  IF asked < Len(Mini(d)) THEN asked ELSE Len(Mini(d))

\* [mutant] each device takes its own count.
OwnCount(d) == Wanted(d)

\* all_reduce(MAX)
AgreedCount(d) == Max({Wanted(e) : e \in Devices})

AgreeOnCount ==
  /\ \A d \in Devices : device[d].phase = "count"
  /\ device' = [d \in Devices |-> [device[d] EXCEPT !.phase = "split", !.count = AgreedCount(d)]]
  /\ UNCHANGED <<flow, driver, returned, batch, future, scored, taught>>

\* The micro-batches, as sequences of positions in the mini-batch: of any
\* division, which Balancing and the sorting by workload choose.
MicroBatches(d) ==
  LET positions == 1 .. Len(Mini(d))
      size == IF driver = "logprob" THEN flow.logprobMicro ELSE flow.micro
  IN  IF flow.dynamic
      THEN {[i \in 1 .. device[d].count |-> Ascending(parts[i])] :
              parts \in PartitionsOf(positions, device[d].count, FALSE)}
      ELSE {Split([i \in positions |-> i], size)}

SplitMini(d) ==
  /\ device[d].phase = "split"
  /\ \E micros \in MicroBatches(d) :
       device' = [device EXCEPT ![d].phase = "forward", ![d].micros = micros, ![d].seen = <<>>]
  /\ UNCHANGED <<flow, driver, returned, batch, future, scored, taught>>

\* One forward pass, and when learning one backward pass, of all devices.
Forward ==
  /\ \A d \in Devices : device[d].phase = "forward"
  /\ device' = [d \in Devices |->
       [device[d] EXCEPT
          !.seen = @ \o Head(device[d].micros),
          !.micros = Tail(@),
          !.phase = IF Len(device[d].micros) > 1 THEN "forward"
                    ELSE IF driver = "logprob" THEN "ended" ELSE "step"]]
  /\ UNCHANGED <<flow, driver, returned, batch, future, scored, taught>>

\* The rows of a mini-batch device d has accumulated the gradients of.
Accumulated(d) == [i \in 1 .. Len(device[d].seen) |-> batch.resp[RowAt(d, Mini(d)[device[d].seen[i]])]]

\* _optimizer_step, and on to the next mini-batch, or epoch.
OptimizerStep ==
  /\ \A d \in Devices : device[d].phase = "step"
  /\ taught' = [r \in 1 .. Size |->
       taught[r] + Cardinality({at \in Devices \X (1 .. Size) :
                                  at[2] <= Len(device[at[1]].seen) /\ Accumulated(at[1])[at[2]] = r})]
  /\ device' = [d \in Devices |->
       IF device[d].mini = Len(device[d].minis) THEN [device[d] EXCEPT !.phase = "ended"]
       ELSE [device[d] EXCEPT !.phase = IF flow.dynamic THEN "count" ELSE "split", !.mini = @ + 1]]
  /\ UNCHANGED <<flow, driver, returned, batch, future, scored>>

AllEnded == \A d \in Devices : device[d].phase = "ended"

-----------------------------------------------------------------------------
(* The rest of the step.                                                   *)

\* The log-probabilities of device d as its micro-batches gave them.
Computed(d) == [j \in 1 .. Len(device[d].seen) |-> batch.resp[RowAt(d, device[d].seen[j])]]

\* restore_dynamic_batch: by position, through the reverse of the indices.
Restored(d) ==
  [i \in 1 .. Len(device[d].seen) |->
     Computed(d)[CHOOSE j \in 1 .. Len(device[d].seen) : device[d].seen[j] = i]]

\* The rewards are computed now, or launched; the log-probabilities follow.
Reward ==
  /\ driver = "reward"
  /\ IF flow.async THEN future' = batch.resp /\ UNCHANGED batch
     ELSE batch' = [batch EXCEPT !.score = batch.resp] /\ UNCHANGED future
  /\ driver' = "logprob"
  /\ device' = Given(<<Local>>)
  /\ UNCHANGED <<flow, returned, scored, taught>>

RewardEnds ==
  /\ future # <<>> /\ ~scored
  /\ scored' = TRUE
  /\ UNCHANGED <<flow, driver, returned, batch, future, device, taught>>

\* collect: the results in the order of the devices, whichever ends first.
CollectLogProbs ==
  /\ driver = "logprob" /\ AllEnded
  /\ batch' = [batch EXCEPT !.logp = FlattenSeq([d \in Devices |-> Restored(d)])]
  /\ driver' = "advantage"
  /\ device' = [d \in Devices |-> Idle]
  /\ UNCHANGED <<flow, returned, future, scored, taught>>

\* compute_grpo_outcome_advantage: a score against those of its group.
Advantages(uid, score) ==
  [i \in 1 .. Size |->
     [own |-> score[i], group |-> {score[j] : j \in {k \in 1 .. Size : uid[k] = uid[i]}}]]

Advantage ==
  /\ driver = "advantage"
  /\ flow.async => scored
  /\ LET score == IF flow.async THEN future ELSE batch.score
     IN  batch' = [batch EXCEPT !.score = score, !.adv = Advantages(batch.uid, score)]
  /\ driver' = "update"
  /\ device' = Given(FlattenSeq([e \in 1 .. flow.epochs |-> Split(Local, flow.mini)]))
  /\ UNCHANGED <<flow, returned, future, scored, taught>>

CollectUpdate ==
  /\ driver = "update" /\ AllEnded
  /\ driver' = "done"
  /\ device' = [d \in Devices |-> Idle]
  /\ UNCHANGED <<flow, returned, batch, future, scored, taught>>

FlowNext ==
  \/ \E w \in Workers : WorkerReturns(w)
  \/ CollectResponses \/ Balance
  \/ Reward \/ RewardEnds \/ CollectLogProbs \/ Advantage \/ CollectUpdate
  \/ AgreeOnCount \/ Forward \/ OptimizerStep
  \/ \E d \in Devices : SplitMini(d)

FlowSpec == FlowInit /\ [][FlowNext]_flowVars

-----------------------------------------------------------------------------
GroupOf(r) == ((r - 1) \div flow.n) + 1

(* A batch is learned from as it was generated: every response exactly     *)
(* once per epoch, by one device, with its own log-probabilities and score *)
(* and an advantage over the responses to its own prompt, whatever order   *)
(* workers, rewards and micro-batches came in and however rows were moved. *)
LearnsEachRowOnce ==
  driver = "done" =>
    \A r \in 1 .. Size :
      /\ taught[r] = flow.epochs
      /\ \E i \in 1 .. Size :
           /\ batch.resp[i] = r /\ batch.uid[i] = GroupOf(r)
           /\ batch.logp[i] = r /\ batch.score[i] = r
           /\ batch.adv[i] = [own |-> r, group |-> {q \in 1 .. Size : GroupOf(q) = GroupOf(r)}]

(* No device waits in a collective that another will not enter: one that   *)
(* is to agree on a count or to make a forward pass is never met by one    *)
(* that has none left in its mini-batch.                                   *)
NoDeviceLeftBehind ==
  \A d, e \in Devices :
    device[d].phase \in {"count", "split", "forward"} => device[e].phase \notin {"step", "ended"}

-----------------------------------------------------------------------------
(* The inductive invariant behind the theorems of TrainingProofs.          *)

Has(s, x) == \E k \in 1 .. Len(s) : s[k] = x
Distinct(s) == \A k, l \in 1 .. Len(s) : s[k] = s[l] => k = l

\* s has each element of S once.
Enumerates(s, S) == s \in Seq(S) /\ Distinct(s) /\ \A x \in S : Has(s, x)

\* Each element of S is once in seen or in one of the micro-batches to go.
Divides(seen, micros, S) ==
  /\ seen \in Seq(S) /\ Distinct(seen)
  /\ micros \in Seq(Seq(S)) /\ \A i \in 1 .. Len(micros) : Distinct(micros[i])
  /\ \A x \in S : Has(seen, x) \/ \E i \in 1 .. Len(micros) : Has(micros[i], x)
  /\ \A x \in S : \A i \in 1 .. Len(micros) : Has(micros[i], x) =>
       /\ ~Has(seen, x)
       /\ \A j \in 1 .. Len(micros) : Has(micros[j], x) => i = j

\* The columns say of each row what belongs to its response.
ColumnsOK ==
  /\ DOMAIN batch = {"uid", "resp", "logp", "score", "adv"}
  /\ driver = "generate" => batch = NoBatch
  /\ driver # "generate" =>
       /\ Enumerates(batch.resp, 1 .. Size) /\ Len(batch.resp) = Size
       /\ batch.uid = [i \in 1 .. Size |-> GroupOf(batch.resp[i])]
  /\ driver \in {"balance", "reward"} =>
       batch.logp = <<>> /\ batch.score = <<>> /\ batch.adv = <<>>
  /\ driver \in {"logprob", "advantage"} =>
       (IF flow.async THEN future ELSE batch.score) = batch.resp
  /\ driver \in {"advantage", "update", "done"} => batch.logp = batch.resp
  /\ driver \in {"update", "done"} =>
       batch.score = batch.resp /\ batch.adv = Advantages(batch.uid, batch.resp)

Minis == Split(Local, flow.mini)

\* What a device has seen and has to see is its mini-batch.
DevicesOK ==
  /\ driver = "logprob" =>
       \A d \in Devices : device[d].minis = <<Local>> /\ device[d].mini = 1
  /\ driver = "update" =>
       \A d \in Devices : /\ device[d].minis = FlattenSeq([e \in 1 .. flow.epochs |-> Minis])
                           /\ device[d].mini \in 1 .. Len(device[d].minis)
  /\ \A d \in Devices :
       /\ device[d].phase \in {"split", "forward"} /\ flow.dynamic => device[d].count \in Nat
       /\ device[d].phase = "forward" =>
            /\ Len(device[d].micros) > 0
            /\ Divides(device[d].seen, device[d].micros, 1 .. Len(Mini(d)))
       /\ device[d].phase = "step" => driver = "update"
       /\ device[d].phase = "step" \/ (device[d].phase = "ended" /\ driver = "logprob") =>
            Enumerates(device[d].seen, 1 .. Len(Mini(d)))

\* Mini-batches device d is through with, over all epochs.
Through(d) ==
  IF device[d].phase = "ended" THEN Len(device[d].minis) ELSE device[d].mini - 1

\* After e epochs and p mini-batches of the next.
TaughtOK ==
  /\ taught \in [1 .. Size -> Nat]
  /\ driver \notin {"update", "done"} => \A r \in 1 .. Size : taught[r] = 0
  /\ driver = "update" =>
       \E e \in 0 .. flow.epochs, p \in 0 .. Len(Minis) - 1 : \A d \in Devices :
         /\ Through(d) = e * Len(Minis) + p
         /\ \A i \in 1 .. Len(Local) :
              taught[batch.resp[RowAt(d, i)]]
                = IF \E m \in 1 .. p : Has(Minis[m], i) THEN e + 1 ELSE e
  /\ driver = "done" => \A r \in 1 .. Size : taught[r] = flow.epochs

FlowIInv == flow \in Flows /\ ColumnsOK /\ DevicesOK /\ TaughtOK
=============================================================================
