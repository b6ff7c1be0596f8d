--------------------------- MODULE EnvServerProofs ---------------------------
(***************************************************************************)
(* Theorems about the environment server, for every set of requests, every *)
(* pool size and every bound on the creates.  The argument is one          *)
(* inductive invariant, IInv of EnvServer: each conjunct is shown to be    *)
(* kept by each step from what the step does to the sets of creating,      *)
(* registered and closing environments.                                    *)
(***************************************************************************)
EXTENDS EnvServer, FiniteSetTheorems, SequenceTheorems, TLAPS

-----------------------------------------------------------------------------
(* Queues.                                                                 *)

\* The code of asyncio.Queue.put: a new request joins a line at its end.
LEMMA LineAppend ==
  ASSUME NEW q \in Seq(Reqs), NEW r \in Reqs, NEW ks, NEW st,
         NEW k, NEW s, NEW k2, NEW s2,
         LineOf(q, k, s, ks, st),
         \A x \in Reqs : s[x] = st => s2[x] = st /\ k2[x] = k[x],
         s[r] # st, k2[r] \in ks, s2[r] = st
  PROVE  LineOf(Append(q, r), k2, s2, ks, st)
<1> DEFINE p == Append(q, r)
<1>1. /\ Len(q) \in Nat /\ \A i \in 1 .. Len(q) : q[i] \in Reqs
      /\ p \in Seq(Reqs)
      /\ Len(p) = Len(q) + 1 /\ p[Len(q) + 1] = r
      /\ \A i \in 1 .. Len(q) : p[i] = q[i]
  BY AppendProperties, LenProperties, ElementOfSeq
<1>2. \A i \in 1 .. Len(p) :
        \/ i \in 1 .. Len(q) /\ p[i] = q[i]
        \/ i = Len(q) + 1 /\ p[i] = r
  BY <1>1
<1>3. \A i \in 1 .. Len(q) : q[i] # r /\ s2[q[i]] = st /\ k2[q[i]] \in ks
  BY <1>1 DEF LineOf
<1> HIDE DEF p
<1>4. \A i \in 1 .. Len(p) : k2[p[i]] \in ks /\ s2[p[i]] = st
  BY <1>2, <1>3
<1>5. \A i, j \in 1 .. Len(p) : p[i] = p[j] => i = j
  BY <1>2, <1>3 DEF LineOf
<1> QED BY <1>1, <1>4, <1>5 DEF LineOf, p

\* The head of a line is one of its requests ...
LEMMA LineHead ==
  ASSUME NEW q \in Seq(Reqs), NEW ks, NEW st, NEW k, NEW s,
         LineOf(q, k, s, ks, st), q # <<>>
  PROVE  Head(q) \in Reqs /\ k[Head(q)] \in ks /\ s[Head(q)] = st
<1>1. /\ Len(q) \in Nat \ {0} /\ Head(q) \in Reqs /\ Head(q) = q[1]
  BY HeadTailProperties, EmptySeq
<1>2. 1 \in 1 .. Len(q)
  BY <1>1
<1> QED BY <1>1, <1>2 DEF LineOf

\* ... and leaves it.
LEMMA LineTail ==
  ASSUME NEW q \in Seq(Reqs), NEW ks, NEW st, NEW k, NEW s, NEW s2,
         LineOf(q, k, s, ks, st), q # <<>>,
         \A x \in Reqs : x # Head(q) /\ s[x] = st => s2[x] = st
  PROVE  LineOf(Tail(q), k, s2, ks, st)
<1>1. /\ Len(q) \in Nat \ {0} /\ \A i \in 1 .. Len(q) : q[i] \in Reqs
      /\ Head(q) \in Reqs /\ Head(q) = q[1]
      /\ Tail(q) \in Seq(Reqs) /\ Len(Tail(q)) = Len(q) - 1
      /\ \A i \in 1 .. Len(Tail(q)) : Tail(q)[i] = q[i + 1]
  BY HeadTailProperties, EmptySeq, ElementOfSeq
<1>2. \A i \in 1 .. Len(Tail(q)) : i + 1 \in 1 .. Len(q) /\ i + 1 # 1
  BY <1>1
<1>3. 1 \in 1 .. Len(q)
  BY <1>1
<1>4. \A i \in 1 .. Len(Tail(q)) : q[i + 1] # Head(q)
  BY <1>1, <1>2, <1>3 DEF LineOf
<1>5. \A i \in 1 .. Len(Tail(q)) :
        k[Tail(q)[i]] \in ks /\ s2[Tail(q)[i]] = st
  BY <1>1, <1>2, <1>4 DEF LineOf
<1>6. ASSUME NEW i \in 1 .. Len(Tail(q)), NEW j \in 1 .. Len(Tail(q)),
             Tail(q)[i] = Tail(q)[j]
      PROVE  i = j
  <2>1. q[i + 1] = q[j + 1]
    BY <1>1, <1>6
  <2>2. i + 1 = j + 1
    BY <2>1, <1>2 DEF LineOf
  <2> QED BY <2>2, <1>1
<1> QED BY <1>1, <1>5, <1>6 DEF LineOf

\* A line is not touched by what happens to requests outside it.
LEMMA LineKeep ==
  ASSUME NEW q \in Seq(Reqs), NEW ks, NEW st,
         NEW k, NEW s, NEW k2, NEW s2,
         LineOf(q, k, s, ks, st),
         \A x \in Reqs : s[x] = st => s2[x] = st /\ k2[x] = k[x]
  PROVE  LineOf(q, k2, s2, ks, st)
<1>1. \A i \in 1 .. Len(q) : q[i] \in Reqs
  BY ElementOfSeq
<1> QED BY <1>1 DEF LineOf

-----------------------------------------------------------------------------
(* Sizes.                                                                  *)

LEMMA AddOne ==
  ASSUME NEW S, IsFiniteSet(S), NEW x, x \notin S
  PROVE  /\ IsFiniteSet(S \cup {x}) /\ Cardinality(S) \in Nat
         /\ Cardinality(S \cup {x}) = Cardinality(S) + 1
BY FS_AddElement, FS_CardinalityType

LEMMA RemoveOne ==
  ASSUME NEW S, IsFiniteSet(S), NEW x \in S
  PROVE  /\ IsFiniteSet(S \ {x}) /\ Cardinality(S \ {x}) \in Nat
         /\ Cardinality(S) = Cardinality(S \ {x}) + 1
<1>1. IsFiniteSet(S \ {x}) /\ Cardinality(S \ {x}) = Cardinality(S) - 1
  BY FS_RemoveElement
<1>2. Cardinality(S) \in Nat /\ Cardinality(S \ {x}) \in Nat
  BY <1>1, FS_CardinalityType
<1> QED BY <1>1, <1>2

LEMMA UnionBound ==
  ASSUME NEW S, IsFiniteSet(S), NEW T, IsFiniteSet(T)
  PROVE  /\ IsFiniteSet(S \cup T)
         /\ Cardinality(S \cup T) <= Cardinality(S) + Cardinality(T)
<1>1. /\ IsFiniteSet(S \cup T)
      /\ Cardinality(S \cup T) =
           Cardinality(S) + Cardinality(T) - Cardinality(S \cap T)
  BY FS_Union
<1>2. IsFiniteSet(S \cap T)
  BY FS_Intersection
<1>3. /\ Cardinality(S) \in Nat /\ Cardinality(T) \in Nat
      /\ Cardinality(S \cap T) \in Nat
  BY <1>2, FS_CardinalityType
<1> QED BY <1>1, <1>3

LEMMA Sizes ==
  ASSUME TypeOK
  PROVE  /\ IsFiniteSet(envs) /\ Cardinality(envs) \in Nat
         /\ IsFiniteSet(Creating) /\ Cardinality(Creating) \in Nat
         /\ IsFiniteSet(Closing) /\ Cardinality(Closing) \in Nat
         /\ IsFiniteSet(PendingCreates) /\ Cardinality(PendingCreates) \in Nat
         /\ slots \in Nat /\ PoolSize \in Nat /\ MaxCreates \in Nat
<1>1. IsFiniteSet(Reqs) /\ PoolSize \in Nat /\ MaxCreates \in Nat
  BY ServerAssumption
<1>2. slots \in Nat
  BY <1>1 DEF TypeOK
<1>3. /\ envs \subseteq Reqs /\ Creating \subseteq Reqs
      /\ Closing \subseteq Reqs /\ PendingCreates \subseteq Reqs
  BY DEF TypeOK, Creating, Closing, PendingCreates, CreatesIn, ClosesIn
<1>4. /\ IsFiniteSet(envs) /\ IsFiniteSet(Creating)
      /\ IsFiniteSet(Closing) /\ IsFiniteSet(PendingCreates)
  BY <1>1, <1>3, FS_Subset
<1> QED BY <1>1, <1>2, <1>4, FS_CardinalityType

\* The callers' bound survives a step that adds no unanswered create.
LEMMA FewerCreates ==
  ASSUME IInv, PendingCreates' \subseteq PendingCreates
  PROVE  CallersOK'
<1>1. IsFiniteSet(PendingCreates) /\ Cardinality(PendingCreates) \in Nat
  BY Sizes DEF IInv
<1>2. /\ IsFiniteSet(PendingCreates')
      /\ Cardinality(PendingCreates') <= Cardinality(PendingCreates)
  BY <1>1, FS_Subset
<1>3. Cardinality(PendingCreates') \in Nat
  BY <1>2, FS_CardinalityType
<1> QED BY <1>1, <1>2, <1>3, ServerAssumption DEF IInv, CallersOK

-----------------------------------------------------------------------------
(* One lemma per action: it keeps the inductive invariant.                 *)

LEMMA InitIInv == Init => IInv
<1> SUFFICES ASSUME Init PROVE IInv
  OBVIOUS
<1>1. TypeOK
  <2>1. <<>> \in Seq(Reqs)
    BY EmptySeq
  <2> QED BY <2>1, ServerAssumption DEF Init, TypeOK, Kinds, Stages
<1>2. /\ Creating = {} /\ Closing = {} /\ PendingCreates = {}
  BY DEF Init, Creating, Closing, PendingCreates, CreatesIn, ClosesIn
<1>3. SlotAccounting
  BY <1>2, FS_EmptySet, ServerAssumption DEF Init, SlotAccounting
<1>4. ClosedOnce /\ EnvsOK
  BY DEF Init, ClosedOnce, EnvsOK, ClosesIn
<1>5. LinesOK
  BY EmptySeq DEF Init, LinesOK, LineOf
<1>6. WorkersOK /\ BlockedOK /\ NoIdleSlot
  BY DEF Init, WorkersOK, BlockedOK, NoIdleSlot
<1>7. CallersOK
  BY <1>2, FS_EmptySet, ServerAssumption DEF CallersOK
<1> QED BY <1>1, <1>3, <1>4, <1>5, <1>6, <1>7 DEF IInv

LEMMA SubmitLowKeeps ==
  ASSUME IInv, NEW r \in Reqs, SubmitLow(r)
  PROVE  IInv'
<1>0. /\ TypeOK /\ running /\ stage[r] = "unsent"
      /\ low' = Append(low, r)
      /\ high' = high /\ worker' = worker /\ running' = running
      /\ waiters' = waiters /\ slots' = slots /\ envs' = envs
  BY DEF IInv, SubmitLow, poolVars
<1>a. /\ kind'[r] = "create" /\ stage'[r] = "queued" /\ target'[r] = r
      /\ \A x \in Reqs \ {r} :
           kind'[x] = kind[x] /\ stage'[x] = stage[x] /\ target'[x] = target[x]
      /\ kind' \in [Reqs -> Kinds] /\ target' \in [Reqs -> Reqs]
      /\ stage' \in [Reqs -> Stages]
  BY <1>0 DEF TypeOK, SubmitLow, Kinds, Stages
<1>b. /\ LineOf(low', kind', stage', {"create"}, "queued")
      /\ low' \in Seq(Reqs)
  <2>1. /\ low \in Seq(Reqs) /\ LineOf(low, kind, stage, {"create"}, "queued")
        /\ stage[r] # "queued" /\ kind'[r] \in {"create"} /\ stage'[r] = "queued"
    BY <1>0, <1>a DEF TypeOK, IInv, LinesOK
  <2>2. \A x \in Reqs :
          stage[x] = "queued" => stage'[x] = "queued" /\ kind'[x] = kind[x]
    BY <1>0, <1>a
  <2>3. LineOf(Append(low, r), kind', stage', {"create"}, "queued")
    BY <2>1, <2>2, LineAppend
  <2>4. Append(low, r) \in Seq(Reqs)
    BY <2>1, AppendProperties
  <2> QED BY <1>0, <2>3, <2>4
<1>1. TypeOK'
  BY <1>0, <1>a, <1>b DEF TypeOK
<1>2. Creating' = Creating /\ Closing' = Closing
  BY <1>0, <1>a DEF Creating, Closing, CreatesIn, ClosesIn
<1>3. SlotAccounting'
  BY <1>0, <1>2 DEF IInv, SlotAccounting
<1>4. ClosedOnce'
  BY <1>0, <1>a DEF IInv, ClosedOnce, ClosesIn
<1>5. LinesOK'
  <2>1. LineOf(high, kind', stage', Kinds \ {"create"}, "queued")
    BY <1>0, <1>a, LineKeep DEF TypeOK, IInv, LinesOK
  <2>2. LineOf(waiters, kind', stage', {"create"}, "blocked")
    BY <1>0, <1>a, LineKeep DEF TypeOK, IInv, LinesOK
  <2> QED BY <1>0, <2>1, <2>2, <1>b DEF LinesOK
<1>6. WorkersOK'
  BY <1>0, <1>a DEF IInv, TypeOK, WorkersOK
<1>7. EnvsOK'
  <2>1. \A e \in envs' : kind'[e] = "create" /\ stage'[e] = "ok"
    BY <1>0, <1>a DEF IInv, TypeOK, EnvsOK
  <2>2. ASSUME NEW x \in Reqs, stage'[x] # "unsent", kind'[x] # "create"
        PROVE  kind'[target'[x]] = "create" /\ stage'[target'[x]] = "ok"
    BY <1>0, <1>a, <2>2 DEF IInv, TypeOK, EnvsOK
  <2>3. \A c \in ClosesIn({"thread", "ok"})' : target'[c] \notin envs'
    BY <1>0, <1>a DEF IInv, TypeOK, EnvsOK, ClosesIn
  <2> QED BY <2>1, <2>2, <2>3 DEF EnvsOK
<1>8. NoIdleSlot'
  BY <1>0 DEF IInv, NoIdleSlot
<1>9. CallersOK'
  <2>1. PendingCreates' = PendingCreates \cup {r}
    BY <1>a, <1>0 DEF PendingCreates, CreatesIn
  <2>2. /\ IsFiniteSet(PendingCreates) /\ r \notin PendingCreates
        /\ MaxCreates \in Nat /\ Cardinality(PendingCreates) < MaxCreates
    BY <1>0, Sizes DEF SubmitLow,  PendingCreates, CreatesIn
  <2>3. /\ Cardinality(PendingCreates') = Cardinality(PendingCreates) + 1
        /\ Cardinality(PendingCreates) \in Nat
    BY <2>1, <2>2, AddOne
  <2> QED BY <2>2, <2>3 DEF CallersOK
<1>z. BlockedOK'
  BY <1>0, <1>a DEF IInv, BlockedOK
<1> QED BY <1>z, <1>1, <1>3, <1>4, <1>5, <1>6, <1>7, <1>8, <1>9 DEF IInv

LEMMA SubmitHighKeeps ==
  ASSUME IInv, NEW r \in Reqs, SubmitHigh(r)
  PROVE  IInv'
<1>0. /\ TypeOK /\ running /\ stage[r] = "unsent"
      /\ high' = Append(high, r)
      /\ low' = low /\ worker' = worker /\ running' = running
      /\ waiters' = waiters /\ slots' = slots /\ envs' = envs
  BY DEF IInv, SubmitHigh, poolVars
<1>p. PICK k \in Kinds \ {"create"}, e \in KnownEnvs :
        /\ kind' = [kind EXCEPT ![r] = k]
        /\ target' = [target EXCEPT ![r] = e]
  BY DEF SubmitHigh
<1>q. e \in Reqs /\ kind[e] = "create" /\ stage[e] = "ok"
  BY DEF KnownEnvs, CreatesIn
<1>a. /\ kind'[r] = k /\ k # "create" /\ stage'[r] = "queued" /\ target'[r] = e
      /\ \A x \in Reqs \ {r} :
           kind'[x] = kind[x] /\ stage'[x] = stage[x] /\ target'[x] = target[x]
      /\ kind' \in [Reqs -> Kinds] /\ target' \in [Reqs -> Reqs]
      /\ stage' \in [Reqs -> Stages]
  BY <1>0, <1>p, <1>q DEF TypeOK, SubmitHigh, Kinds, Stages
<1>b. /\ LineOf(high', kind', stage', Kinds \ {"create"}, "queued")
      /\ high' \in Seq(Reqs)
  <2>1. /\ high \in Seq(Reqs) /\ LineOf(high, kind, stage, Kinds \ {"create"}, "queued")
        /\ stage[r] # "queued" /\ kind'[r] \in Kinds \ {"create"} /\ stage'[r] = "queued"
    BY <1>0, <1>a DEF TypeOK, IInv, LinesOK
  <2>2. \A x \in Reqs :
          stage[x] = "queued" => stage'[x] = "queued" /\ kind'[x] = kind[x]
    BY <1>0, <1>a
  <2>3. LineOf(Append(high, r), kind', stage', Kinds \ {"create"}, "queued")
    BY <2>1, <2>2, LineAppend
  <2>4. Append(high, r) \in Seq(Reqs)
    BY <2>1, AppendProperties
  <2> QED BY <1>0, <2>3, <2>4
<1>1. TypeOK'
  BY <1>0, <1>a, <1>b DEF TypeOK
<1>2. Creating' = Creating /\ Closing' = Closing
  BY <1>0, <1>a DEF Creating, Closing, CreatesIn, ClosesIn
<1>3. SlotAccounting'
  BY <1>0, <1>2 DEF IInv, SlotAccounting
<1>4. ClosedOnce'
  BY <1>0, <1>a DEF IInv, ClosedOnce, ClosesIn
<1>5. LinesOK'
  <2>1. LineOf(low, kind', stage', {"create"}, "queued")
    BY <1>0, <1>a, LineKeep DEF TypeOK, IInv, LinesOK
  <2>2. LineOf(waiters, kind', stage', {"create"}, "blocked")
    BY <1>0, <1>a, LineKeep DEF TypeOK, IInv, LinesOK
  <2> QED BY <1>0, <2>1, <2>2, <1>b DEF LinesOK
<1>6. WorkersOK'
  BY <1>0, <1>a DEF IInv, TypeOK, WorkersOK
<1>7. EnvsOK'
  <2>1. \A x \in envs' : kind'[x] = "create" /\ stage'[x] = "ok"
    BY <1>0, <1>a DEF IInv, TypeOK, EnvsOK
  <2>2. ASSUME NEW x \in Reqs, stage'[x] # "unsent", kind'[x] # "create"
        PROVE  kind'[target'[x]] = "create" /\ stage'[target'[x]] = "ok"
    BY <1>0, <1>a, <2>2, <1>q DEF IInv, TypeOK, EnvsOK
  <2>3. \A c \in ClosesIn({"thread", "ok"})' : target'[c] \notin envs'
    BY <1>0, <1>a DEF IInv, TypeOK, EnvsOK, ClosesIn
  <2> QED BY <2>1, <2>2, <2>3 DEF EnvsOK
<1>8. NoIdleSlot'
  BY <1>0 DEF IInv, NoIdleSlot
<1>9. CallersOK'
  <2>1. PendingCreates' \subseteq PendingCreates
    BY <1>a, <1>0 DEF PendingCreates, CreatesIn
  <2> QED BY <2>1, FewerCreates
<1>z. BlockedOK'
  BY <1>0, <1>a DEF IInv, BlockedOK
<1> QED BY <1>z, <1>1, <1>3, <1>4, <1>5, <1>6, <1>7, <1>8, <1>9 DEF IInv

\* What every job taken from a queue is, and what taking it leaves.
LEMMA JobTaken ==
  ASSUME IInv, NEW w \in Workers, TakeJob(w),
         \A x \in Reqs \ {NextJob} : stage'[x] = stage[x]
  PROVE  /\ TypeOK /\ running /\ running'
         /\ kind' = kind /\ target' = target
         /\ NextJob \in Reqs /\ stage[NextJob] = "queued"
         /\ worker[w] = NoJob /\ \A v \in Workers : worker[v] # NextJob
         /\ high' \in Seq(Reqs) /\ low' \in Seq(Reqs)
         /\ LineOf(high', kind', stage', Kinds \ {"create"}, "queued")
         /\ LineOf(low', kind', stage', {"create"}, "queued")
         /\ kind[NextJob] = "create" => high = <<>> /\ low # <<>>
<1>0. /\ TypeOK /\ running /\ running' /\ worker[w] = NoJob
      /\ kind' = kind /\ target' = target
      /\ high \in Seq(Reqs) /\ low \in Seq(Reqs)
      /\ LineOf(high, kind, stage, Kinds \ {"create"}, "queued")
      /\ LineOf(low, kind, stage, {"create"}, "queued")
  BY DEF IInv, TypeOK, LinesOK, TakeJob
<1>1. CASE high # <<>>
  <2>1. NextJob = Head(high) /\ high' = Tail(high) /\ low' = low
    BY <1>1 DEF TakeJob, NextJob
  <2>2. /\ Head(high) \in Reqs /\ kind[Head(high)] \in Kinds \ {"create"}
        /\ stage[Head(high)] = "queued"
    BY <1>0, <1>1, LineHead
  <2>3. \A x \in Reqs :
          x # Head(high) /\ stage[x] = "queued" => stage'[x] = "queued"
    BY <2>1
  <2>4. LineOf(Tail(high), kind, stage', Kinds \ {"create"}, "queued")
    BY <1>0, <1>1, <2>3, LineTail
  <2>5. Tail(high) \in Seq(Reqs)
    BY <1>0, <1>1, HeadTailProperties
  <2>6. LineOf(low, kind, stage', {"create"}, "queued")
    <3>1. \A i \in 1 .. Len(low) : low[i] \in Reqs /\ low[i] # NextJob
      BY <1>0, <2>1, <2>2, ElementOfSeq DEF LineOf
    <3>2. \A i \in 1 .. Len(low) : stage'[low[i]] = "queued"
      BY <1>0, <3>1 DEF LineOf
    <3> QED BY <1>0, <3>2 DEF LineOf
  <2>7. \A v \in Workers : worker[v] # NextJob
    BY <2>1, <2>2, ServerAssumption DEF IInv, WorkersOK
  <2> QED BY <1>0, <1>1, <2>1, <2>2, <2>4, <2>5, <2>6, <2>7
<1>2. CASE high = <<>>
  <2>1. /\ NextJob = Head(low) /\ low' = Tail(low) /\ high' = high
        /\ low # <<>>
    BY <1>2 DEF TakeJob, NextJob, HasJob
  <2>2. /\ Head(low) \in Reqs /\ kind[Head(low)] \in {"create"}
        /\ stage[Head(low)] = "queued"
    BY <1>0, <2>1, LineHead
  <2>3. \A x \in Reqs :
          x # Head(low) /\ stage[x] = "queued" => stage'[x] = "queued"
    BY <2>1
  <2>4. LineOf(Tail(low), kind, stage', {"create"}, "queued")
    BY <1>0, <2>1, <2>3, LineTail
  <2>5. Tail(low) \in Seq(Reqs)
    BY <1>0, <2>1, HeadTailProperties
  <2>6. LineOf(high, kind, stage', Kinds \ {"create"}, "queued")
    BY <1>2, EmptySeq DEF LineOf
  <2>7. \A v \in Workers : worker[v] # NextJob
    BY <2>1, <2>2, ServerAssumption DEF IInv, WorkersOK
  <2> QED BY <1>0, <1>2, <2>1, <2>2, <2>4, <2>5, <2>6, <2>7
<1> QED BY <1>1, <1>2

\* A job that keeps its worker keeps the workers' books.
LEMMA WorkerKept ==
  ASSUME IInv, NEW w \in Workers, NEW r \in Reqs,
         worker[w] = NoJob, \A v \in Workers : worker[v] # r,
         worker' = [worker EXCEPT ![w] = r],
         stage'[r] \in {"blocked", "thread"},
         \A x \in Reqs \ {r} : stage'[x] = stage[x]
  PROVE  WorkersOK' /\ worker' \in [Workers -> Reqs \cup {NoJob}]
<1>1. /\ worker' \in [Workers -> Reqs \cup {NoJob}] /\ worker'[w] = r
      /\ \A v \in Workers \ {w} : worker'[v] = worker[v]
  BY DEF IInv, TypeOK
<1>2. \A v \in Workers : worker[v] \in Reqs \cup {NoJob}
  BY DEF IInv, TypeOK
<1> QED BY <1>1, <1>2 DEF IInv, WorkersOK

\* The waiting line is not touched by a step that changes another request.
LEMMA WaitersKept ==
  ASSUME IInv, running, NEW r \in Reqs, stage[r] # "blocked",
         kind' = kind, \A x \in Reqs \ {r} : stage'[x] = stage[x]
  PROVE  LineOf(waiters, kind', stage', {"create"}, "blocked")
<1>1. /\ waiters \in Seq(Reqs)
      /\ LineOf(waiters, kind, stage, {"create"}, "blocked")
  BY DEF IInv, TypeOK, LinesOK
<1>2. \A x \in Reqs :
        stage[x] = "blocked" => stage'[x] = "blocked" /\ kind'[x] = kind[x]
  OBVIOUS
<1> QED BY <1>1, <1>2, LineKeep

LEMMA StartCreateKeeps ==
  ASSUME IInv, NEW w \in Workers, StartCreate(w)
  PROVE  IInv'
<1>a. /\ TakeJob(w) /\ kind[NextJob] = "create" /\ envs' = envs
      /\ \A x \in Reqs \ {NextJob} : stage'[x] = stage[x]
      /\ stage' \in [Reqs -> Stages]
  BY DEF IInv, TypeOK, StartCreate, KeepWorker, Stages
<1>b. PICK r \in Reqs : r = NextJob
  BY <1>a, JobTaken
<1>0. /\ TypeOK /\ running /\ running' /\ kind' = kind /\ target' = target
      /\ kind[r] = "create" /\ stage[r] = "queued"
      /\ \A x \in Reqs \ {r} : stage'[x] = stage[x]
      /\ worker[w] = NoJob /\ \A v \in Workers : worker[v] # r
      /\ high' \in Seq(Reqs) /\ low' \in Seq(Reqs)
      /\ LineOf(high', kind', stage', Kinds \ {"create"}, "queued")
      /\ LineOf(low', kind', stage', {"create"}, "queued")
      /\ worker' = [worker EXCEPT ![w] = r]
  BY <1>a, <1>b, JobTaken DEF StartCreate, KeepWorker
<1>c. waiters \in Seq(Reqs) /\ slots \in 0 .. PoolSize /\ PoolSize \in Nat
  BY <1>0, ServerAssumption DEF TypeOK
<1>d. stage'[r] \in {"blocked", "thread"}
  BY <1>0, <1>b DEF StartCreate, KeepWorker, TypeOK
<1>1. WorkersOK' /\ worker' \in [Workers -> Reqs \cup {NoJob}]
  BY <1>0, <1>d, WorkerKept
<1>2. EnvsOK'
  <2>1. \A e \in envs' : kind'[e] = "create" /\ stage'[e] = "ok"
    BY <1>a, <1>0 DEF IInv, TypeOK, EnvsOK
  <2>2. ASSUME NEW x \in Reqs, stage'[x] # "unsent", kind'[x] # "create"
        PROVE  kind'[target'[x]] = "create" /\ stage'[target'[x]] = "ok"
    BY <1>0, <2>2 DEF IInv, TypeOK, EnvsOK
  <2>3. \A c \in ClosesIn({"thread", "ok"})' : target'[c] \notin envs'
    BY <1>a, <1>0 DEF IInv, EnvsOK, ClosesIn
  <2> QED BY <2>1, <2>2, <2>3 DEF EnvsOK
<1>3. ClosedOnce'
  BY <1>0 DEF IInv, ClosedOnce, ClosesIn
<1>4. CallersOK'
  <2>1. PendingCreates' \subseteq PendingCreates
    BY <1>0 DEF PendingCreates, CreatesIn
  <2> QED BY <2>1, FewerCreates
<1>5. Closing' = Closing
  BY <1>0 DEF Closing, ClosesIn
<1>z. BlockedOK'
  BY <1>0, <1>d DEF IInv, BlockedOK
<1>6. CASE slots > 0
  <2>1. /\ stage'[r] = "thread" /\ slots' = slots - 1 /\ waiters' = waiters
    BY <1>b, <1>0, <1>6 DEF StartCreate, KeepWorker, TypeOK
  <2>2. TypeOK'
    BY <1>a, <1>0, <1>1, <1>c, <1>6, <2>1 DEF TypeOK
  <2>3. LineOf(waiters, kind', stage', {"create"}, "blocked")
    BY <1>0, WaitersKept
  <2>4. Creating' = Creating \cup {r} /\ r \notin Creating
    BY <1>0, <2>1 DEF Creating, CreatesIn
  <2>5. Cardinality(Creating') = Cardinality(Creating) + 1
    BY <1>0, <2>4, Sizes, AddOne
  <2>6. SlotAccounting'
    BY <1>a, <1>0, <1>5, <1>c, <2>1, <2>5, Sizes DEF IInv, SlotAccounting
  <2>7. LinesOK' /\ NoIdleSlot'
    BY <1>0, <1>c, <1>6, <2>1, <2>3 DEF IInv, LinesOK, NoIdleSlot
  <2> QED BY <1>z, <1>1, <1>2, <1>3, <1>4, <2>2, <2>6, <2>7 DEF IInv
<1>7. CASE ~ (slots > 0)
  <2>1. /\ stage'[r] = "blocked" /\ slots' = slots /\ slots = 0
        /\ waiters' = Append(waiters, r)
    BY <1>b, <1>0, <1>c, <1>7 DEF StartCreate, KeepWorker, TypeOK
  <2>2. Append(waiters, r) \in Seq(Reqs)
    BY <1>c, AppendProperties
  <2>3. TypeOK'
    BY <1>a, <1>0, <1>1, <1>c, <2>1, <2>2 DEF TypeOK
  <2>4. LineOf(Append(waiters, r), kind', stage', {"create"}, "blocked")
    <3>1. LineOf(waiters, kind, stage, {"create"}, "blocked")
      BY <1>0 DEF IInv, LinesOK
    <3>2. /\ \A x \in Reqs : stage[x] = "blocked"
               => stage'[x] = "blocked" /\ kind'[x] = kind[x]
          /\ stage[r] # "blocked" /\ kind'[r] \in {"create"}
          /\ stage'[r] = "blocked"
      BY <1>0, <2>1
    <3> QED BY <1>c, <3>1, <3>2, LineAppend
  <2>5. Creating' = Creating
    BY <1>0, <2>1 DEF Creating, CreatesIn
  <2>6. SlotAccounting'
    BY <1>a, <1>0, <1>5, <2>1, <2>5 DEF IInv, SlotAccounting
  <2>7. LinesOK' /\ NoIdleSlot'
    BY <1>0, <2>1, <2>4 DEF LinesOK, NoIdleSlot
  <2> QED BY <1>z, <1>1, <1>2, <1>3, <1>4, <2>3, <2>6, <2>7 DEF IInv
<1> QED BY <1>6, <1>7

\* A job on an existing environment that touches neither table nor slots.
LEMMA QuietJobKeeps ==
  ASSUME IInv, NEW w \in Workers,
         StartUse(w) \/ AnswerRead(w) \/ AnswerMissing(w)
  PROVE  IInv'
<1>a. /\ TakeJob(w) /\ kind[NextJob] # "create"
      /\ waiters' = waiters /\ slots' = slots /\ envs' = envs
      /\ \A x \in Reqs \ {NextJob} : stage'[x] = stage[x]
      /\ stage' \in [Reqs -> Stages]
  BY DEF IInv, TypeOK, StartUse, AnswerRead, AnswerMissing, KeepWorker,
         Stages, poolVars
<1>b. PICK r \in Reqs : r = NextJob
  BY <1>a, JobTaken
<1>0. /\ TypeOK /\ running /\ running' /\ kind' = kind /\ target' = target
      /\ kind[r] # "create" /\ stage[r] = "queued"
      /\ \A x \in Reqs \ {r} : stage'[x] = stage[x]
      /\ worker[w] = NoJob /\ \A v \in Workers : worker[v] # r
      /\ high' \in Seq(Reqs) /\ low' \in Seq(Reqs)
      /\ LineOf(high', kind', stage', Kinds \ {"create"}, "queued")
      /\ LineOf(low', kind', stage', {"create"}, "queued")
  BY <1>a, <1>b, JobTaken
<1>c. /\ kind[r] = "close" => stage'[r] = "missing"
      /\ stage'[r] # "unsent"
  BY <1>b, <1>0 DEF StartUse, AnswerRead, AnswerMissing, KeepWorker, TypeOK
<1>1. WorkersOK' /\ worker' \in [Workers -> Reqs \cup {NoJob}]
  <2>1. CASE StartUse(w)
    <3>1. /\ worker' = [worker EXCEPT ![w] = r]
          /\ stage'[r] \in {"blocked", "thread"}
      BY <2>1, <1>b, <1>0 DEF StartUse, KeepWorker, TypeOK
    <3> QED BY <3>1, <1>0, WorkerKept
  <2>2. CASE AnswerRead(w) \/ AnswerMissing(w)
    <3>1. worker' = worker
      BY <2>2 DEF AnswerRead, AnswerMissing
    <3> QED BY <3>1, <1>0 DEF IInv, TypeOK, WorkersOK
  <2> QED BY <2>1, <2>2
<1>2. TypeOK'
  BY <1>a, <1>0, <1>1 DEF TypeOK
<1>3. Creating' = Creating /\ Closing' = Closing
  BY <1>0, <1>c DEF Creating, Closing, CreatesIn, ClosesIn
<1>4. SlotAccounting'
  BY <1>a, <1>0, <1>3 DEF IInv, SlotAccounting
<1>5. ClosedOnce'
  BY <1>0, <1>c DEF IInv, ClosedOnce, ClosesIn
<1>6. EnvsOK'
  <2>1. \A e \in envs' : kind'[e] = "create" /\ stage'[e] = "ok"
    BY <1>a, <1>0 DEF IInv, TypeOK, EnvsOK
  <2>2. ASSUME NEW x \in Reqs, stage'[x] # "unsent", kind'[x] # "create"
        PROVE  kind'[target'[x]] = "create" /\ stage'[target'[x]] = "ok"
    BY <1>0, <2>2 DEF IInv, TypeOK, EnvsOK
  <2>3. \A c \in ClosesIn({"thread", "ok"})' : target'[c] \notin envs'
    BY <1>a, <1>0, <1>c DEF IInv, EnvsOK, ClosesIn
  <2> QED BY <2>1, <2>2, <2>3 DEF EnvsOK
<1>7. LinesOK' /\ NoIdleSlot'
  <2>1. LineOf(waiters, kind', stage', {"create"}, "blocked")
    BY <1>0, WaitersKept
  <2> QED BY <1>a, <1>0, <2>1 DEF IInv, LinesOK, NoIdleSlot
<1>8. CallersOK'
  <2>1. PendingCreates' \subseteq PendingCreates
    BY <1>0 DEF PendingCreates, CreatesIn
  <2> QED BY <2>1, FewerCreates
<1>z. BlockedOK'
  BY <1>0, <1>b DEF IInv, BlockedOK, StartUse, AnswerRead, AnswerMissing, KeepWorker, TypeOK
<1> QED BY <1>z, <1>1, <1>2, <1>4, <1>5, <1>6, <1>7, <1>8 DEF IInv

LEMMA StartCloseKeeps ==
  ASSUME IInv, NEW w \in Workers, StartClose(w)
  PROVE  IInv'
<1>a. /\ TakeJob(w) /\ kind[NextJob] = "close" /\ target[NextJob] \in envs
      /\ waiters' = waiters /\ slots' = slots
      /\ envs' = envs \ {target[NextJob]}
      /\ \A x \in Reqs \ {NextJob} : stage'[x] = stage[x]
      /\ stage' \in [Reqs -> Stages]
  BY DEF IInv, TypeOK, StartClose, KeepWorker, Stages
<1>b. PICK r \in Reqs : r = NextJob
  BY <1>a, JobTaken
<1>0. /\ TypeOK /\ running /\ running' /\ kind' = kind /\ target' = target
      /\ kind[r] = "close" /\ stage[r] = "queued" /\ target[r] \in envs
      /\ \A x \in Reqs \ {r} : stage'[x] = stage[x]
      /\ worker[w] = NoJob /\ \A v \in Workers : worker[v] # r
      /\ high' \in Seq(Reqs) /\ low' \in Seq(Reqs)
      /\ LineOf(high', kind', stage', Kinds \ {"create"}, "queued")
      /\ LineOf(low', kind', stage', {"create"}, "queued")
      /\ envs' = envs \ {target[r]}
  BY <1>a, <1>b, JobTaken
<1>c. stage'[r] = "thread" /\ worker' = [worker EXCEPT ![w] = r]
  BY <1>b, <1>0 DEF StartClose, KeepWorker, TypeOK
<1>1. WorkersOK' /\ worker' \in [Workers -> Reqs \cup {NoJob}]
  BY <1>0, <1>c, WorkerKept
<1>2. TypeOK'
  BY <1>a, <1>0, <1>1 DEF TypeOK
<1>3. /\ Creating' = Creating
      /\ Closing' = Closing \cup {r} /\ r \notin Closing
  BY <1>0, <1>c DEF Creating, Closing, CreatesIn, ClosesIn
<1>4. SlotAccounting'
  <2>1. Cardinality(Closing') = Cardinality(Closing) + 1
    BY <1>0, <1>3, Sizes, AddOne
  <2>2. /\ Cardinality(envs) = Cardinality(envs') + 1
        /\ Cardinality(envs') \in Nat
    BY <1>0, Sizes, RemoveOne
  <2>3. slots + Cardinality(envs) + Cardinality(Creating)
          + Cardinality(Closing) = PoolSize
    BY <1>0 DEF IInv, SlotAccounting
  <2>4. /\ slots \in Nat /\ Cardinality(Creating) \in Nat
        /\ Cardinality(Closing) \in Nat
    BY <1>0, Sizes
  <2>5. slots' + Cardinality(envs') + Cardinality(Creating')
          + Cardinality(Closing') = PoolSize
    BY <1>a, <1>3, <2>1, <2>2, <2>3, <2>4
  <2> QED BY <2>5 DEF SlotAccounting
<1>5. ClosedOnce'
  BY <1>0, <1>c DEF IInv, ClosedOnce, EnvsOK, ClosesIn
<1>6. EnvsOK'
  <2>1. \A e \in envs' : kind'[e] = "create" /\ stage'[e] = "ok"
    BY <1>0 DEF IInv, TypeOK, EnvsOK
  <2>2. ASSUME NEW x \in Reqs, stage'[x] # "unsent", kind'[x] # "create"
        PROVE  kind'[target'[x]] = "create" /\ stage'[target'[x]] = "ok"
    BY <1>0, <2>2 DEF IInv, TypeOK, EnvsOK
  <2>3. \A c \in ClosesIn({"thread", "ok"})' : target'[c] \notin envs'
    BY <1>0 DEF IInv, EnvsOK, ClosesIn
  <2> QED BY <2>1, <2>2, <2>3 DEF EnvsOK
<1>7. LinesOK' /\ NoIdleSlot'
  <2>1. LineOf(waiters, kind', stage', {"create"}, "blocked")
    BY <1>0, WaitersKept
  <2> QED BY <1>a, <1>0, <2>1 DEF IInv, LinesOK, NoIdleSlot
<1>8. CallersOK'
  <2>1. PendingCreates' \subseteq PendingCreates
    BY <1>0 DEF PendingCreates, CreatesIn
  <2> QED BY <2>1, FewerCreates
<1>z. BlockedOK'
  BY <1>0, <1>c DEF IInv, BlockedOK
<1> QED BY <1>z, <1>1, <1>2, <1>4, <1>5, <1>6, <1>7, <1>8 DEF IInv

\* What a job is when its executor thread is done.
LEMMA ThreadDone ==
  ASSUME IInv, NEW w \in Workers, NEW k, InThread(w, k)
  PROVE  /\ TypeOK /\ running /\ running'
         /\ kind' = kind /\ target' = target /\ high' = high /\ low' = low
         /\ worker[w] \in Reqs
         /\ kind[worker[w]] = k /\ stage[worker[w]] = "thread"
         /\ worker' \in [Workers -> Reqs \cup {NoJob}]
         /\ worker'[w] = NoJob
         /\ \A v \in Workers \ {w} :
              worker'[v] = worker[v] /\ worker[v] # worker[w]
BY DEF IInv, TypeOK, WorkersOK, InThread, queueVars

\* A job leaves the executor without giving a slot back.
LEMMA AnswerKeeps ==
  ASSUME IInv, NEW w \in Workers, FinishCreate(w) \/ FinishUse(w)
  PROVE  IInv'
<1>a. /\ InThread(w, "create") \/ InThread(w, "use")
      /\ waiters' = waiters /\ slots' = slots
  BY DEF FinishCreate, FinishUse, poolVars
<1>b. PICK r \in Reqs : r = worker[w]
  BY <1>a, ThreadDone
<1>0. /\ TypeOK /\ running /\ running'
      /\ kind' = kind /\ target' = target /\ high' = high /\ low' = low
      /\ kind[r] \in {"create", "use"} /\ stage[r] = "thread"
      /\ worker' \in [Workers -> Reqs \cup {NoJob}] /\ worker'[w] = NoJob
      /\ \A v \in Workers \ {w} : worker'[v] = worker[v] /\ worker[v] # r
  BY <1>a, <1>b, ThreadDone
<1>c. /\ \A x \in Reqs \ {r} : stage'[x] = stage[x]
      /\ stage' \in [Reqs -> Stages] /\ stage'[r] \in {"ok", "error"}
      /\ \/ kind[r] = "create" /\ stage'[r] = "ok" /\ envs' = envs \cup {r}
         \/ kind[r] = "use" /\ envs' = envs
  <2>1. CASE FinishCreate(w)
    BY <2>1, <1>b, <1>0 DEF FinishCreate, InThread, TypeOK, Stages
  <2>2. CASE FinishUse(w)
    BY <2>2, <1>b, <1>0 DEF FinishUse, InThread, TypeOK, Stages, poolVars
  <2> QED BY <2>1, <2>2
<1>1. WorkersOK'
  BY <1>0, <1>c DEF IInv, TypeOK, WorkersOK
<1>2. TypeOK'
  BY <1>a, <1>0, <1>c DEF TypeOK
<1>3. Closing' = Closing
  BY <1>0, <1>c DEF Closing, ClosesIn
<1>4. SlotAccounting'
  <2>1. CASE kind[r] = "create" /\ stage'[r] = "ok" /\ envs' = envs \cup {r}
    <3>1. /\ Creating' = Creating \ {r} /\ r \in Creating /\ r \notin envs
      BY <1>0, <1>c, <2>1 DEF Creating, CreatesIn, IInv, EnvsOK
    <3>2. /\ Cardinality(Creating) = Cardinality(Creating') + 1
          /\ Cardinality(Creating') \in Nat
      BY <1>0, <3>1, Sizes, RemoveOne
    <3>3. Cardinality(envs') = Cardinality(envs) + 1
      BY <1>0, <2>1, <3>1, Sizes, AddOne
    <3> QED BY <1>a, <1>0, <1>3, <3>2, <3>3, Sizes DEF IInv, SlotAccounting
  <2>2. CASE kind[r] = "use" /\ envs' = envs
    <3>1. Creating' = Creating
      BY <1>0, <1>c, <2>2 DEF Creating, CreatesIn
    <3> QED BY <1>a, <1>0, <1>3, <2>2, <3>1 DEF IInv, SlotAccounting
  <2> QED BY <2>1, <2>2, <1>c
<1>5. ClosedOnce'
  BY <1>0, <1>c DEF IInv, ClosedOnce, ClosesIn
<1>6. EnvsOK'
  <2>1. \A e \in envs' : kind'[e] = "create" /\ stage'[e] = "ok"
    BY <1>0, <1>c DEF IInv, TypeOK, EnvsOK
  <2>2. ASSUME NEW x \in Reqs, stage'[x] # "unsent", kind'[x] # "create"
        PROVE  kind'[target'[x]] = "create" /\ stage'[target'[x]] = "ok"
    BY <1>0, <1>c, <2>2 DEF IInv, TypeOK, EnvsOK
  <2>3. ASSUME NEW c \in ClosesIn({"thread", "ok"})'
        PROVE  target'[c] \notin envs'
    <3>1. c \in ClosesIn({"thread", "ok"})
      BY <1>0, <1>c DEF ClosesIn
    <3>2. target[c] # r /\ target[c] \notin envs
      BY <1>0, <3>1 DEF IInv, EnvsOK, ClosesIn
    <3> QED BY <1>0, <1>c, <3>2
  <2> QED BY <2>1, <2>2, <2>3 DEF EnvsOK
<1>7. LinesOK' /\ NoIdleSlot'
  <2>1. LineOf(waiters, kind', stage', {"create"}, "blocked")
    BY <1>0, <1>c, WaitersKept
  <2>2. \A x \in Reqs :
          stage[x] = "queued" => stage'[x] = "queued" /\ kind'[x] = kind[x]
    BY <1>0, <1>c
  <2>3. LineOf(high, kind', stage', Kinds \ {"create"}, "queued")
    BY <1>0, <2>2, LineKeep DEF IInv, TypeOK, LinesOK
  <2>4. LineOf(low, kind', stage', {"create"}, "queued")
    BY <1>0, <2>2, LineKeep DEF IInv, TypeOK, LinesOK
  <2> QED BY <1>a, <1>0, <2>1, <2>3, <2>4 DEF IInv, LinesOK, NoIdleSlot
<1>8. CallersOK'
  <2>1. PendingCreates' \subseteq PendingCreates
    BY <1>0, <1>c DEF PendingCreates, CreatesIn
  <2> QED BY <2>1, FewerCreates
<1>z. BlockedOK'
  BY <1>0, <1>c DEF IInv, BlockedOK
<1> QED BY <1>z, <1>1, <1>2, <1>4, <1>5, <1>6, <1>7, <1>8 DEF IInv

\* A job leaves the executor and gives its slot back, to the semaphore or to
\* the first create in its line.
LEMMA ReleaseKeeps ==
  ASSUME IInv, NEW w \in Workers, FailCreate(w) \/ FinishClose(w)
  PROVE  IInv'
<1>a. /\ InThread(w, "create") \/ InThread(w, "close")
      /\ envs' = envs
  BY DEF FailCreate, FinishClose
<1>b. PICK r \in Reqs : r = worker[w]
  BY <1>a, ThreadDone
<1>0. /\ TypeOK /\ running /\ running'
      /\ kind' = kind /\ target' = target /\ high' = high /\ low' = low
      /\ kind[r] \in {"create", "close"} /\ stage[r] = "thread"
      /\ worker' \in [Workers -> Reqs \cup {NoJob}] /\ worker'[w] = NoJob
      /\ \A v \in Workers \ {w} : worker'[v] = worker[v] /\ worker[v] # r
  BY <1>a, <1>b, ThreadDone
<1>c. PICK a \in {"error", "ok"} :
        /\ ReleaseSlot(r, a)
        /\ kind[r] = "create" => a = "error"
  BY <1>b, <1>0 DEF FailCreate, FinishClose, InThread
<1>d. /\ waiters \in Seq(Reqs) /\ slots \in Nat /\ PoolSize \in Nat
      /\ LineOf(waiters, kind, stage, {"create"}, "blocked")
      /\ slots <= PoolSize
  BY <1>0, ServerAssumption DEF IInv, TypeOK, LinesOK
<1>e. PICK h : h = Head(waiters)
  OBVIOUS
<1>f. waiters # <<>> =>
        h \in Reqs /\ kind[h] = "create" /\ stage[h] = "blocked"
  BY <1>d, <1>e, LineHead
\* What the step does to the stages.
<1>g. /\ stage' \in [Reqs -> Stages] /\ stage'[r] = a
      /\ waiters # <<>> => stage'[h] = "thread"
      /\ \A x \in Reqs : x # r /\ (waiters = <<>> \/ x # h)
           => stage'[x] = stage[x]
  <2>1. CASE waiters # <<>>
    BY <2>1, <1>0, <1>c, <1>e, <1>f DEF ReleaseSlot, TypeOK, Stages
  <2>2. CASE waiters = <<>>
    BY <2>2, <1>0, <1>c DEF ReleaseSlot, TypeOK, Stages
  <2> QED BY <2>1, <2>2
<1>h. \/ waiters # <<>> /\ waiters' = Tail(waiters) /\ slots' = slots
      \/ waiters = <<>> /\ waiters' = <<>> /\ slots' = slots + 1
  BY <1>c DEF ReleaseSlot
\* What it does to the sets the slots are counted by.
<1>i. /\ kind[r] = "create" =>
           /\ r \in Creating /\ Closing' = Closing
           /\ waiters = <<>> => Creating' = Creating \ {r}
           /\ waiters # <<>> => Creating' = (Creating \ {r}) \cup {h}
      /\ kind[r] = "close" =>
           /\ r \in Closing /\ Closing' = Closing \ {r}
           /\ waiters = <<>> => Creating' = Creating
           /\ waiters # <<>> => Creating' = Creating \cup {h}
      /\ waiters # <<>> => h \notin Creating
  BY <1>0, <1>c, <1>f, <1>g DEF Creating, Closing, CreatesIn, ClosesIn
<1>1. WorkersOK'
  <2>1. ASSUME NEW v \in Workers, worker'[v] # NoJob
        PROVE  stage'[worker'[v]] \in {"blocked", "thread"}
    <3>1. /\ worker'[v] = worker[v] /\ worker[v] # r /\ worker[v] \in Reqs
          /\ stage[worker[v]] \in {"blocked", "thread"}
      BY <1>0, <2>1 DEF IInv, WorkersOK, TypeOK
    <3> QED BY <3>1, <1>g
  <2>2. \A u, v \in Workers :
          worker'[u] = worker'[v] /\ worker'[u] # NoJob => u = v
    BY <1>0 DEF IInv, WorkersOK
  <2> QED BY <2>1, <2>2 DEF WorkersOK
<1>2. SlotAccounting'
  <2>1. /\ slots + Cardinality(envs) + Cardinality(Creating)
             + Cardinality(Closing) = PoolSize
        /\ IsFiniteSet(Creating) /\ IsFiniteSet(Closing)
        /\ Cardinality(envs) \in Nat /\ Cardinality(Creating) \in Nat
        /\ Cardinality(Closing) \in Nat
    BY <1>0, Sizes DEF IInv, SlotAccounting
  <2>2. CASE kind[r] = "create"
    <3>1. /\ IsFiniteSet(Creating \ {r})
          /\ Cardinality(Creating \ {r}) \in Nat
          /\ Cardinality(Creating) = Cardinality(Creating \ {r}) + 1
      BY <2>1, <2>2, <1>i, RemoveOne
    <3>2. waiters # <<>> =>
            Cardinality(Creating') = Cardinality(Creating \ {r}) + 1
      BY <2>2, <3>1, <1>i, AddOne
    <3>3. slots' + Cardinality(envs') + Cardinality(Creating')
            + Cardinality(Closing') = PoolSize
      <4>1. CASE waiters = <<>>
        <5>1. /\ slots' = slots + 1 /\ Creating' = Creating \ {r}
              /\ Closing' = Closing
          BY <1>h, <1>i, <2>2, <4>1
        <5> QED BY <1>a, <1>d, <2>1, <3>1, <5>1
      <4>2. CASE waiters # <<>>
        <5>1. slots' = slots /\ Closing' = Closing
          BY <1>h, <1>i, <2>2, <4>2
        <5> QED BY <1>a, <1>d, <2>1, <3>1, <3>2, <4>2, <5>1
      <4> QED BY <4>1, <4>2
    <3> QED BY <3>3 DEF SlotAccounting
  <2>3. CASE kind[r] = "close"
    <3>1. /\ Cardinality(Closing') \in Nat
          /\ Cardinality(Closing) = Cardinality(Closing') + 1
      BY <2>1, <2>3, <1>i, RemoveOne
    <3>2. waiters # <<>> =>
            Cardinality(Creating') = Cardinality(Creating) + 1
      BY <2>1, <2>3, <1>i, AddOne
    <3>3. slots' + Cardinality(envs') + Cardinality(Creating')
            + Cardinality(Closing') = PoolSize
      <4>1. CASE waiters = <<>>
        <5>1. slots' = slots + 1 /\ Creating' = Creating
          BY <1>h, <1>i, <2>3, <4>1
        <5> QED BY <1>a, <1>d, <2>1, <3>1, <5>1
      <4>2. CASE waiters # <<>>
        <5>1. slots' = slots
          BY <1>h, <4>2
        <5> QED BY <1>a, <1>d, <2>1, <3>1, <3>2, <4>2, <5>1
      <4> QED BY <4>1, <4>2
    <3> QED BY <3>3 DEF SlotAccounting
  <2> QED BY <1>0, <2>2, <2>3
<1>3. slots' \in 0 .. PoolSize
  <2>1. CASE waiters = <<>>
    <3>1. Cardinality(Creating) # 0 \/ Cardinality(Closing) # 0
      BY <1>0, <1>i, Sizes, FS_EmptySet
    <3>2. /\ slots + Cardinality(envs) + Cardinality(Creating)
               + Cardinality(Closing) = PoolSize
          /\ Cardinality(envs) \in Nat /\ Cardinality(Creating) \in Nat
          /\ Cardinality(Closing) \in Nat
      BY <1>0, Sizes DEF IInv, SlotAccounting
    <3> QED BY <1>d, <1>h, <2>1, <3>1, <3>2
  <2>2. CASE waiters # <<>>
    BY <1>d, <1>h, <2>2
  <2> QED BY <2>1, <2>2
<1>4. LinesOK' /\ waiters' \in Seq(Reqs)
  <2>1. \A x \in Reqs :
          stage[x] = "queued" => stage'[x] = "queued" /\ kind'[x] = kind[x]
    BY <1>0, <1>f, <1>g
  <2>2. LineOf(high, kind', stage', Kinds \ {"create"}, "queued")
    BY <1>0, <2>1, LineKeep DEF IInv, TypeOK, LinesOK
  <2>3. LineOf(low, kind', stage', {"create"}, "queued")
    BY <1>0, <2>1, LineKeep DEF IInv, TypeOK, LinesOK
  <2>4. LineOf(waiters', kind', stage', {"create"}, "blocked")
        /\ waiters' \in Seq(Reqs)
    <3>1. CASE waiters = <<>>
      <4>1. waiters' = <<>>
        BY <1>h, <3>1
      <4> QED BY <4>1, EmptySeq DEF LineOf
    <3>2. CASE waiters # <<>>
      <4>1. \A x \in Reqs : x # Head(waiters) /\ stage[x] = "blocked"
              => stage'[x] = "blocked"
        BY <1>0, <1>e, <1>g
      <4>2. LineOf(Tail(waiters), kind, stage', {"create"}, "blocked")
        BY <1>d, <3>2, <4>1, LineTail
      <4>3. Tail(waiters) \in Seq(Reqs)
        BY <1>d, <3>2, HeadTailProperties
      <4> QED BY <1>0, <1>h, <3>2, <4>2, <4>3
    <3> QED BY <3>1, <3>2
  <2> QED BY <1>0, <2>2, <2>3, <2>4 DEF LinesOK
<1>5. NoIdleSlot'
  BY <1>0, <1>h DEF IInv, NoIdleSlot
<1>6. TypeOK'
  BY <1>a, <1>0, <1>g, <1>3, <1>4 DEF TypeOK
<1>7. ClosedOnce'
  BY <1>0, <1>f, <1>g DEF IInv, ClosedOnce, ClosesIn
<1>8. EnvsOK'
  <2>1. \A e \in envs' : kind'[e] = "create" /\ stage'[e] = "ok"
    BY <1>a, <1>0, <1>f, <1>g DEF IInv, TypeOK, EnvsOK
  <2>2. ASSUME NEW x \in Reqs, stage'[x] # "unsent", kind'[x] # "create"
        PROVE  kind'[target'[x]] = "create" /\ stage'[target'[x]] = "ok"
    <3>1. stage[x] # "unsent" /\ kind[x] # "create" /\ target[x] \in Reqs
      BY <1>0, <1>f, <1>g, <2>2 DEF TypeOK
    <3>2. kind[target[x]] = "create" /\ stage[target[x]] = "ok"
      BY <3>1 DEF IInv, EnvsOK
    <3> QED BY <1>0, <1>f, <1>g, <3>1, <3>2
  <2>3. \A c \in ClosesIn({"thread", "ok"})' : target'[c] \notin envs'
    BY <1>a, <1>0, <1>f, <1>g DEF IInv, EnvsOK, ClosesIn
  <2> QED BY <2>1, <2>2, <2>3 DEF EnvsOK
<1>9. CallersOK'
  <2>1. PendingCreates' \subseteq PendingCreates
    BY <1>0, <1>c, <1>f, <1>g DEF PendingCreates, CreatesIn
  <2> QED BY <2>1, FewerCreates
<1>z. BlockedOK'
  BY <1>0, <1>c, <1>f, <1>g DEF IInv, BlockedOK
<1> QED BY <1>z, <1>1, <1>2, <1>4, <1>5, <1>6, <1>7, <1>8, <1>9 DEF IInv

LEMMA StopKeeps ==
  ASSUME IInv, Stop
  PROVE  IInv'
<1>0. /\ TypeOK /\ running /\ running' = FALSE
      /\ kind' = kind /\ target' = target /\ high' = high /\ low' = low
      /\ worker' = [w \in Workers |-> NoJob]
      /\ waiters' = <<>> /\ envs' = {}
      /\ slots' = slots + Cardinality(Closing)
  BY DEF IInv, Stop, queueVars
<1>a. /\ stage' \in [Reqs -> Stages]
      /\ \A r \in Reqs :
           /\ stage'[r] \in {"ok", "unsent"} => stage[r] = stage'[r]
           /\ stage[r] \in {"ok", "unsent"} => stage[r] = stage'[r]
           /\ stage'[r] \notin {"queued", "blocked", "thread"}
  BY <1>0 DEF Stop, TypeOK, Stages, Creating, CreatesIn
<1>1. TypeOK'
  <2>1. /\ slots + Cardinality(envs) + Cardinality(Creating)
             + Cardinality(Closing) = PoolSize
        /\ Cardinality(envs) \in Nat /\ Cardinality(Creating) \in Nat
        /\ Cardinality(Closing) \in Nat /\ slots \in Nat /\ PoolSize \in Nat
    BY <1>0, Sizes DEF IInv, SlotAccounting
  <2>2. slots' \in 0 .. PoolSize
    BY <1>0, <2>1
  <2> QED BY <1>0, <1>a, <2>2, EmptySeq DEF TypeOK
<1>2. SlotAccounting' /\ LinesOK' /\ NoIdleSlot'
  BY <1>0 DEF SlotAccounting, LinesOK, NoIdleSlot
<1>3. ClosedOnce'
  BY <1>0, <1>a DEF IInv, ClosedOnce, ClosesIn
<1>4. WorkersOK'
  BY <1>0 DEF WorkersOK
<1>5. EnvsOK'
  <2>1. ASSUME NEW x \in Reqs, stage'[x] # "unsent", kind'[x] # "create"
        PROVE  kind'[target'[x]] = "create" /\ stage'[target'[x]] = "ok"
    BY <1>0, <1>a, <2>1 DEF IInv, EnvsOK, TypeOK
  <2> QED BY <1>0, <2>1 DEF EnvsOK
<1>6. CallersOK'
  <2>1. PendingCreates' \subseteq PendingCreates
    BY <1>0, <1>a DEF PendingCreates, CreatesIn
  <2> QED BY <2>1, FewerCreates
<1>z. BlockedOK'
  BY <1>0, <1>a DEF IInv, BlockedOK
<1> QED BY <1>z, <1>1, <1>2, <1>3, <1>4, <1>5, <1>6 DEF IInv

-----------------------------------------------------------------------------
(* The invariance theorems.                                                *)

LEMMA NextKeeps ==
  ASSUME IInv, [Next]_vars
  PROVE  IInv'
<1>1. ASSUME NEW r \in Reqs, SubmitLow(r) \/ SubmitHigh(r) PROVE IInv'
  BY <1>1, SubmitLowKeeps, SubmitHighKeeps
<1>2. ASSUME NEW w \in Workers, WorkerStep(w) PROVE IInv'
  BY <1>2, StartCreateKeeps, QuietJobKeeps, StartCloseKeeps DEF WorkerStep
<1>3. ASSUME NEW w \in Workers, ThreadStep(w) PROVE IInv'
  BY <1>3, AnswerKeeps, ReleaseKeeps DEF ThreadStep
<1>4. CASE Stop
  BY <1>4, StopKeeps
<1>5. CASE UNCHANGED vars
  BY <1>5 DEF vars, IInv, TypeOK, SlotAccounting, ClosedOnce, LinesOK,
     WorkersOK, BlockedOK, EnvsOK, NoIdleSlot, CallersOK, Creating, Closing,
     PendingCreates, CreatesIn, ClosesIn
<1> QED BY <1>1, <1>2, <1>3, <1>4, <1>5 DEF Next

\* The inductive invariant holds in every reachable state of the server.
THEOREM Invariance == Spec => []IInv
<1>1. Init => IInv
  BY InitIInv
<1>2. IInv /\ [Next]_vars => IInv'
  BY NextKeeps
<1> QED BY <1>1, <1>2, PTL DEF Spec

\* Every variable of the server keeps its type; in particular the semaphore
\* never goes below zero or above the pool size.
THEOREM TypeCorrect == Spec => []TypeOK
<1>1. IInv => TypeOK
  BY DEF IInv
<1> QED BY <1>1, Invariance, PTL

\* Slots are neither lost nor minted, through failed creates and failed closes.
THEOREM SlotsConserved == Spec => []SlotAccounting
<1>1. IInv => SlotAccounting
  BY DEF IInv
<1> QED BY <1>1, Invariance, PTL

\* No environment is taken down twice, however many closes were sent.
THEOREM ClosesAreUnique == Spec => []ClosedOnce
<1>1. IInv => ClosedOnce
  BY DEF IInv
<1> QED BY <1>1, Invariance, PTL

\* With fewer unanswered creates than workers, the pool semaphore never holds
\* all the workers: if it did, the workers' jobs would be that many different
\* pending creates.
THEOREM NoWorkerStarvation == Spec => []SomeWorkerUnblocked
<1>1. ASSUME IInv PROVE SomeWorkerUnblocked
  <2> SUFFICES ASSUME MaxCreates < Cardinality(Workers),
                      \A w \in Workers :
                        worker[w] # NoJob /\ stage[worker[w]] = "blocked"
               PROVE  FALSE
    BY DEF SomeWorkerUnblocked
  <2>1. worker \in [Workers -> PendingCreates]
    BY <1>1 DEF IInv, TypeOK, BlockedOK, PendingCreates, CreatesIn
  <2>2. /\ IsFiniteSet(PendingCreates) /\ Cardinality(PendingCreates) \in Nat
        /\ Cardinality(PendingCreates) <= MaxCreates /\ MaxCreates \in Nat
    BY <1>1, Sizes DEF IInv, CallersOK
  <2>3. IsFiniteSet(Workers) /\ Cardinality(Workers) \in Nat
    BY ServerAssumption, FS_CardinalityType
  <2>4. Cardinality(PendingCreates) < Cardinality(Workers)
    BY <2>2, <2>3
  <2>5. \E v, w \in Workers : v # w /\ worker[v] = worker[w]
    BY <2>1, <2>2, <2>3, <2>4, FS_PigeonHole
  <2> QED BY <1>1, <2>5 DEF IInv, WorkersOK
<1> QED BY <1>1, Invariance, PTL

\* The worker that would run a close is the one that waits for it: no step of
\* a starved server but the end of its lifespan changes what any job waits for.
THEOREM StarvationLasts == Spec => StarvedForGood
<1> DEFINE Stuck == Starved' /\ \A r \in Reqs : stage[r] # "unsent" => stage'[r] = stage[r]
<1>1. ASSUME IInv, Next, Starved, running'  PROVE Stuck
  <2>0. /\ stage \in [Reqs -> Stages] /\ worker \in [Workers -> Reqs \cup {NoJob}]
        /\ \A w \in Workers : worker[w] \in Reqs /\ stage[worker[w]] = "blocked"
    BY <1>1 DEF IInv, TypeOK, Starved
  <2>1. ASSUME NEW r \in Reqs, SubmitLow(r) \/ SubmitHigh(r)  PROVE Stuck
    <3>1. /\ stage[r] = "unsent" /\ stage' = [stage EXCEPT ![r] = "queued"]
          /\ worker' = worker
      BY <2>1 DEF SubmitLow, SubmitHigh
    <3>2. \A q \in Reqs : stage[q] # "unsent" => stage'[q] = stage[q]
      BY <2>0, <3>1
    <3>3. \A w \in Workers : worker'[w] # NoJob /\ stage'[worker'[w]] = "blocked"
      BY <1>1, <2>0, <3>1, <3>2 DEF Starved
    <3> QED BY <1>1, <3>2, <3>3 DEF Starved
  <2>2. ASSUME NEW w \in Workers, WorkerStep(w)  PROVE FALSE
    <3>1. worker[w] = NoJob
      BY <2>2 DEF WorkerStep, StartCreate, StartUse, AnswerRead, StartClose, AnswerMissing,
                  TakeJob
    <3> QED BY <1>1, <3>1 DEF Starved
  <2>3. ASSUME NEW w \in Workers, ThreadStep(w)  PROVE FALSE
    <3>1. stage[worker[w]] = "thread"
      BY <2>3 DEF ThreadStep, FinishCreate, FailCreate, FinishUse, FinishClose, InThread
    <3> QED BY <1>1, <3>1 DEF Starved
  <2>4. ~Stop
    BY <1>1 DEF Stop
  <2> QED BY <1>1, <2>1, <2>2, <2>3, <2>4 DEF Next
<1>2. IInv /\ [Next]_vars
        => [Starved /\ running' =>
              /\ Starved'
              /\ \A r \in Reqs : stage[r] # "unsent" => stage'[r] = stage[r]]_vars
  BY <1>1
<1> QED BY <1>2, Invariance, PTL DEF Spec, StarvedForGood

-----------------------------------------------------------------------------
(* First come, first served.                                               *)

\* The first of two lines laid end to end.
LEMMA HeadOfLines ==
  ASSUME NEW p \in Seq(Reqs), NEW q \in Seq(Reqs)
  PROVE  /\ p # <<>> => Head(p \o q) = Head(p)
         /\ p = <<>> => p \o q = q
<1>1. CASE p # <<>>
  <2>1. Len(p) \in Nat \ {0} /\ Len(q) \in Nat
    BY <1>1, EmptySeq, LenProperties
  <2>2. (p \o q)[1] = p[1] /\ Len(p \o q) = Len(p) + Len(q)
    BY <2>1, ConcatProperties
  <2>3. p \o q # <<>> /\ p \o q \in Seq(Reqs)
    BY <2>1, <2>2, ConcatProperties, EmptySeq
  <2> QED BY <1>1, <2>2, <2>3
<1>2. CASE p = <<>>
  BY <1>2, ConcatEmptySeq
<1> QED BY <1>1, <1>2

SlotGoesTo(r) ==
  /\ kind[r] = "create" /\ stage[r] \in {"queued", "blocked"}
  /\ stage'[r] = "thread"

LEMMA OrderStep ==
  ASSUME IInv, [Next]_vars, NEW r \in Reqs, SlotGoesTo(r)
  PROVE  r = Head(waiters \o low)
<1>0. /\ TypeOK /\ waiters \in Seq(Reqs) /\ low \in Seq(Reqs)
      /\ stage \in [Reqs -> Stages] /\ slots \in Nat
  BY Sizes DEF IInv, TypeOK
<1>1. ASSUME NEW s \in Reqs, SubmitLow(s) \/ SubmitHigh(s) PROVE FALSE
  BY <1>0, <1>1 DEF SubmitLow, SubmitHigh, SlotGoesTo
<1>2. ASSUME NEW w \in Workers, StartCreate(w)
      PROVE  r = Head(waiters \o low)
  <2>1. /\ TakeJob(w) /\ kind[NextJob] = "create" /\ running
        /\ \A x \in Reqs \ {NextJob} : stage'[x] = stage[x]
    BY <1>0, <1>2 DEF StartCreate, KeepWorker, TakeJob
  <2>2. r = NextJob
    BY <2>1 DEF SlotGoesTo
  <2>3. high = <<>> /\ low # <<>>
    BY <2>1, JobTaken
  <2>4. slots > 0
    BY <1>0, <1>2, <2>2 DEF StartCreate, KeepWorker, SlotGoesTo
  <2>5. waiters = <<>>
    BY <1>0, <2>1, <2>4 DEF IInv, NoIdleSlot
  <2>6. NextJob = Head(low)
    BY <2>3 DEF NextJob
  <2> QED BY <1>0, <2>2, <2>5, <2>6, HeadOfLines
<1>3. ASSUME NEW w \in Workers,
             StartUse(w) \/ AnswerRead(w) \/ StartClose(w) \/ AnswerMissing(w)
      PROVE  FALSE
  <2>1. /\ kind[NextJob] # "create"
        /\ \A x \in Reqs \ {NextJob} : stage'[x] = stage[x]
    BY <1>0, <1>3 DEF StartUse, AnswerRead, StartClose, AnswerMissing, KeepWorker
  <2> QED BY <2>1 DEF SlotGoesTo
<1>4. ASSUME NEW w \in Workers, FinishCreate(w) \/ FinishUse(w) PROVE FALSE
  <2>1. \A x \in Reqs \ {worker[w]} : stage'[x] = stage[x]
    BY <1>0, <1>4 DEF FinishCreate, FinishUse
  <2>2. stage[worker[w]] = "thread"
    BY <1>4 DEF FinishCreate, FinishUse, InThread
  <2> QED BY <2>1, <2>2 DEF SlotGoesTo
<1>5. ASSUME NEW w \in Workers, FailCreate(w) \/ FinishClose(w)
      PROVE  r = Head(waiters \o low)
  <2>1. PICK a \in {"ok", "error"} : ReleaseSlot(worker[w], a)
    BY <1>5 DEF FailCreate, FinishClose
  <2>2. stage[worker[w]] = "thread"
    BY <1>5 DEF FailCreate, FinishClose, InThread
  <2>3. r # worker[w]
    BY <2>2 DEF SlotGoesTo
  <2>4. waiters # <<>> /\ r = Head(waiters)
    BY <1>0, <2>1, <2>3 DEF ReleaseSlot, SlotGoesTo
  <2> QED BY <1>0, <2>4, HeadOfLines
<1>6. CASE Stop
  BY <1>0, <1>6 DEF Stop, SlotGoesTo
<1>7. CASE UNCHANGED vars
  BY <1>7 DEF vars, SlotGoesTo
<1> QED BY <1>1, <1>2, <1>3, <1>4, <1>5, <1>6, <1>7 DEF Next, WorkerStep, ThreadStep

\* No create overtakes an older one on its way to a slot.
THEOREM SlotsAreOrdered == Spec => SlotsInOrder
<1>1. IInv /\ [Next]_vars =>
        [\A r \in Reqs :
           (kind[r] = "create" /\ stage[r] \in {"queued", "blocked"}
              /\ stage'[r] = "thread")
             => r = Head(waiters \o low)]_vars
  BY OrderStep DEF SlotGoesTo
<1> QED BY <1>1, Invariance, PTL DEF Spec, SlotsInOrder

-----------------------------------------------------------------------------
(* The server implements the pool.                                         *)

Life == [r \in Reqs |-> PhaseOf(r)]

\* The environments that hold a slot are the ones the server counts.
LEMMA HeldIsCounted ==
  ASSUME IInv
  PROVE  Pool!Held = Creating \cup envs \cup BeingClosed
<1>1. /\ envs \subseteq Reqs /\ Creating \subseteq Reqs
      /\ \A c \in Closing : c \in Reqs /\ target[c] \in Reqs
      /\ \A r \in Creating : kind[r] = "create" /\ stage[r] = "thread"
  BY DEF IInv, TypeOK, Creating, Closing, CreatesIn, ClosesIn
<1>2. BeingClosed \subseteq Reqs
  BY <1>1 DEF BeingClosed
<1>3. \A r \in Reqs :
        PhaseOf(r) \in {"starting", "live", "ending"}
          <=> r \in Creating \cup envs \cup BeingClosed
  BY DEF PhaseOf, Creating, CreatesIn
<1> QED BY <1>1, <1>2, <1>3 DEF Pool!Held, Pool!EnvsIn

\* While the semaphore has a slot, the pool has room.
LEMMA RoomInPool ==
  ASSUME IInv, running, slots > 0
  PROVE  Cardinality(Pool!Held) < PoolSize
<1> DEFINE f == [c \in Closing |-> target[c]]
<1>1. /\ IsFiniteSet(envs) /\ IsFiniteSet(Creating) /\ IsFiniteSet(Closing)
      /\ Cardinality(envs) \in Nat /\ Cardinality(Creating) \in Nat
      /\ Cardinality(Closing) \in Nat /\ slots \in Nat /\ PoolSize \in Nat
      /\ slots + Cardinality(envs) + Cardinality(Creating)
           + Cardinality(Closing) = PoolSize
  BY Sizes DEF IInv, SlotAccounting
<1>2. f \in Surjection(Closing, BeingClosed)
  BY DEF Surjection, BeingClosed
<1>3. /\ IsFiniteSet(BeingClosed)
      /\ Cardinality(BeingClosed) <= Cardinality(Closing)
  BY <1>1, <1>2, FS_Surjection
<1>4. Cardinality(BeingClosed) \in Nat
  BY <1>3, FS_CardinalityType
<1>5. /\ IsFiniteSet(Creating \cup envs)
      /\ Cardinality(Creating \cup envs)
           <= Cardinality(Creating) + Cardinality(envs)
  BY <1>1, UnionBound
<1>6. Cardinality(Creating \cup envs) \in Nat
  BY <1>5, FS_CardinalityType
<1>7. /\ Cardinality((Creating \cup envs) \cup BeingClosed)
           <= Cardinality(Creating \cup envs) + Cardinality(BeingClosed)
      /\ IsFiniteSet((Creating \cup envs) \cup BeingClosed)
  BY <1>3, <1>5, UnionBound
<1>8. Cardinality((Creating \cup envs) \cup BeingClosed) \in Nat
  BY <1>7, FS_CardinalityType
<1>9. Cardinality((Creating \cup envs) \cup BeingClosed) < PoolSize
  BY <1>1, <1>3, <1>4, <1>5, <1>6, <1>7, <1>8
<1> QED BY <1>9, HeldIsCounted

LEMMA QuietStep ==
  ASSUME IInv, running' = running, \A x \in Reqs : PhaseOf(x)' = PhaseOf(x)
  PROVE  UNCHANGED Pool!poolVars
BY DEF Pool!poolVars

LEMMA SubmitRefines ==
  ASSUME IInv, NEW r \in Reqs, SubmitLow(r) \/ SubmitHigh(r)
  PROVE  UNCHANGED Pool!poolVars
<1>1. /\ running' = running /\ envs' = envs
      /\ \A x \in Reqs \ {r} :
           kind'[x] = kind[x] /\ stage'[x] = stage[x] /\ target'[x] = target[x]
      /\ stage[r] = "unsent" /\ stage'[r] = "queued"
  BY DEF IInv, TypeOK, SubmitLow, SubmitHigh, poolVars
<1>2. Closing' = Closing /\ r \notin Closing
  BY <1>1 DEF Closing, ClosesIn
<1>3. BeingClosed' = BeingClosed
  BY <1>1, <1>2 DEF BeingClosed, Closing, ClosesIn
<1>4. r \notin envs /\ r \notin BeingClosed
  BY <1>1 DEF IInv, EnvsOK, BeingClosed, Closing, ClosesIn
<1>5. \A x \in Reqs : PhaseOf(x)' = PhaseOf(x)
  BY <1>1, <1>3, <1>4 DEF PhaseOf
<1> QED BY <1>1, <1>5, QuietStep

\* A job taken that changes no environment's life.
LEMMA QuietJobRefines ==
  ASSUME IInv, NEW w \in Workers,
         \/ StartUse(w) \/ AnswerRead(w) \/ AnswerMissing(w)
         \/ StartCreate(w) /\ ~ (slots > 0)
  PROVE  UNCHANGED Pool!poolVars
<1>a. /\ TakeJob(w) /\ envs' = envs
      /\ \A x \in Reqs \ {NextJob} : stage'[x] = stage[x]
  BY DEF IInv, TypeOK, StartUse, AnswerRead, AnswerMissing, StartCreate,
         KeepWorker, poolVars
<1>0. /\ TypeOK /\ running /\ kind' = kind /\ target' = target
      /\ NextJob \in Reqs /\ stage[NextJob] = "queued"
  BY <1>a, JobTaken
<1>b. /\ running' = running
      /\ kind[NextJob] = "create" => stage'[NextJob] = "blocked"
      /\ kind[NextJob] = "close" => stage'[NextJob] = "missing"
  BY <1>a, <1>0 DEF StartUse, AnswerRead, AnswerMissing, StartCreate,
                    KeepWorker, TypeOK, TakeJob
<1>1. Closing' = Closing
  BY <1>a, <1>0, <1>b DEF Closing, ClosesIn
<1>2. BeingClosed' = BeingClosed
  BY <1>0, <1>1 DEF BeingClosed
<1>3. NextJob \notin envs /\ NextJob \notin BeingClosed
  BY <1>0 DEF IInv, EnvsOK, BeingClosed, Closing, ClosesIn
<1>4. \A x \in Reqs : PhaseOf(x)' = PhaseOf(x)
  BY <1>a, <1>0, <1>b, <1>2, <1>3 DEF PhaseOf
<1> QED BY <1>b, <1>4, QuietStep

LEMMA GrantRefines ==
  ASSUME IInv, NEW w \in Workers, StartCreate(w), slots > 0
  PROVE  \E e \in Reqs : Pool!Grant(e)
<1>a. /\ TakeJob(w) /\ envs' = envs /\ kind[NextJob] = "create"
      /\ \A x \in Reqs \ {NextJob} : stage'[x] = stage[x]
  BY DEF IInv, TypeOK, StartCreate, KeepWorker
<1>0. /\ TypeOK /\ running /\ kind' = kind /\ target' = target
      /\ NextJob \in Reqs /\ stage[NextJob] = "queued"
  BY <1>a, JobTaken
<1>b. running' = running /\ stage'[NextJob] = "thread"
  BY <1>a, <1>0 DEF StartCreate, KeepWorker, TypeOK, TakeJob
<1>r. PICK r \in Reqs : r = NextJob
  BY <1>0
<1>c. /\ kind[r] = "create" /\ stage[r] = "queued" /\ stage'[r] = "thread"
      /\ \A x \in Reqs \ {r} : stage'[x] = stage[x]
  BY <1>a, <1>0, <1>b, <1>r
<1>1. Closing' = Closing
  BY <1>0, <1>c DEF Closing, ClosesIn
<1>2. BeingClosed' = BeingClosed
  BY <1>0, <1>1 DEF BeingClosed
<1>3. r \notin envs /\ r \notin BeingClosed
  BY <1>0, <1>c DEF IInv, EnvsOK, BeingClosed, Closing, ClosesIn
<1>4. \A x \in Reqs \ {r} : PhaseOf(x)' = PhaseOf(x)
  BY <1>a, <1>0, <1>c, <1>2 DEF PhaseOf
<1>5. PhaseOf(r) = "none" /\ PhaseOf(r)' = "starting"
  BY <1>0, <1>c, <1>3 DEF PhaseOf
<1>6. Life' = [Life EXCEPT ![r] = "starting"]
  BY <1>4, <1>5 DEF Life
<1>7. Cardinality(Pool!Held) < PoolSize
  BY <1>0, RoomInPool
<1>8. Life[r] = "none"
  BY <1>5 DEF Life
<1>9. Pool!Cardinality(Pool!Held) = Cardinality(Pool!Held)
  BY Zenon DEF Pool!Cardinality, Cardinality
<1>10. Pool!Grant(r)
  BY <1>0, <1>b, <1>6, <1>7, <1>8, <1>9, Zenon DEF Pool!Grant, Life
<1> QED BY <1>10

LEMMA RetireRefines ==
  ASSUME IInv, NEW w \in Workers, StartClose(w)
  PROVE  \E e \in Reqs : Pool!Retire(e)
<1>a. /\ TakeJob(w) /\ kind[NextJob] = "close" /\ target[NextJob] \in envs
      /\ envs' = envs \ {target[NextJob]}
      /\ \A x \in Reqs \ {NextJob} : stage'[x] = stage[x]
  BY DEF IInv, TypeOK, StartClose, KeepWorker
<1>0. /\ TypeOK /\ running /\ kind' = kind /\ target' = target
      /\ NextJob \in Reqs /\ stage[NextJob] = "queued"
  BY <1>a, JobTaken
<1>b. running' = running /\ stage'[NextJob] = "thread"
  BY <1>a, <1>0 DEF StartClose, KeepWorker, TypeOK, TakeJob
<1>t. PICK t \in Reqs : t = target[NextJob]
  BY <1>0 DEF TypeOK
<1>1. Closing' = Closing \cup {NextJob}
  BY <1>a, <1>0, <1>b DEF Closing, ClosesIn
<1>2. BeingClosed' = BeingClosed \cup {t}
  BY <1>0, <1>t, <1>1 DEF BeingClosed
<1>3. /\ kind[t] = "create" /\ stage[t] = "ok" /\ t \in envs
      /\ t # NextJob
  BY <1>a, <1>0, <1>t DEF IInv, EnvsOK
<1>4. \A x \in Reqs \ {t} : PhaseOf(x)' = PhaseOf(x)
  BY <1>a, <1>0, <1>b, <1>t, <1>2 DEF PhaseOf
<1>5. PhaseOf(t) = "live" /\ PhaseOf(t)' = "ending"
  BY <1>a, <1>0, <1>t, <1>2, <1>3 DEF PhaseOf
<1>6. Life' = [Life EXCEPT ![t] = "ending"]
  BY <1>4, <1>5 DEF Life
<1>7. Pool!Retire(t)
  BY <1>0, <1>b, <1>5, <1>6 DEF Pool!Retire, Life
<1> QED BY <1>7

LEMMA ReadyRefines ==
  ASSUME IInv, NEW w \in Workers, FinishCreate(w)
  PROVE  \E e \in Reqs : Pool!Ready(e)
<1>a. InThread(w, "create")
  BY DEF FinishCreate
<1>0. /\ TypeOK /\ running /\ kind' = kind /\ target' = target
      /\ worker[w] \in Reqs
      /\ kind[worker[w]] = "create" /\ stage[worker[w]] = "thread"
  BY <1>a, ThreadDone
<1>r. PICK r \in Reqs : r = worker[w]
  BY <1>0
<1>b. /\ running' = running /\ envs' = envs \cup {r}
      /\ stage'[r] = "ok" /\ \A x \in Reqs \ {r} : stage'[x] = stage[x]
  BY <1>0, <1>r DEF FinishCreate, InThread, TypeOK
<1>1. Closing' = Closing
  BY <1>0, <1>r, <1>b DEF Closing, ClosesIn
<1>2. BeingClosed' = BeingClosed
  BY <1>0, <1>1 DEF BeingClosed
<1>4. \A x \in Reqs \ {r} : PhaseOf(x)' = PhaseOf(x)
  BY <1>0, <1>b, <1>2 DEF PhaseOf
<1>5. PhaseOf(r) = "starting" /\ PhaseOf(r)' = "live"
  BY <1>0, <1>r, <1>b DEF PhaseOf
<1>6. Life' = [Life EXCEPT ![r] = "live"]
  BY <1>4, <1>5 DEF Life
<1>7. Pool!Ready(r)
  BY <1>0, <1>b, <1>5, <1>6 DEF Pool!Ready, Life
<1> QED BY <1>7

LEMMA FinishUseRefines ==
  ASSUME IInv, NEW w \in Workers, FinishUse(w)
  PROVE  UNCHANGED Pool!poolVars
<1>a. InThread(w, "use") /\ envs' = envs
  BY DEF FinishUse, poolVars
<1>0. /\ TypeOK /\ running /\ kind' = kind /\ target' = target
      /\ worker[w] \in Reqs
      /\ kind[worker[w]] = "use" /\ stage[worker[w]] = "thread"
  BY <1>a, ThreadDone
<1>b. /\ running' = running
      /\ \A x \in Reqs \ {worker[w]} : stage'[x] = stage[x]
  BY <1>0 DEF FinishUse, InThread, TypeOK
<1>1. Closing' = Closing
  BY <1>0, <1>b DEF Closing, ClosesIn
<1>2. BeingClosed' = BeingClosed
  BY <1>0, <1>1 DEF BeingClosed
<1>3. \A x \in Reqs : PhaseOf(x)' = PhaseOf(x)
  <2> SUFFICES ASSUME NEW x \in Reqs PROVE PhaseOf(x)' = PhaseOf(x)
    OBVIOUS
  <2>1. CASE x = worker[w]
    <3>1. kind[x] # "create" /\ kind'[x] # "create"
      BY <1>0, <2>1
    <3> QED BY <1>a, <1>2, <3>1 DEF PhaseOf
  <2>2. CASE x # worker[w]
    BY <1>a, <1>0, <1>b, <1>2, <2>2 DEF PhaseOf
  <2> QED BY <2>1, <2>2
<1> QED BY <1>b, <1>3, QuietStep

\* A slot given back is one pool step: a release, or a hand-over.
LEMMA ReleaseRefines ==
  ASSUME IInv, NEW w \in Workers, FailCreate(w) \/ FinishClose(w)
  PROVE  \/ \E e \in Reqs : Pool!Release(e)
         \/ \E e, f \in Reqs : Pool!HandOver(e, f)
<1>a. /\ InThread(w, "create") \/ InThread(w, "close")
      /\ envs' = envs
  BY DEF FailCreate, FinishClose
<1>r. PICK r \in Reqs : r = worker[w]
  BY <1>a, ThreadDone
<1>0. /\ TypeOK /\ running /\ running' = running
      /\ kind' = kind /\ target' = target
      /\ kind[r] \in {"create", "close"} /\ stage[r] = "thread"
  BY <1>a, <1>r, ThreadDone DEF InThread
<1>c. PICK a \in {"error", "ok"} :
        /\ ReleaseSlot(r, a)
        /\ kind[r] = "create" => a = "error"
  BY <1>r, <1>0 DEF FailCreate, FinishClose, InThread
\* The environment whose slot is given back.
<1>e. PICK e \in Reqs :
        /\ kind[r] = "create" => e = r
        /\ kind[r] = "close" => e = target[r]
  BY <1>0 DEF TypeOK
<1>d. waiters \in Seq(Reqs) /\ LineOf(waiters, kind, stage, {"create"}, "blocked")
  BY <1>0 DEF IInv, TypeOK, LinesOK
<1>1. /\ PhaseOf(e) \in {"starting", "ending"}
      /\ kind[e] = "create" /\ stage[e] \in {"thread", "ok"} /\ e \notin envs
      /\ kind[r] = "close" => stage[e] = "ok" /\ e # r
  <2>1. CASE kind[r] = "create"
    BY <1>0, <1>e, <2>1 DEF PhaseOf, IInv, EnvsOK
  <2>2. CASE kind[r] = "close"
    <3>1. r \in Closing /\ e \in BeingClosed
      BY <1>0, <1>e, <2>2 DEF Closing, ClosesIn, BeingClosed
    <3>2. kind[e] = "create" /\ stage[e] = "ok" /\ e \notin envs
      BY <1>0, <1>e, <2>2 DEF IInv, EnvsOK, ClosesIn
    <3> QED BY <2>2, <3>1, <3>2 DEF PhaseOf
  <2> QED BY <1>0, <2>1, <2>2
<1>2. /\ kind[r] = "create" => Closing' = Closing
      /\ kind[r] = "close" => Closing' = Closing \ {r}
  <2>1. \A x \in Reqs : kind[x] = "close" /\ x # r => stage'[x] = stage[x]
    <3>1. waiters # <<>> => kind[Head(waiters)] = "create"
      BY <1>d, LineHead
    <3> QED BY <1>0, <1>c, <3>1 DEF ReleaseSlot, TypeOK
  <2>2. stage'[r] # "thread"
    <3>1. waiters # <<>> => stage[Head(waiters)] = "blocked"
      BY <1>d, LineHead
    <3> QED BY <1>0, <1>c, <3>1 DEF ReleaseSlot, TypeOK
  <2> QED BY <1>0, <2>1, <2>2 DEF Closing, ClosesIn
<1>3. BeingClosed' = BeingClosed \ {e}
  <2>1. CASE kind[r] = "create"
    <3>1. e \notin BeingClosed
      BY <1>0, <1>e, <2>1 DEF BeingClosed, Closing, ClosesIn, IInv, EnvsOK
    <3> QED BY <1>0, <1>2, <2>1, <3>1 DEF BeingClosed
  <2>2. CASE kind[r] = "close"
    <3>1. \A c \in Closing \ {r} : target[c] # e
      BY <1>0, <1>e, <2>2 DEF IInv, ClosedOnce, Closing, ClosesIn
    <3> QED BY <1>0, <1>e, <1>2, <2>2, <3>1 DEF BeingClosed
  <2> QED BY <1>0, <2>1, <2>2
<1>4. CASE waiters = <<>>
  <2>1. /\ stage'[r] = a /\ \A x \in Reqs \ {r} : stage'[x] = stage[x]
    BY <1>0, <1>c, <1>4 DEF ReleaseSlot, TypeOK
  <2>2. PhaseOf(e)' = "gone"
    BY <1>a, <1>0, <1>c, <1>e, <1>1, <1>3, <2>1 DEF PhaseOf
  <2>3. \A x \in Reqs \ {e} : PhaseOf(x)' = PhaseOf(x)
    BY <1>a, <1>0, <1>e, <1>3, <2>1 DEF PhaseOf
  <2>4. Life' = [Life EXCEPT ![e] = "gone"]
    BY <2>2, <2>3 DEF Life
  <2>5. Pool!Release(e)
    BY <1>0, <1>1, <2>4 DEF Pool!Release, Life
  <2> QED BY <2>5
<1>5. CASE waiters # <<>>
  <2>h. PICK h \in Reqs : h = Head(waiters)
    BY <1>d, <1>5, LineHead
  <2>0. kind[h] = "create" /\ stage[h] = "blocked"
    BY <1>d, <1>5, <2>h, LineHead
  <2>1. /\ stage'[r] = a /\ stage'[h] = "thread"
        /\ \A x \in Reqs \ {r, h} : stage'[x] = stage[x]
    BY <1>0, <1>c, <1>5, <2>h, <2>0 DEF ReleaseSlot, TypeOK
  <2>2. h # e /\ h # r /\ h \notin envs /\ h \notin BeingClosed
    BY <1>0, <1>1, <2>0 DEF IInv, EnvsOK, BeingClosed, Closing, ClosesIn
  <2>3. PhaseOf(h) = "none" /\ PhaseOf(h)' = "starting"
    BY <1>0, <2>0, <2>1, <2>2 DEF PhaseOf
  <2>4. PhaseOf(e)' = "gone"
    BY <1>a, <1>0, <1>c, <1>e, <1>1, <1>3, <2>1, <2>2 DEF PhaseOf
  <2>5. \A x \in Reqs \ {e, h} : PhaseOf(x)' = PhaseOf(x)
    BY <1>a, <1>0, <1>e, <1>3, <2>1 DEF PhaseOf
  <2>6. Life' = [Life EXCEPT ![e] = "gone", ![h] = "starting"]
    BY <2>2, <2>3, <2>4, <2>5 DEF Life
  <2>7. Pool!HandOver(e, h)
    BY <1>0, <1>1, <2>3, <2>6 DEF Pool!HandOver, Life
  <2> QED BY <2>7
<1> QED BY <1>4, <1>5

LEMMA StopRefines ==
  ASSUME IInv, Stop
  PROVE  Pool!Shutdown
<1>0. /\ TypeOK /\ running /\ running' = FALSE
      /\ kind' = kind /\ envs' = {}
      /\ stage' = [r \in Reqs |->
           IF r \in Creating THEN "orphan"
           ELSE IF stage[r] \in {"queued", "blocked", "thread"} THEN "dropped"
           ELSE stage[r]]
  BY DEF IInv, Stop
<1>1. Closing' = {} /\ BeingClosed' = {}
  BY <1>0 DEF BeingClosed, Closing, ClosesIn
<1>2. \A x \in envs \cup BeingClosed : kind[x] = "create" /\ stage[x] = "ok"
  BY DEF IInv, EnvsOK, BeingClosed, Closing, ClosesIn
<1>3. ASSUME NEW x \in Reqs
      PROVE  PhaseOf(x)' = IF PhaseOf(x) = "none" THEN "none" ELSE "gone"
  <2>1. CASE kind[x] = "create" /\ stage[x] = "thread"
    <3>1. x \in Creating /\ stage'[x] = "orphan"
      BY <1>0, <2>1 DEF Creating, CreatesIn
    <3> QED BY <1>0, <1>1, <2>1, <3>1 DEF PhaseOf
  <2>2. CASE ~ (kind[x] = "create" /\ stage[x] = "thread")
    <3>1. stage'[x] = IF stage[x] \in {"queued", "blocked", "thread"}
                        THEN "dropped" ELSE stage[x]
      BY <1>0, <2>2 DEF Creating, CreatesIn
    <3>2. CASE x \in envs \cup BeingClosed
      BY <1>0, <1>1, <1>2, <2>2, <3>1, <3>2 DEF PhaseOf
    <3>3. CASE x \notin envs \cup BeingClosed
      BY <1>0, <1>1, <2>2, <3>1, <3>3 DEF PhaseOf
    <3> QED BY <3>2, <3>3
  <2> QED BY <2>1, <2>2
<1>4. Life' = [x \in Reqs |-> IF Life[x] = "none" THEN "none" ELSE "gone"]
  BY <1>3 DEF Life
<1> QED BY <1>0, <1>4 DEF Pool!Shutdown, Life

\* The server implements EnvPool: whatever its queues, workers and semaphore
\* do, callers see a pool that never has more than PoolSize environments.
THEOREM ServerImplementsPool == Spec => ImplementsPool
<1>1. Init => Pool!PoolInit
  <2> SUFFICES ASSUME Init PROVE Pool!PoolInit
    OBVIOUS
  <2>1. \A r \in Reqs : PhaseOf(r) = "none"
    BY DEF Init, PhaseOf, BeingClosed, Closing, ClosesIn
  <2> QED BY <2>1 DEF Init, Pool!PoolInit
<1>2. IInv /\ [Next]_vars => [Pool!PoolNext]_(Pool!poolVars)
  <2> SUFFICES ASSUME IInv, [Next]_vars
               PROVE  Pool!PoolNext \/ UNCHANGED Pool!poolVars
    OBVIOUS
  <2>1. ASSUME NEW r \in Reqs, SubmitLow(r) \/ SubmitHigh(r)
        PROVE  UNCHANGED Pool!poolVars
    BY <2>1, SubmitRefines
  <2>2. ASSUME NEW w \in Workers, WorkerStep(w)
        PROVE  Pool!PoolNext \/ UNCHANGED Pool!poolVars
    BY <2>2, QuietJobRefines, GrantRefines, RetireRefines
       DEF WorkerStep, Pool!PoolNext
  <2>3. ASSUME NEW w \in Workers, ThreadStep(w)
        PROVE  Pool!PoolNext \/ UNCHANGED Pool!poolVars
    BY <2>3, ReadyRefines, FinishUseRefines, ReleaseRefines
       DEF ThreadStep, Pool!PoolNext
  <2>4. CASE Stop
    BY <2>4, StopRefines DEF Pool!PoolNext
  <2>5. CASE UNCHANGED vars
    <3>1. \A r \in Reqs : PhaseOf(r)' = PhaseOf(r)
      BY <2>5 DEF vars, PhaseOf, BeingClosed, Closing, ClosesIn
    <3> QED BY <2>5, <3>1, QuietStep DEF vars
  <2> QED BY <2>1, <2>2, <2>3, <2>4, <2>5 DEF Next
<1> QED BY <1>1, <1>2, Invariance, PTL DEF Spec, ImplementsPool, Pool!PoolSpec
=============================================================================
