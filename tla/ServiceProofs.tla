-------------------------- MODULE ServiceProofs ---------------------------
(***************************************************************************)
(* Theorems about what the loops of all workers share: the engine pool,    *)
(* for every set of callers, every pool size and every number of starts,   *)
(* the rate limiter of requests, for any number of processes, and the      *)
(* choice of an inference server, for any servers, conversations and       *)
(* cache.                                                                  *)
(***************************************************************************)
EXTENDS StockfishPool, RateLimiter, ServerChoice, ListProofs

-----------------------------------------------------------------------------
(* The engine pool.  The argument is one inductive invariant, EnginesIInv: *)
(* an engine is in one place; whatever is not of the pool there is now, or *)
(* comes back to a queue that was dropped, was lent when a stop quit it.   *)

Generations ==
  /\ started => gen \in Queues /\ made = EnginesMax /\ ~filling
  /\ filling => gen \in Queues /\ made < EnginesMax
  /\ made > 0 => gen \in Queues
  /\ gen \in stops => ~started /\ ~filling /\ made = 0
  /\ \A g \in stops : g <= gen

LivesOK ==
  /\ \A e \in Engines : e[1] > gen => life[e] = "none"
  /\ filling => \A e \in Engines : e[1] = gen /\ e[2] > made => life[e] = "none"
  /\ \A e \in Wrappers : life[e] = "up"

\* What is in a queue that is not one of its own engines, or in a queue that
\* was dropped, was lent when it was quit.
QueuesOK ==
  /\ \A g \in Queues : g > gen => queue[g] = <<>>
  /\ \A g \in Queues, e \in Engines : InQueue(e, g) =>
       /\ e[1] <= g /\ life[e] # "none"
       /\ (e[1] # g \/ g \in stops) => e \in lentAtStop

NoTwice(q) == \A i, j \in 1 .. Len(q) : q[i] = q[j] => i = j

OnePlace ==
  /\ \A g \in Queues : NoTwice(queue[g])
  /\ \A g, h \in Queues, e \in Engines : InQueue(e, g) /\ InQueue(e, h) => g = h
  /\ \A c \in Holding, g \in Queues : ~InQueue(engine[c], g)
  /\ \A c, d \in Holding : engine[c] = engine[d] => c = d

CallersOK ==
  /\ \A c \in Callers : callerPc[c] \in Busy =>
       /\ waitsOn[c] \in Queues
       /\ waitsOn[c] \in stops \/ (waitsOn[c] = gen /\ started)
  /\ \A c \in Holding :
       /\ engine[c] \in Engines /\ engine[c][1] <= waitsOn[c]
       /\ life[engine[c]] # "none"
       /\ (engine[c][1] # gen \/ ~started) => engine[c] \in lentAtStop

\* NoEngineLost, from the moment the queue is made.
Available ==
  started \/ filling => \A e \in Wrappers :
    InQueue(e, gen) \/ \E c \in Holding : engine[c] = e

EnginesIInv ==
  /\ EnginesTypeOK /\ Generations /\ LivesOK /\ QueuesOK /\ OnePlace
  /\ CallersOK /\ Available /\ LeftOvers

-----------------------------------------------------------------------------
(* Queues.                                                                 *)

\* The code of asyncio.Queue.put_nowait: the queue has one more engine.
Gained(g, x) ==
  /\ queue' \in [Queues -> Seq(Engines)]
  /\ \A h \in Queues : h # g => queue'[h] = queue[h]
  /\ \A h \in Queues, e \in Engines :
       InQueue(e, h)' <=> (InQueue(e, h) \/ (h = g /\ e = x))

LEMMA QueueGets ==
  ASSUME EnginesTypeOK, NEW g \in Queues, NEW x \in Engines,
         queue' = [queue EXCEPT ![g] = Append(@, x)]
  PROVE  /\ Gained(g, x)
         /\ NoTwice(queue[g]) /\ ~InQueue(x, g) => NoTwice(queue'[g])
<1> DEFINE q == queue[g]
           r == queue'[g]
<1>1. queue \in [Queues -> Seq(Engines)] /\ q \in Seq(Engines)
  BY DEF EnginesTypeOK
<1>2. r = Append(q, x) /\ \A h \in Queues : h # g => queue'[h] = queue[h]
  BY <1>1
<1>3. /\ Len(q) \in Nat /\ r \in Seq(Engines)
      /\ Len(r) = Len(q) + 1 /\ r[Len(q) + 1] = x
      /\ \A i \in 1 .. Len(q) : r[i] = q[i]
  BY <1>1, <1>2, AppendProperties, LenProperties
<1>4. queue' \in [Queues -> Seq(Engines)]
  BY <1>1, <1>2, <1>3
<1> HIDE DEF q, r
<1>5. \A i \in 1 .. Len(r) : i \in 1 .. Len(q) \/ i = Len(q) + 1
  BY <1>3
<1>6. ASSUME NEW e \in Engines
      PROVE  (\E i \in 1 .. Len(r) : r[i] = e) <=> ((\E i \in 1 .. Len(q) : q[i] = e) \/ e = x)
  <2>1. ASSUME NEW i \in 1 .. Len(q) PROVE i \in 1 .. Len(r)
    BY <1>3
  <2>2. Len(q) + 1 \in 1 .. Len(r)
    BY <1>3
  <2> QED BY <1>3, <1>5, <2>1, <2>2
<1>7. ASSUME NEW h \in Queues, NEW e \in Engines
      PROVE  InQueue(e, h)' <=> (InQueue(e, h) \/ (h = g /\ e = x))
  <2>1. CASE h = g
    BY <1>6, <2>1 DEF InQueue, q, r
  <2>2. CASE h # g
    BY <1>2, <2>2 DEF InQueue
  <2> QED BY <2>1, <2>2
<1>8. ASSUME NoTwice(q), ~InQueue(x, g)
      PROVE  NoTwice(r)
  <2>1. \A i \in 1 .. Len(q) : q[i] # x
    BY <1>8 DEF InQueue, q
  <2>2. ASSUME NEW i \in 1 .. Len(r), NEW j \in 1 .. Len(r), r[i] = r[j]
        PROVE  i = j
    <3>1. CASE i \in 1 .. Len(q) /\ j \in 1 .. Len(q)
      BY <1>3, <1>8, <2>2, <3>1 DEF NoTwice
    <3>2. CASE i \in 1 .. Len(q) /\ j = Len(q) + 1
      BY <1>3, <2>1, <2>2, <3>2
    <3>3. CASE j \in 1 .. Len(q) /\ i = Len(q) + 1
      BY <1>3, <2>1, <2>2, <3>3
    <3> QED BY <1>5, <3>1, <3>2, <3>3
  <2> QED BY <2>2 DEF NoTwice
<1> QED BY <1>2, <1>4, <1>7, <1>8 DEF Gained, q, r

\* The code of asyncio.Queue.get: the first engine leaves.
LEMMA QueueGives ==
  ASSUME EnginesTypeOK, NEW g \in Queues, NoTwice(queue[g]), queue[g] # <<>>,
         queue' = [queue EXCEPT ![g] = Tail(@)]
  PROVE  /\ queue' \in [Queues -> Seq(Engines)]
         /\ \A h \in Queues : h # g => queue'[h] = queue[h]
         /\ Head(queue[g]) \in Engines /\ InQueue(Head(queue[g]), g)
         /\ \A h \in Queues, e \in Engines :
              InQueue(e, h)' <=> (InQueue(e, h) /\ ~(h = g /\ e = Head(queue[g])))
         /\ NoTwice(queue'[g])
<1> DEFINE q == queue[g]
           r == queue'[g]
           hd == Head(queue[g])
<1>1. queue \in [Queues -> Seq(Engines)] /\ q \in Seq(Engines)
  BY DEF EnginesTypeOK
<1>2. r = Tail(q) /\ \A h \in Queues : h # g => queue'[h] = queue[h]
  BY <1>1
<1>3. /\ Len(q) \in Nat \ {0} /\ Head(q) \in Engines /\ Head(q) = q[1]
      /\ r \in Seq(Engines) /\ Len(r) = Len(q) - 1
      /\ \A i \in 1 .. Len(r) : r[i] = q[i + 1]
  BY <1>1, <1>2, HeadTailProperties, EmptySeq
<1>4. queue' \in [Queues -> Seq(Engines)]
  BY <1>1, <1>2, <1>3
<1>0. NoTwice(q)
  OBVIOUS
<1>a. \A h \in Queues : h # g => queue'[h] = queue[h]
  BY <1>2
<1>b. hd = q[1] /\ hd \in Engines
  BY <1>3
<1> HIDE DEF q, r, hd
<1>5. /\ \A i \in 1 .. Len(r) : i + 1 \in 1 .. Len(q) /\ i + 1 # 1
      /\ 1 \in 1 .. Len(q)
      /\ \A i \in 1 .. Len(q) : i = 1 \/ (i - 1 \in 1 .. Len(r) /\ (i - 1) + 1 = i)
  BY <1>3
<1>6. ASSUME NEW e \in Engines
      PROVE  (\E i \in 1 .. Len(r) : r[i] = e) <=> ((\E i \in 1 .. Len(q) : q[i] = e) /\ e # hd)
  <2>1. ASSUME NEW i \in 1 .. Len(r), r[i] = e
        PROVE  (\E k \in 1 .. Len(q) : q[k] = e) /\ e # hd
    <3>1. q[i + 1] = e /\ i + 1 \in 1 .. Len(q) /\ i + 1 # 1
      BY <1>3, <1>5, <2>1
    <3>2. q[i + 1] # q[1]
      BY <1>0, <1>5, <3>1 DEF NoTwice
    <3> QED BY <1>b, <3>1, <3>2
  <2>2. ASSUME NEW i \in 1 .. Len(q), q[i] = e, e # hd
        PROVE  \E k \in 1 .. Len(r) : r[k] = e
    <3>1. i # 1
      BY <1>b, <2>2
    <3>2. i - 1 \in 1 .. Len(r) /\ (i - 1) + 1 = i
      BY <1>5, <3>1
    <3>3. r[i - 1] = q[(i - 1) + 1]
      BY <1>3, <3>2
    <3> QED BY <2>2, <3>2, <3>3
  <2> QED BY <2>1, <2>2
<1>7. ASSUME NEW h \in Queues, NEW e \in Engines
      PROVE  InQueue(e, h)' <=> (InQueue(e, h) /\ ~(h = g /\ e = hd))
  <2>1. CASE h = g
    BY <1>6, <2>1 DEF InQueue, q, r
  <2>2. CASE h # g
    BY <1>a, <2>2 DEF InQueue
  <2> QED BY <2>1, <2>2
<1>8. NoTwice(r)
  <2>1. ASSUME NEW i \in 1 .. Len(r), NEW j \in 1 .. Len(r), r[i] = r[j]
        PROVE  i = j
    <3>1. q[i + 1] = q[j + 1]
      BY <1>3, <2>1
    <3>2. i + 1 = j + 1
      BY <1>0, <1>5, <3>1 DEF NoTwice
    <3> QED BY <1>3, <3>2
  <2> QED BY <2>1 DEF NoTwice
<1>9. InQueue(hd, g)
  BY <1>b, <1>5 DEF InQueue, q
<1> QED BY <1>a, <1>3, <1>4, <1>7, <1>8, <1>9, <1>b DEF q, r, hd

\* An engine of a queue is one.
LEMMA QueueOfEngines ==
  ASSUME EnginesTypeOK, NEW g \in Queues, NEW e, InQueue(e, g)
  PROVE  e \in Engines
<1>1. queue[g] \in Seq(Engines)
  BY DEF EnginesTypeOK
<1> QED BY <1>1, ElementOfSeq DEF InQueue

\* A full queue of engines of its own has them all.
LEMMA FullQueue ==
  ASSUME EnginesTypeOK, NEW g \in Queues, NoTwice(queue[g]),
         NEW x \in Engines, x[1] = g, ~InQueue(x, g),
         \A e \in Engines : InQueue(e, g) => e[1] = g
  PROVE  Len(queue[g]) < EnginesMax
<1> DEFINE q == queue[g]
           others == (1 .. EnginesMax) \ {x[2]}
           f == [i \in 1 .. Len(q) |-> q[i][2]]
<1>1. q \in Seq(Engines) /\ Len(q) \in Nat
  BY LenProperties DEF EnginesTypeOK
<1>2. x[2] \in 1 .. EnginesMax
  BY DEF Engines
<1>3. IsFiniteSet(others) /\ Cardinality(others) = EnginesMax - 1
  <2>1. IsFiniteSet(1 .. EnginesMax) /\ Cardinality(1 .. EnginesMax) = EnginesMax
    BY FS_Interval, EnginesAssumption
  <2> QED BY <2>1, <1>2, FS_RemoveElement
<1>4. ASSUME NEW i \in 1 .. Len(q)
      PROVE  /\ q[i] \in Engines /\ q[i][1] = g /\ q[i] # x
             /\ q[i] = <<q[i][1], q[i][2]>> /\ q[i][2] \in 1 .. EnginesMax
  <2>1. InQueue(q[i], g)
    BY DEF InQueue
  <2>2. q[i] \in Engines
    BY <2>1, QueueOfEngines
  <2> HIDE DEF q
  <2> QED BY <2>1, <2>2 DEF Engines
<1>5. x = <<g, x[2]>>
  BY DEF Engines
<1>0. NoTwice(q)
  OBVIOUS
<1> HIDE DEF q
<1>6. f \in Injection(1 .. Len(q), others)
  <2>1. ASSUME NEW i \in 1 .. Len(q) PROVE q[i][2] \in others
    BY <1>4, <1>5
  <2>2. ASSUME NEW i \in 1 .. Len(q), NEW j \in 1 .. Len(q), f[i] = f[j]
        PROVE  i = j
    <3>1. q[i] = q[j]
      BY <1>4, <2>2
    <3> QED BY <3>1, <1>0 DEF NoTwice
  <2>3. f \in [1 .. Len(q) -> others]
    BY <2>1
  <2> QED BY <2>2, <2>3 DEF Injection, IsInjective
<1>7. Cardinality(1 .. Len(q)) <= Cardinality(others)
  BY <1>3, <1>6, FS_Injection
<1>8. Cardinality(1 .. Len(q)) = Len(q)
  BY <1>1, FS_Interval
<1>9. Len(q) < EnginesMax
  BY <1>1, <1>3, <1>7, <1>8, EnginesAssumption
<1> QED BY <1>9 DEF q

-----------------------------------------------------------------------------
(* Callers.                                                                *)

\* A caller leaves the pool's own state alone.
LEMMA OwnersIdle ==
  ASSUME EnginesIInv, UNCHANGED ownerVars
  PROVE  /\ Generations' /\ LivesOK' /\ Wrappers' = Wrappers
         /\ started' = started /\ filling' = filling /\ gen' = gen /\ made' = made
         /\ life' = life /\ stops' = stops /\ lentAtStop' = lentAtStop
BY DEF EnginesIInv, ownerVars, Generations, LivesOK, Wrappers

LEMMA WrappersAreEngines ==
  ASSUME EnginesTypeOK, Generations
  PROVE  Wrappers \subseteq Engines
<1> SUFFICES ASSUME NEW i \in 1 .. made PROVE <<gen, i>> \in Engines
  BY DEF Wrappers
<1>1. gen \in Queues /\ i \in 1 .. EnginesMax
  BY EnginesAssumption DEF EnginesTypeOK, Generations, Queues
<1> QED BY <1>1 DEF Engines

\* What a caller that neither gets nor puts back does: it waits, raises or
\* gives up.
LEMMA WaitKeeps ==
  ASSUME EnginesIInv, NEW c \in Callers, UNCHANGED <<ownerVars, queue, engine>>,
         c \notin Holding,
         NEW p \in {"waiting", "answered"}, callerPc' = [callerPc EXCEPT ![c] = p],
         NEW w \in 0 .. MaxStarts, waitsOn' = [waitsOn EXCEPT ![c] = w],
         p = "waiting" => w = gen /\ started
  PROVE  EnginesIInv'
<1>0. queue' = queue /\ engine' = engine
  OBVIOUS
<1>1. /\ Generations' /\ LivesOK' /\ Wrappers' = Wrappers
      /\ started' = started /\ filling' = filling /\ gen' = gen /\ made' = made
      /\ life' = life /\ stops' = stops /\ lentAtStop' = lentAtStop
  BY OwnersIdle
<1>2. EnginesTypeOK /\ Generations /\ CallersOK
  BY DEF EnginesIInv
<1>3. /\ callerPc'[c] = p /\ \A d \in Callers : d # c => callerPc'[d] = callerPc[d]
      /\ waitsOn'[c] = w /\ \A d \in Callers : d # c => waitsOn'[d] = waitsOn[d]
  BY <1>2 DEF EnginesTypeOK
<1>4. Holding' = Holding
  BY <1>3 DEF Holding
<1>5. EnginesTypeOK'
  BY <1>0, <1>1, <1>2 DEF EnginesTypeOK, CallerPCs
<1>6. QueuesOK' /\ OnePlace' /\ Available'
  BY <1>0, <1>1, <1>4 DEF EnginesIInv, QueuesOK, OnePlace, Available, InQueue
<1>7. CallersOK'
  <2>1. ASSUME NEW d \in Callers, callerPc'[d] \in Busy
        PROVE  waitsOn'[d] \in Queues /\ (waitsOn'[d] \in stops \/ (waitsOn'[d] = gen /\ started))
    BY <1>2, <1>3, <2>1 DEF CallersOK, Generations, Busy
  <2>2. ASSUME NEW d \in Holding
        PROVE  waitsOn'[d] = waitsOn[d]
    BY <1>3 DEF Holding
  <2> QED BY <1>0, <1>1, <1>2, <1>4, <2>1, <2>2 DEF CallersOK
<1>8. LeftOvers'
  <2>1. \A e \in Engines : Reachable(e)' <=> Reachable(e)
    BY <1>0, <1>4 DEF Reachable, InQueue
  <2>2. \A d \in Callers : callerPc'[d] = "putting" => callerPc[d] = "putting"
    BY <1>3
  <2> QED BY <1>1, <2>1, <2>2 DEF EnginesIInv, LeftOvers
<1> QED BY <1>1, <1>5, <1>6, <1>7, <1>8 DEF EnginesIInv

\* The engine a caller gets leaves the queue and no other has it.
LEMMA GetKeeps ==
  ASSUME EnginesIInv, NEW c \in Callers, NEW g \in Queues, GetFrom(c, g),
         UNCHANGED ownerVars, c \notin Holding,
         g \in stops \/ (g = gen /\ started)
  PROVE  EnginesIInv'
<1> DEFINE x == Head(queue[g])
<1>1. /\ Generations' /\ LivesOK' /\ Wrappers' = Wrappers
      /\ started' = started /\ filling' = filling /\ gen' = gen /\ made' = made
      /\ life' = life /\ stops' = stops /\ lentAtStop' = lentAtStop
  BY OwnersIdle
<1>2. EnginesTypeOK /\ Generations /\ CallersOK /\ QueuesOK /\ OnePlace /\ Available /\ LeftOvers
  BY DEF EnginesIInv
<1>3. /\ queue[g] # <<>> /\ queue' = [queue EXCEPT ![g] = Tail(@)]
      /\ NoTwice(queue[g])
  BY <1>2 DEF GetFrom, OnePlace
<1>4. /\ callerPc'[c] = "using" /\ \A d \in Callers : d # c => callerPc'[d] = callerPc[d]
      /\ waitsOn'[c] = g /\ \A d \in Callers : d # c => waitsOn'[d] = waitsOn[d]
      /\ engine'[c] = x /\ \A d \in Callers : d # c => engine'[d] = engine[d]
  BY <1>2 DEF EnginesTypeOK, GetFrom
<1>5. Holding' = Holding \cup {c}
  BY <1>4 DEF Holding
<1>6. /\ queue' \in [Queues -> Seq(Engines)]
      /\ \A h \in Queues : h # g => queue'[h] = queue[h]
      /\ x \in Engines /\ InQueue(x, g)
      /\ \A h \in Queues, e \in Engines :
           InQueue(e, h)' <=> (InQueue(e, h) /\ ~(h = g /\ e = x))
      /\ NoTwice(queue'[g])
  BY <1>2, <1>3, QueueGives
<1>7. \A d \in Holding : d \in Callers /\ d # c /\ engine'[d] = engine[d] /\ waitsOn'[d] = waitsOn[d]
                          /\ engine[d] \in Engines
  BY <1>2, <1>4 DEF Holding, CallersOK
<1>0. \A d \in Holding : engine[d] # x
  BY <1>2, <1>6 DEF OnePlace
<1>g. g <= gen
  BY <1>2, <1>1 DEF Generations, EnginesTypeOK, Queues
<1>t. /\ engine' = [engine EXCEPT ![c] = x] /\ waitsOn' = [waitsOn EXCEPT ![c] = g]
      /\ callerPc' = [callerPc EXCEPT ![c] = "using"]
  BY DEF GetFrom
<1> HIDE DEF x
<1>8. EnginesTypeOK'
  <2>1. engine' \in [Callers -> Engines \cup {<<0, 0>>}] /\ waitsOn' \in [Callers -> 0 .. MaxStarts]
        /\ callerPc' \in [Callers -> CallerPCs]
    BY <1>t, <1>2, <1>6 DEF EnginesTypeOK, CallerPCs, Queues
  <2> QED BY <1>1, <1>2, <1>6, <2>1 DEF EnginesTypeOK
<1>9. QueuesOK'
  <2>1. \A h \in Queues : h > gen => queue'[h] = <<>>
    BY <1>2, <1>6, <1>g DEF QueuesOK, Queues, EnginesTypeOK
  <2> QED BY <1>1, <1>2, <1>6, <2>1 DEF QueuesOK
<1>10. OnePlace'
  <2>1. \A h \in Queues : NoTwice(queue'[h])
    BY <1>2, <1>6 DEF OnePlace
  <2>2. \A h, k \in Queues, e \in Engines : InQueue(e, h)' /\ InQueue(e, k)' => h = k
    BY <1>2, <1>6 DEF OnePlace
  <2>3. ASSUME NEW d \in Holding', NEW h \in Queues PROVE ~InQueue(engine[d], h)'
    <3> SUFFICES \A e \in Engines : e = engine'[d] => ~InQueue(e, h)'
      BY <1>4, <1>5, <1>6, <1>7 DEF InQueue
    <3>1. CASE d = c
      BY <1>2, <1>4, <1>6, <3>1 DEF OnePlace
    <3>2. CASE d \in Holding
      BY <1>2, <1>6, <1>7, <3>2 DEF OnePlace
    <3> QED BY <1>5, <3>1, <3>2
  <2>4. \A d, k \in Holding' : engine'[d] = engine'[k] => d = k
    BY <1>2, <1>0, <1>4, <1>5, <1>7 DEF OnePlace
  <2> QED BY <2>1, <2>2, <2>3, <2>4 DEF OnePlace
<1>11. CallersOK'
  <2>1. ASSUME NEW d \in Callers, callerPc'[d] \in Busy
        PROVE  waitsOn'[d] \in Queues /\ (waitsOn'[d] \in stops \/ (waitsOn'[d] = gen /\ started))
    BY <1>2, <1>4, <2>1 DEF CallersOK
  <2>2. ASSUME NEW d \in Holding'
        PROVE  /\ engine'[d] \in Engines /\ engine'[d][1] <= waitsOn'[d]
               /\ life[engine'[d]] # "none"
               /\ (engine'[d][1] # gen \/ ~started) => engine'[d] \in lentAtStop
    <3>1. CASE d = c
      <4>1. x[1] <= g /\ life[x] # "none" /\ ((x[1] # g \/ g \in stops) => x \in lentAtStop)
        BY <1>2, <1>6 DEF QueuesOK
      <4> QED BY <1>4, <1>6, <3>1, <4>1
    <3>2. CASE d \in Holding
      BY <1>2, <1>7, <3>2 DEF CallersOK
    <3> QED BY <1>5, <3>1, <3>2
  <2> QED BY <1>1, <2>1, <2>2 DEF CallersOK
<1>12. Available'
  <2>1. ASSUME NEW e \in Wrappers, started \/ filling
        PROVE  InQueue(e, gen)' \/ \E d \in Holding' : engine'[d] = e
    <3>1. e \in Engines /\ gen \in Queues
      BY <1>2, <2>1, WrappersAreEngines DEF Generations
    <3>2. CASE InQueue(e, gen)
      BY <1>1, <1>4, <1>5, <1>6, <3>1, <3>2
    <3>3. CASE \E d \in Holding : engine[d] = e
      BY <1>5, <1>7, <3>3
    <3> QED BY <1>2, <2>1, <3>2, <3>3 DEF Available
  <2> QED BY <1>1, <2>1 DEF Available, InQueue
<1>13. LeftOvers'
  <2>1. ASSUME NEW e \in Engines, Reachable(e)' PROVE Reachable(e)
    BY <2>1, <1>4, <1>5, <1>6, <1>7 DEF Reachable
  <2>2. \A d \in Callers : callerPc'[d] = "putting" => callerPc[d] = "putting"
    BY <1>4
  <2> QED BY <1>1, <1>2, <2>1, <2>2 DEF LeftOvers
<1> QED BY <1>1, <1>8, <1>9, <1>10, <1>11, <1>12, <1>13 DEF EnginesIInv

\* Where a caller may put its engine back.
LEMMA WayBack ==
  ASSUME EnginesIInv, NEW c \in Holding, NEW w \in Queues,
         (w = gen /\ started) \/ w = waitsOn[c]
  PROVE  /\ c \in Callers /\ engine[c] \in Engines /\ life[engine[c]] # "none"
         /\ w <= gen /\ engine[c][1] <= w
         /\ (engine[c][1] # w \/ w \in stops) => engine[c] \in lentAtStop
<1>1. /\ c \in Callers /\ callerPc[c] \in Busy /\ Generations /\ EnginesTypeOK /\ CallersOK
  BY DEF Holding, Busy, EnginesIInv
<1>2. /\ engine[c] \in Engines /\ engine[c][1] <= waitsOn[c] /\ life[engine[c]] # "none"
      /\ (engine[c][1] # gen \/ ~started) => engine[c] \in lentAtStop
      /\ waitsOn[c] \in Queues /\ (waitsOn[c] \in stops \/ (waitsOn[c] = gen /\ started))
  BY <1>1 DEF CallersOK
<1>3. /\ gen \in Nat /\ w \in Nat /\ waitsOn[c] \in Nat /\ engine[c][1] \in Nat
  BY <1>1, <1>2 DEF EnginesTypeOK, Queues, Engines
<1>4. waitsOn[c] <= gen
  BY <1>1, <1>2, <1>3 DEF Generations
<1>5. gen \in stops => ~started
  BY <1>1 DEF Generations
<1>6. CASE w = gen /\ started
  BY <1>1, <1>2, <1>3, <1>4, <1>5, <1>6
<1>7. CASE w = waitsOn[c]
  BY <1>1, <1>2, <1>3, <1>4, <1>5, <1>7
<1> QED BY <1>6, <1>7

\* The engine goes to a queue, and its caller has it no more.
LEMMA ReturnKeeps ==
  ASSUME EnginesIInv, NEW c \in Holding, NEW w \in Queues,
         (w = gen /\ started) \/ w = waitsOn[c],
         callerPc' = [callerPc EXCEPT ![c] = "answered"],
         queue' = [queue EXCEPT ![w] = Append(@, engine[c])],
         UNCHANGED <<ownerVars, waitsOn, engine>>
  PROVE  EnginesIInv'
<1> DEFINE x == engine[c]
<1>1. /\ Generations' /\ LivesOK' /\ Wrappers' = Wrappers
      /\ started' = started /\ filling' = filling /\ gen' = gen /\ made' = made
      /\ life' = life /\ stops' = stops /\ lentAtStop' = lentAtStop
  BY OwnersIdle
<1>2. EnginesTypeOK /\ Generations /\ CallersOK /\ QueuesOK /\ OnePlace /\ Available /\ LeftOvers
  BY DEF EnginesIInv
<1>3. /\ c \in Callers /\ x \in Engines /\ life[x] # "none"
      /\ w <= gen /\ x[1] <= w
      /\ (x[1] # w \/ w \in stops) => x \in lentAtStop
  BY WayBack
<1>4. ~InQueue(x, w) /\ NoTwice(queue[w]) /\ \A g \in Queues : ~InQueue(x, g)
  BY <1>2 DEF OnePlace
<1>5. /\ queue' \in [Queues -> Seq(Engines)]
      /\ \A h \in Queues : h # w => queue'[h] = queue[h]
      /\ \A h \in Queues, e \in Engines :
           InQueue(e, h)' <=> (InQueue(e, h) \/ (h = w /\ e = x))
      /\ NoTwice(queue'[w])
  <2>1. Gained(w, x) /\ NoTwice(queue'[w])
    BY <1>2, <1>3, <1>4, QueueGets, Zenon
  <2> QED BY ONLY <2>1 DEF Gained
<1>6. /\ callerPc'[c] = "answered" /\ \A d \in Callers : d # c => callerPc'[d] = callerPc[d]
      /\ callerPc' \in [Callers -> CallerPCs]
  BY <1>2, <1>3 DEF EnginesTypeOK, CallerPCs
<1>7. Holding' = Holding \ {c}
  BY <1>6 DEF Holding
<1>8. engine' = engine /\ waitsOn' = waitsOn
  OBVIOUS
<1>9. \A d \in Holding : engine[d] \in Engines /\ (d # c => engine[d] # x)
  BY <1>2 DEF CallersOK, OnePlace
<1> HIDE DEF x
<1>10. EnginesTypeOK'
  BY <1>1, <1>2, <1>5, <1>6, <1>8 DEF EnginesTypeOK
<1>11. QueuesOK'
  <2>1. \A h \in Queues : h > gen => queue'[h] = <<>>
    BY <1>2, <1>3, <1>5 DEF QueuesOK, Queues, EnginesTypeOK
  <2> QED BY <1>1, <1>2, <1>3, <1>5, <2>1 DEF QueuesOK
<1>12. OnePlace'
  <2>1. \A h \in Queues : NoTwice(queue'[h])
    BY <1>2, <1>5 DEF OnePlace
  <2>2. \A h, k \in Queues, e \in Engines : InQueue(e, h)' /\ InQueue(e, k)' => h = k
    BY <1>2, <1>4, <1>5 DEF OnePlace
  <2>3. ASSUME NEW d \in Holding', NEW h \in Queues PROVE ~InQueue(engine[d], h)'
    <3> SUFFICES \A e \in Engines : e = engine[d] => ~InQueue(e, h)'
      BY <1>7, <1>8, <1>9 DEF InQueue
    <3> QED BY <1>2, <1>5, <1>7, <1>9 DEF OnePlace
  <2>4. \A d, k \in Holding' : engine'[d] = engine'[k] => d = k
    BY <1>2, <1>7, <1>8 DEF OnePlace
  <2> QED BY <2>1, <2>2, <2>3, <2>4 DEF OnePlace
<1>13. CallersOK'
  BY <1>1, <1>2, <1>3, <1>6, <1>7, <1>8 DEF CallersOK, Busy
<1>14. Available'
  <2>1. ASSUME NEW e \in Wrappers, started \/ filling
        PROVE  InQueue(e, gen)' \/ \E d \in Holding' : engine[d] = e
    <3>1. e \in Engines /\ gen \in Queues
      BY <1>2, <2>1, WrappersAreEngines DEF Generations
    <3>2. CASE InQueue(e, gen)
      BY <1>1, <1>5, <3>1, <3>2
    <3>3. CASE \E d \in Holding : engine[d] = e /\ d # c
      BY <1>7, <3>3
    <3>4. CASE e = x
      <4>1. e[1] = gen
        BY <2>1 DEF Wrappers
      <4>2. w = gen
        BY <1>2, <1>3, <3>4, <4>1 DEF EnginesTypeOK, Queues
      <4> QED BY <1>1, <1>3, <1>5, <3>4, <4>2
    <3> QED BY <1>2, <2>1, <3>2, <3>3, <3>4 DEF Available, x
  <2> QED BY <1>1, <1>8, <2>1 DEF Available, InQueue
<1>15. LeftOvers'
  <2>1. ASSUME NEW e \in Engines, Reachable(e)' PROVE Reachable(e)
    BY <2>1, <1>3, <1>5, <1>7, <1>8 DEF Reachable, x
  <2>2. \A d \in Callers : callerPc'[d] = "putting" => callerPc[d] = "putting"
    BY <1>6
  <2> QED BY <1>1, <1>2, <2>1, <2>2 DEF LeftOvers
<1> QED BY <1>1, <1>10, <1>11, <1>12, <1>13, <1>14, <1>15 DEF EnginesIInv

\* There is no pool any more: the engine is dropped.
LEMMA DropKeeps ==
  ASSUME EnginesIInv, NEW c \in Holding, ~started,
         callerPc' = [callerPc EXCEPT ![c] = "answered"],
         UNCHANGED <<ownerVars, queue, waitsOn, engine>>
  PROVE  EnginesIInv'
<1>1. /\ Generations' /\ LivesOK' /\ Wrappers' = Wrappers
      /\ started' = started /\ filling' = filling /\ gen' = gen /\ made' = made
      /\ life' = life /\ stops' = stops /\ lentAtStop' = lentAtStop
  BY OwnersIdle
<1>2. EnginesTypeOK /\ Generations /\ CallersOK /\ QueuesOK /\ OnePlace /\ Available /\ LeftOvers
  BY DEF EnginesIInv
<1>3. queue' = queue /\ waitsOn' = waitsOn /\ engine' = engine
  OBVIOUS
<1>4. /\ c \in Callers /\ callerPc'[c] = "answered"
      /\ \A d \in Callers : d # c => callerPc'[d] = callerPc[d]
      /\ callerPc' \in [Callers -> CallerPCs]
  BY <1>2 DEF EnginesTypeOK, CallerPCs, Holding
<1>5. Holding' = Holding \ {c}
  BY <1>4 DEF Holding
<1>6. EnginesTypeOK' /\ QueuesOK'
  BY <1>1, <1>2, <1>3, <1>4 DEF EnginesTypeOK, QueuesOK, InQueue
<1>7. OnePlace' /\ CallersOK'
  <2>1. OnePlace'
    BY <1>2, <1>3, <1>5 DEF OnePlace, InQueue
  <2>2. CallersOK'
    BY <1>1, <1>2, <1>3, <1>4, <1>5 DEF CallersOK, Busy
  <2> QED BY <2>1, <2>2
<1>8. Available'
  <2>1. ASSUME filling, NEW e \in Wrappers PROVE e # engine[c]
    <3>1. e[1] = gen /\ gen \in Queues /\ gen \notin stops
      BY <1>2, <2>1 DEF Wrappers, Generations
    <3>2. /\ engine[c] \in Engines /\ engine[c][1] <= waitsOn[c]
          /\ waitsOn[c] \in Queues /\ waitsOn[c] \in stops
      BY <1>2 DEF CallersOK, Holding, Busy
    <3>3. waitsOn[c] < gen
      BY <1>2, <3>1, <3>2 DEF Generations, Queues
    <3> QED BY <3>1, <3>2, <3>3 DEF Queues, Engines
  <2> QED BY <1>1, <1>2, <1>3, <1>5, <2>1 DEF Available, InQueue
<1>9. LeftOvers'
  <2>1. ASSUME NEW e \in Engines, Reachable(e)' PROVE Reachable(e)
    BY <2>1, <1>3, <1>5 DEF Reachable, InQueue
  <2>2. \A d \in Callers : callerPc'[d] = "putting" => callerPc[d] = "putting"
    BY <1>4
  <2> QED BY <1>1, <1>2, <2>1, <2>2 DEF LeftOvers
<1> QED BY <1>1, <1>6, <1>7, <1>8, <1>9 DEF EnginesIInv

\* The queue is full: the caller waits for room, which it can only have to if
\* some engine in it, or its own, is of an earlier pool.
LEMMA FullKeeps ==
  ASSUME EnginesIInv, NEW c \in Holding, started, ~Room,
         callerPc' = [callerPc EXCEPT ![c] = "putting"],
         waitsOn' = [waitsOn EXCEPT ![c] = gen],
         UNCHANGED <<ownerVars, queue, engine>>
  PROVE  EnginesIInv'
<1>1. /\ Generations' /\ LivesOK' /\ Wrappers' = Wrappers
      /\ started' = started /\ filling' = filling /\ gen' = gen /\ made' = made
      /\ life' = life /\ stops' = stops /\ lentAtStop' = lentAtStop
  BY OwnersIdle
<1>2. EnginesTypeOK /\ Generations /\ CallersOK /\ QueuesOK /\ OnePlace /\ Available /\ LeftOvers
  BY DEF EnginesIInv
<1>3. queue' = queue /\ engine' = engine
  OBVIOUS
<1>4. /\ c \in Callers /\ callerPc'[c] = "putting" /\ waitsOn'[c] = gen /\ gen \in Queues
      /\ \A d \in Callers : d # c => callerPc'[d] = callerPc[d] /\ waitsOn'[d] = waitsOn[d]
  BY <1>2 DEF EnginesTypeOK, Holding, Generations
<1>5. Holding' = Holding
  BY <1>4 DEF Holding
<1>6. EnginesTypeOK'
  BY <1>1, <1>2, <1>3, <1>4 DEF EnginesTypeOK, CallerPCs
<1>7. QueuesOK' /\ OnePlace' /\ Available'
  BY <1>1, <1>2, <1>3, <1>5 DEF QueuesOK, OnePlace, Available, InQueue
<1>8. CallersOK'
  <2>0. engine[c][1] <= gen
    BY <1>4, WayBack
  <2>1. ASSUME NEW d \in Callers, callerPc'[d] \in Busy
        PROVE  waitsOn'[d] \in Queues /\ (waitsOn'[d] \in stops \/ (waitsOn'[d] = gen /\ started))
    BY <1>2, <1>4, <2>1 DEF CallersOK
  <2>2. ASSUME NEW d \in Holding
        PROVE  engine[d][1] <= waitsOn'[d]
    BY <1>2, <1>4, <2>0 DEF CallersOK, Holding
  <2> QED BY <1>1, <1>2, <1>3, <1>5, <2>1, <2>2 DEF CallersOK
<1>9. LeftOvers'
  <2>1. \A e \in Engines : Reachable(e)' <=> Reachable(e)
    BY <1>3, <1>5 DEF Reachable, InQueue
  <2>2. lentAtStop # {}
    <3> SUFFICES ASSUME lentAtStop = {} PROVE FALSE
      OBVIOUS
    <3>1. engine[c] \in Engines /\ engine[c][1] = gen
      BY <1>2 DEF CallersOK
    <3>2. ~InQueue(engine[c], gen) /\ NoTwice(queue[gen])
      BY <1>2, <1>4 DEF OnePlace
    <3>3. \A e \in Engines : InQueue(e, gen) => e[1] = gen
      BY <1>2, <1>4 DEF QueuesOK
    <3>4. Len(queue[gen]) < EnginesMax
      BY <1>2, <1>4, <3>1, <3>2, <3>3, FullQueue
    <3> QED BY <3>4 DEF Room
  <2> QED BY <1>1, <1>2, <2>1, <2>2 DEF LeftOvers
<1> QED BY <1>1, <1>6, <1>7, <1>8, <1>9 DEF EnginesIInv

-----------------------------------------------------------------------------
(* start() and stop().                                                     *)

LEMMA EnginesInitIInv == EnginesInit => EnginesIInv
<1> SUFFICES ASSUME EnginesInit PROVE EnginesIInv
  OBVIOUS
<1> USE EnginesAssumption DEF EnginesInit
<1>1. EnginesTypeOK
  <2>1. <<>> \in Seq(Engines)
    BY EmptySeq
  <2>2. queue \in [Queues -> Seq(Engines)]
    BY <2>1
  <2>3. gen \in 0 .. MaxStarts /\ made \in 0 .. EnginesMax
    OBVIOUS
  <2>4. /\ callerPc \in [Callers -> CallerPCs] /\ waitsOn \in [Callers -> 0 .. MaxStarts]
        /\ engine \in [Callers -> Engines \cup {<<0, 0>>}]
        /\ life \in [Engines -> {"none", "up", "quit"}]
    BY DEF CallerPCs
  <2> QED BY <2>2, <2>3, <2>4 DEF EnginesTypeOK
<1>2. Holding = {} /\ Wrappers = {}
  BY DEF Holding, Wrappers
<1>3. \A g \in Queues : queue[g] = <<>> /\ Len(queue[g]) = 0
  OBVIOUS
<1>4. ASSUME NEW g \in Queues, NEW e PROVE ~InQueue(e, g)
  BY <1>3 DEF InQueue
<1>5. Generations /\ LivesOK
  BY <1>2 DEF Generations, LivesOK
<1>6. QueuesOK
  BY <1>3, <1>4 DEF QueuesOK
<1>7. OnePlace
  <2>1. \A g \in Queues : NoTwice(queue[g])
    BY <1>3 DEF NoTwice
  <2> QED BY <2>1, <1>2, <1>4 DEF OnePlace
<1>8. CallersOK /\ Available /\ LeftOvers
  BY <1>2 DEF CallersOK, Available, LeftOvers, Busy
<1> QED BY <1>1, <1>5, <1>6, <1>7, <1>8 DEF EnginesIInv

LEMMA BeginFillKeeps ==
  ASSUME EnginesIInv, BeginFill
  PROVE  EnginesIInv'
<1>1. EnginesTypeOK /\ Generations /\ LivesOK /\ CallersOK /\ QueuesOK /\ OnePlace /\ LeftOvers
  BY DEF EnginesIInv
<1>2. /\ ~filling /\ ~started /\ gen < MaxStarts
      /\ filling' = TRUE /\ gen' = gen + 1 /\ made' = 0 /\ started' = started
      /\ life' = life /\ stops' = stops /\ lentAtStop' = lentAtStop
      /\ callerPc' = callerPc /\ waitsOn' = waitsOn /\ engine' = engine /\ queue' = queue
  BY DEF BeginFill, callerVars
<1>3. Holding' = Holding /\ Wrappers' = {}
  BY <1>2 DEF Holding, Wrappers
<1>4. EnginesTypeOK'
  BY <1>1, <1>2, EnginesAssumption DEF EnginesTypeOK
<1>5. Generations'
  BY <1>1, <1>2, EnginesAssumption DEF Generations, EnginesTypeOK, Queues
<1>6. \A e \in Engines : e[1] \in Nat /\ (e[1] > gen => life[e] = "none")
  BY <1>1 DEF LivesOK, Engines, Queues
<1>7. LivesOK'
  BY <1>1, <1>2, <1>3, <1>6 DEF LivesOK, EnginesTypeOK
<1>8. QueuesOK'
  BY <1>1, <1>2 DEF QueuesOK, InQueue, EnginesTypeOK, Queues
<1>9. OnePlace' /\ Available'
  BY <1>1, <1>2, <1>3 DEF OnePlace, Available, InQueue
<1>10. CallersOK'
  BY <1>1, <1>2, <1>3 DEF CallersOK
<1>11. LeftOvers'
  <2>1. \A e \in Engines : Reachable(e)' <=> Reachable(e)
    BY <1>2, <1>3 DEF Reachable, InQueue
  <2>2. ASSUME NEW e \in Engines, life[e] = "up" PROVE e[1] \notin stops /\ e[1] # gen'
    <3>1. e[1] # gen'
      BY <1>1, <1>2, <1>6, <2>2 DEF EnginesTypeOK
    <3>2. CASE e \in Wrappers
      BY <1>1, <3>1, <3>2 DEF Wrappers, Generations, EnginesTypeOK
    <3>3. CASE e \notin Wrappers
      BY <1>1, <2>2, <3>1, <3>3 DEF LeftOvers
    <3> QED BY <3>2, <3>3
  <2>3. \A e \in Engines : (life[e] = "quit" /\ Reachable(e)) => e \in lentAtStop
    BY <1>1 DEF LeftOvers
  <2>4. (\E c \in Callers : callerPc[c] = "putting") => lentAtStop # {}
    BY <1>1 DEF LeftOvers
  <2> QED BY <1>2, <1>3, <2>1, <2>2, <2>3, <2>4 DEF LeftOvers
<1> QED BY <1>4, <1>5, <1>7, <1>8, <1>9, <1>10, <1>11 DEF EnginesIInv

\* The engine start() makes next has not been there before.
LEMMA NewEngine ==
  ASSUME EnginesIInv, filling
  PROVE  /\ <<gen, made + 1>> \in Engines /\ life[<<gen, made + 1>>] = "none"
         /\ gen \in Queues /\ gen \notin stops /\ ~started
         /\ <<gen, made + 1>> \notin Wrappers
         /\ \A g \in Queues : ~InQueue(<<gen, made + 1>>, g)
         /\ \A c \in Holding : engine[c] # <<gen, made + 1>>
<1>1. EnginesTypeOK /\ Generations /\ LivesOK /\ CallersOK /\ QueuesOK
  BY DEF EnginesIInv
<1>2. gen \in Queues /\ made \in Nat /\ made + 1 \in 1 .. EnginesMax /\ made + 1 > made
  BY <1>1, EnginesAssumption DEF Generations, EnginesTypeOK
<1>3. <<gen, made + 1>> \in Engines
  BY <1>2 DEF Engines
<1>4. life[<<gen, made + 1>>] = "none"
  BY <1>1, <1>2, <1>3 DEF LivesOK
<1>5. <<gen, made + 1>> \notin Wrappers
  BY <1>2 DEF Wrappers
<1>6. gen \notin stops /\ ~started
  BY <1>1 DEF Generations
<1> QED BY <1>1, <1>2, <1>3, <1>4, <1>5, <1>6 DEF QueuesOK, CallersOK

LEMMA AddEngineKeeps ==
  ASSUME EnginesIInv, AddEngine
  PROVE  EnginesIInv'
<1> DEFINE x == <<gen, made + 1>>
<1>1. EnginesTypeOK /\ Generations /\ LivesOK /\ CallersOK /\ QueuesOK /\ OnePlace
        /\ Available /\ LeftOvers
  BY DEF EnginesIInv
<1>2. /\ filling /\ made' = made + 1 /\ started' = (made' = EnginesMax) /\ filling' = ~started'
      /\ life' = [life EXCEPT ![x] = "up"]
      /\ queue' = [queue EXCEPT ![gen] = Append(@, x)]
      /\ gen' = gen /\ stops' = stops /\ lentAtStop' = lentAtStop
      /\ callerPc' = callerPc /\ waitsOn' = waitsOn /\ engine' = engine
  BY DEF AddEngine, callerVars
<1>3. /\ x \in Engines /\ life[x] = "none" /\ gen \in Queues /\ gen \notin stops /\ ~started
      /\ x \notin Wrappers /\ \A g \in Queues : ~InQueue(x, g)
      /\ \A c \in Holding : engine[c] # x
  BY <1>2, NewEngine
<1>4. x[1] = gen /\ x[2] = made + 1
  OBVIOUS
<1>5. Holding' = Holding
  BY <1>2 DEF Holding
<1>6. Wrappers' = Wrappers \cup {x}
  <2>1. made \in Nat /\ made + 1 \in Nat
    BY <1>1 DEF EnginesTypeOK
  <2>2. \A i : i \in 1 .. made + 1 <=> (i \in 1 .. made \/ i = made + 1)
    BY <2>1
  <2> QED BY <1>2, <2>2 DEF Wrappers
<1>7. /\ queue' \in [Queues -> Seq(Engines)]
      /\ \A h \in Queues : h # gen => queue'[h] = queue[h]
      /\ \A h \in Queues, e \in Engines :
           InQueue(e, h)' <=> (InQueue(e, h) \/ (h = gen /\ e = x))
      /\ NoTwice(queue'[gen])
  <2>1. NoTwice(queue[gen])
    BY <1>1, <1>3 DEF OnePlace
  <2>2. Gained(gen, x) /\ NoTwice(queue'[gen])
    <3> HIDE DEF x
    <3> QED BY <1>1, <1>2, <1>3, <2>1, QueueGets, Zenon
  <2> QED BY ONLY <2>2 DEF Gained
<1>8. /\ life' \in [Engines -> {"none", "up", "quit"}]
      /\ life'[x] = "up" /\ \A e \in Engines : e # x => life'[e] = life[e]
  BY <1>1, <1>2, <1>3 DEF EnginesTypeOK
<1>9. Wrappers \subseteq Engines
  BY <1>1, WrappersAreEngines
<1>w. \A e \in Engines : e[1] = gen /\ e[2] = made + 1 => e = x
  BY DEF Engines
<1> HIDE DEF x
<1>10. EnginesTypeOK'
  BY <1>1, <1>2, <1>7, <1>8, EnginesAssumption DEF EnginesTypeOK, Generations
<1>11. Generations'
  BY <1>1, <1>2, <1>3, EnginesAssumption DEF Generations, EnginesTypeOK
<1>12. LivesOK'
  <2>1. \A e \in Engines : e[1] > gen' => life'[e] = "none"
    BY <1>1, <1>2, <1>3, <1>4, <1>8 DEF LivesOK, Queues
  <2>2. ASSUME NEW e \in Engines, filling', e[1] = gen', e[2] > made' PROVE life'[e] = "none"
    <3>1. made \in Nat /\ e[2] \in Nat /\ e[2] > made /\ e[2] # made + 1
      BY <1>1, <1>2, <2>2 DEF EnginesTypeOK, Engines
    <3>2. e # x
      BY <1>4, <3>1
    <3> QED BY <1>1, <1>2, <1>8, <2>2, <3>1, <3>2 DEF LivesOK
  <2>3. \A e \in Wrappers' : life'[e] = "up"
    BY <1>1, <1>3, <1>6, <1>8, <1>9 DEF LivesOK
  <2> QED BY <2>1, <2>2, <2>3 DEF LivesOK
<1>13. QueuesOK'
  <2>1. \A h \in Queues : h > gen => queue'[h] = <<>>
    BY <1>1, <1>3, <1>7 DEF QueuesOK, Queues
  <2>2. ASSUME NEW h \in Queues, NEW e \in Engines, InQueue(e, h)'
        PROVE  /\ e[1] <= h /\ life'[e] # "none"
               /\ (e[1] # h \/ h \in stops) => e \in lentAtStop
    <3>1. CASE InQueue(e, h)
      BY <1>1, <1>8, <3>1 DEF QueuesOK
    <3>2. CASE h = gen /\ e = x
      BY <1>3, <1>4, <1>8, <3>2 DEF Queues
    <3> QED BY <1>7, <2>2, <3>1, <3>2
  <2> QED BY <1>2, <2>1, <2>2 DEF QueuesOK
<1>14. OnePlace'
  <2>1. \A h \in Queues : NoTwice(queue'[h])
    BY <1>1, <1>7 DEF OnePlace
  <2>2. \A h, k \in Queues, e \in Engines : InQueue(e, h)' /\ InQueue(e, k)' => h = k
    BY <1>1, <1>3, <1>7 DEF OnePlace
  <2>3. ASSUME NEW d \in Holding, NEW h \in Queues PROVE ~InQueue(engine[d], h)'
    <3>1. engine[d] \in Engines /\ engine[d] # x /\ ~InQueue(engine[d], h)
      BY <1>1, <1>3 DEF CallersOK, OnePlace
    <3> SUFFICES \A e \in Engines : e = engine[d] => ~InQueue(e, h)'
      BY <1>2, <3>1 DEF InQueue
    <3> QED BY <1>7, <3>1
  <2> QED BY <1>1, <1>2, <1>5, <2>1, <2>2, <2>3 DEF OnePlace
<1>15. CallersOK'
  BY <1>1, <1>2, <1>3, <1>5, <1>8 DEF CallersOK
<1>16. Available'
  <2>1. ASSUME NEW e \in Wrappers'
        PROVE  InQueue(e, gen)' \/ \E d \in Holding : engine[d] = e
    <3>1. CASE e = x
      BY <1>2, <1>3, <1>7, <3>1
    <3>2. CASE e \in Wrappers
      <4>1. e \in Engines /\ (InQueue(e, gen) \/ \E d \in Holding : engine[d] = e)
        BY <1>1, <1>2, <1>9, <3>2 DEF Available
      <4> QED BY <1>2, <1>3, <1>7, <4>1
    <3> QED BY <1>6, <3>1, <3>2
  <2> QED BY <1>2, <1>5, <2>1 DEF Available, InQueue
<1>17. LeftOvers'
  <2>1. ASSUME NEW e \in Engines, life'[e] = "up", e \notin Wrappers'
        PROVE  e[1] \notin stops' /\ (e[1] = gen' => ~started' /\ ~filling')
    BY <1>1, <1>2, <1>6, <1>8, <2>1 DEF LeftOvers
  <2>2. ASSUME NEW e \in Engines, life'[e] = "quit", Reachable(e)' PROVE e \in lentAtStop
    <3>1. e # x /\ life[e] = "quit"
      BY <1>8, <2>2
    <3>2. Reachable(e)
      BY <1>2, <1>5, <1>7, <2>2, <3>1 DEF Reachable
    <3> QED BY <1>1, <3>1, <3>2 DEF LeftOvers
  <2> QED BY <1>1, <1>2, <2>1, <2>2 DEF LeftOvers
<1> QED BY <1>10, <1>11, <1>12, <1>13, <1>14, <1>15, <1>16, <1>17 DEF EnginesIInv

LEMMA FillFailsKeeps ==
  ASSUME EnginesIInv, FillFails
  PROVE  EnginesIInv'
<1> DEFINE x == <<gen, made + 1>>
<1>1. EnginesTypeOK /\ Generations /\ LivesOK /\ CallersOK /\ QueuesOK /\ OnePlace
        /\ LeftOvers
  BY DEF EnginesIInv
<1>2. /\ filling /\ filling' = FALSE
      /\ started' = started /\ gen' = gen /\ made' = made /\ stops' = stops
      /\ lentAtStop' = lentAtStop /\ queue' = queue
      /\ callerPc' = callerPc /\ waitsOn' = waitsOn /\ engine' = engine
  BY DEF FillFails, callerVars
<1>3. /\ x \in Engines /\ life[x] = "none" /\ gen \in Queues /\ gen \notin stops /\ ~started
      /\ x \notin Wrappers /\ \A g \in Queues : ~InQueue(x, g)
      /\ \A c \in Holding : engine[c] # x
  BY <1>2, NewEngine
<1>4. /\ life' \in [Engines -> {"none", "up", "quit"}]
      /\ life'[x] \in {"none", "up"} /\ \A e \in Engines : e # x => life'[e] = life[e]
  BY <1>1, <1>3 DEF EnginesTypeOK, FillFails
<1>5. x[1] = gen /\ Holding' = Holding /\ Wrappers' = Wrappers /\ Wrappers \subseteq Engines
  BY <1>1, <1>2, WrappersAreEngines DEF Holding, Wrappers
<1> HIDE DEF x
<1>6. EnginesTypeOK' /\ Generations'
  BY <1>1, <1>2, <1>4 DEF EnginesTypeOK, Generations
<1>7. LivesOK'
  BY <1>1, <1>2, <1>3, <1>4, <1>5 DEF LivesOK, Queues
<1>8. QueuesOK' /\ OnePlace'
  <2>1. \A g \in Queues, e \in Engines : InQueue(e, g)' <=> InQueue(e, g)
    BY <1>2 DEF InQueue
  <2>2. QueuesOK'
    BY <1>1, <1>2, <1>3, <1>4, <2>1 DEF QueuesOK
  <2>3. OnePlace'
    BY <1>1, <1>2, <1>5 DEF OnePlace, InQueue
  <2> QED BY <2>2, <2>3
<1>9. CallersOK' /\ Available'
  BY <1>1, <1>2, <1>3, <1>4, <1>5 DEF CallersOK, Available
<1>10. LeftOvers'
  <2>1. \A e \in Engines : Reachable(e)' <=> Reachable(e)
    BY <1>2, <1>5 DEF Reachable, InQueue
  <2> QED BY <1>1, <1>2, <1>3, <1>4, <1>5, <2>1 DEF LeftOvers
<1> QED BY <1>6, <1>7, <1>8, <1>9, <1>10 DEF EnginesIInv

\* The engines that are quit were free or lent; the free ones are gone with
\* their queue.
LEMMA StopKeeps ==
  ASSUME EnginesIInv, StopEngines
  PROVE  EnginesIInv'
<1>1. EnginesTypeOK /\ Generations /\ LivesOK /\ CallersOK /\ QueuesOK /\ OnePlace
        /\ Available /\ LeftOvers
  BY DEF EnginesIInv
<1>2. /\ ~filling /\ started /\ started' = FALSE /\ made' = 0
      /\ queue' = [queue EXCEPT ![gen] = <<>>]
      /\ life' = [e \in Engines |-> IF e \in Wrappers THEN "quit" ELSE life[e]]
      /\ stops' = stops \cup {gen}
      /\ lentAtStop' = lentAtStop \cup {engine[c] : c \in Holding}
      /\ filling' = filling /\ gen' = gen
      /\ callerPc' = callerPc /\ waitsOn' = waitsOn /\ engine' = engine
  BY DEF StopEngines, callerVars
<1>3. /\ gen \in Queues /\ gen \notin stops /\ Wrappers \subseteq Engines
      /\ \A e \in Wrappers : e[1] = gen
  BY <1>1, <1>2, WrappersAreEngines DEF Generations, Wrappers
<1>4. Holding' = Holding /\ Wrappers' = {}
  BY <1>2 DEF Holding, Wrappers
<1>5. /\ queue' \in [Queues -> Seq(Engines)]
      /\ queue'[gen] = <<>> /\ \A h \in Queues : h # gen => queue'[h] = queue[h]
  BY <1>1, <1>2, <1>3, EmptySeq DEF EnginesTypeOK
<1>6. \A h \in Queues, e \in Engines : InQueue(e, h)' <=> (InQueue(e, h) /\ h # gen)
  <2>1. Len(queue'[gen]) = 0
    BY <1>5
  <2>2. ASSUME NEW e \in Engines PROVE ~InQueue(e, gen)'
    BY <1>2, <2>1 DEF InQueue
  <2>3. ASSUME NEW h \in Queues, h # gen, NEW e \in Engines PROVE InQueue(e, h)' <=> InQueue(e, h)
    BY <1>5, <2>3 DEF InQueue
  <2> QED BY <1>2, <2>2, <2>3 DEF InQueue
<1>7. /\ life' \in [Engines -> {"none", "up", "quit"}]
      /\ \A e \in Engines : life'[e] = IF e \in Wrappers THEN "quit" ELSE life[e]
  BY <1>1, <1>2 DEF EnginesTypeOK
<1>8. \A c \in Holding : engine[c] \in Engines /\ engine[c] \in lentAtStop'
  BY <1>1, <1>2 DEF CallersOK
<1>9. EnginesTypeOK'
  <2>1. lentAtStop' \subseteq Engines
    BY <1>1, <1>2, <1>8 DEF EnginesTypeOK
  <2>a. started' = FALSE /\ filling' = filling /\ filling \in BOOLEAN
    BY <1>1, <1>2 DEF EnginesTypeOK
  <2>2. started' \in BOOLEAN /\ filling' \in BOOLEAN
    BY <2>a
  <2>b. gen' = gen /\ made' = 0 /\ stops' = stops \cup {gen} /\ stops \subseteq Queues
        /\ gen \in 0 .. MaxStarts
    BY <1>1, <1>2 DEF EnginesTypeOK
  <2>c. 0 \in 0 .. EnginesMax
    BY EnginesAssumption
  <2>3. gen' \in 0 .. MaxStarts /\ made' \in 0 .. EnginesMax /\ stops' \subseteq Queues
    BY <1>3, <2>b, <2>c
  <2>4. /\ callerPc' \in [Callers -> CallerPCs] /\ waitsOn' \in [Callers -> 0 .. MaxStarts]
        /\ engine' \in [Callers -> Engines \cup {<<0, 0>>}]
    BY <1>1, <1>2 DEF EnginesTypeOK
  <2> QED BY <1>5, <1>7, <2>1, <2>2, <2>3, <2>4 DEF EnginesTypeOK
<1>10. Generations'
  BY <1>1, <1>2, <1>3 DEF Generations, EnginesTypeOK
<1>11. LivesOK'
  BY <1>1, <1>2, <1>3, <1>4, <1>7 DEF LivesOK, Queues, EnginesTypeOK
<1>12. QueuesOK'
  <2>1. \A h \in Queues : h > gen => queue'[h] = <<>>
    BY <1>1, <1>3, <1>5 DEF QueuesOK, Queues
  <2>2. ASSUME NEW h \in Queues, NEW e \in Engines, InQueue(e, h)'
        PROVE  /\ e[1] <= h /\ life'[e] # "none"
               /\ (e[1] # h \/ h \in stops') => e \in lentAtStop'
    BY <1>1, <1>2, <1>6, <1>7, <2>2 DEF QueuesOK
  <2> QED BY <1>2, <2>1, <2>2 DEF QueuesOK
<1>13. OnePlace'
  <2>1. ASSUME NEW h \in Queues PROVE NoTwice(queue'[h])
    <3>1. CASE h = gen
      <4>1. Len(queue'[h]) = 0
        BY <1>5, <3>1
      <4> QED BY <4>1 DEF NoTwice
    <3>2. CASE h # gen
      BY <1>1, <1>5, <3>2 DEF OnePlace
    <3> QED BY <3>1, <3>2
  <2>2. \A h, k \in Queues, e \in Engines : InQueue(e, h)' /\ InQueue(e, k)' => h = k
    BY <1>1, <1>6 DEF OnePlace
  <2>3. ASSUME NEW d \in Holding, NEW h \in Queues PROVE ~InQueue(engine[d], h)'
    <3>1. engine[d] \in Engines /\ ~InQueue(engine[d], h)
      BY <1>1 DEF CallersOK, OnePlace
    <3> SUFFICES \A e \in Engines : e = engine[d] => ~InQueue(e, h)'
      BY <1>2, <3>1 DEF InQueue
    <3> QED BY <1>6, <3>1
  <2> QED BY <1>1, <1>2, <1>4, <2>1, <2>2, <2>3 DEF OnePlace
<1>14. CallersOK'
  BY <1>1, <1>2, <1>4, <1>7, <1>8 DEF CallersOK
<1>15. Available'
  BY <1>4 DEF Available
<1>16. LeftOvers'
  <2>1. ASSUME NEW e \in Engines, life'[e] = "up"
        PROVE  e[1] \notin stops' /\ (e[1] = gen' => ~started' /\ ~filling')
    <3>1. e \notin Wrappers /\ life[e] = "up"
      BY <1>7, <2>1
    <3> QED BY <1>1, <1>2, <3>1 DEF LeftOvers
  <2>2. ASSUME NEW e \in Engines, life'[e] = "quit", Reachable(e)' PROVE e \in lentAtStop'
    <3>1. CASE \E c \in Holding : engine[c] = e
      BY <1>8, <3>1
    <3>2. CASE \E g \in Queues : InQueue(e, g) /\ g # gen
      <4>1. PICK g \in Queues : InQueue(e, g) /\ g # gen
        BY <3>2
      <4>2. CASE e \in Wrappers
        BY <1>1, <1>2, <1>3, <4>1, <4>2 DEF QueuesOK
      <4>3. CASE e \notin Wrappers
        BY <1>1, <1>2, <1>7, <2>2, <4>1, <4>3 DEF LeftOvers, Reachable
      <4> QED BY <4>2, <4>3
    <3> QED BY <1>2, <1>4, <1>6, <2>2, <3>1, <3>2 DEF Reachable
  <2>3. \A c \in Callers : callerPc[c] = "putting" => lentAtStop' # {}
    BY <1>1, <1>2 DEF LeftOvers
  <2> QED BY <1>2, <2>1, <2>2, <2>3 DEF LeftOvers
<1> QED BY <1>9, <1>10, <1>11, <1>12, <1>13, <1>14, <1>15, <1>16 DEF EnginesIInv

-----------------------------------------------------------------------------
(* The theorems.                                                           *)

LEMMA AskKeeps ==
  ASSUME EnginesIInv, NEW c \in Callers, Ask(c)
  PROVE  EnginesIInv'
<1>1. /\ EnginesTypeOK /\ Generations /\ c \notin Holding /\ ownerVars' = ownerVars
      /\ gen \in 0 .. MaxStarts /\ waitsOn[c] \in 0 .. MaxStarts
      /\ waitsOn = [waitsOn EXCEPT ![c] = waitsOn[c]]
  BY DEF EnginesIInv, EnginesTypeOK, Ask, Holding
<1>2. CASE ~started /\ callerPc' = [callerPc EXCEPT ![c] = "answered"] /\ UNCHANGED <<waitsOn, queue, engine>>
  BY <1>1, <1>2, WaitKeeps
<1>3. CASE started /\ GetFrom(c, gen)
  BY <1>1, <1>3, GetKeeps DEF Generations
<1>4. CASE /\ started /\ callerPc' = [callerPc EXCEPT ![c] = "waiting"]
           /\ waitsOn' = [waitsOn EXCEPT ![c] = gen] /\ UNCHANGED <<queue, engine>>
  BY <1>1, <1>4, WaitKeeps
<1> QED BY <1>2, <1>3, <1>4 DEF Ask

LEMMA CallerStepKeeps ==
  ASSUME EnginesIInv, NEW c \in Callers, CallerStep(c)
  PROVE  EnginesIInv'
<1>1. EnginesTypeOK /\ Generations /\ CallersOK
  BY DEF EnginesIInv
<1>2. CASE Take(c)
  <2>1. /\ callerPc[c] \in Busy /\ c \notin Holding /\ GetFrom(c, waitsOn[c]) /\ UNCHANGED ownerVars
    BY <1>2 DEF Take, Busy, Holding
  <2> QED BY <1>1, <2>1, GetKeeps DEF CallersOK
<1>3. CASE GiveUp(c)
  <2>1. /\ c \notin Holding /\ waitsOn[c] \in 0 .. MaxStarts
        /\ waitsOn = [waitsOn EXCEPT ![c] = waitsOn[c]]
        /\ callerPc' = [callerPc EXCEPT ![c] = "answered"]
        /\ UNCHANGED <<ownerVars, queue, waitsOn, engine>>
    BY <1>1, <1>3 DEF GiveUp, Holding, EnginesTypeOK
  <2> QED BY <2>1, WaitKeeps
<1>4. CASE Finish(c)
  <2>1. c \in Holding
    BY <1>4 DEF Finish, Holding
  <2>2. CASE started /\ ~Room
    BY <1>4, <2>1, <2>2, FullKeeps DEF Finish
  <2>3. CASE started /\ Room
    <3>1. gen \in Queues
      BY <1>1, <2>3 DEF Generations
    <3> QED BY <1>4, <2>1, <2>3, <3>1, ReturnKeeps DEF Finish
  <2>4. CASE ~started
    BY <1>4, <2>1, <2>4, DropKeeps DEF Finish
  <2> QED BY <2>2, <2>3, <2>4
<1>5. CASE Put(c)
  <2>1. c \in Holding /\ callerPc[c] \in Busy
    BY <1>5 DEF Put, Holding, Busy
  <2>2. waitsOn[c] \in Queues
    BY <1>1, <2>1 DEF CallersOK
  <2> QED BY <1>5, <2>1, <2>2, ReturnKeeps DEF Put
<1> QED BY <1>2, <1>3, <1>4, <1>5 DEF CallerStep

LEMMA EnginesStepKeeps == EnginesIInv /\ [EnginesNext]_engineVars => EnginesIInv'
<1> SUFFICES ASSUME EnginesIInv, [EnginesNext]_engineVars PROVE EnginesIInv'
  OBVIOUS
<1>1. CASE UNCHANGED engineVars
  <2>1. /\ Generations' /\ LivesOK' /\ Wrappers' = Wrappers
    BY <1>1, OwnersIdle DEF engineVars
  <2>2. Holding' = Holding
    BY <1>1 DEF engineVars, callerVars, Holding
  <2>3. EnginesTypeOK'
    <3>1. /\ started' = started /\ filling' = filling /\ gen' = gen /\ made' = made
          /\ life' = life /\ stops' = stops /\ lentAtStop' = lentAtStop
          /\ callerPc' = callerPc /\ waitsOn' = waitsOn /\ engine' = engine /\ queue' = queue
      BY <1>1 DEF engineVars, ownerVars, callerVars
    <3>2. EnginesTypeOK
      BY DEF EnginesIInv
    <3>3. /\ started' \in BOOLEAN /\ filling' \in BOOLEAN
      BY <3>1, <3>2 DEF EnginesTypeOK
    <3>4. /\ queue' \in [Queues -> Seq(Engines)] /\ callerPc' \in [Callers -> CallerPCs]
          /\ waitsOn' \in [Callers -> 0 .. MaxStarts]
          /\ engine' \in [Callers -> Engines \cup {<<0, 0>>}]
          /\ life' \in [Engines -> {"none", "up", "quit"}]
      BY <3>1, <3>2 DEF EnginesTypeOK
    <3>5. /\ gen' \in 0 .. MaxStarts /\ made' \in 0 .. EnginesMax
          /\ stops' \subseteq Queues /\ lentAtStop' \subseteq Engines
      BY <3>1, <3>2 DEF EnginesTypeOK
    <3> QED BY <3>3, <3>4, <3>5 DEF EnginesTypeOK
  <2>4. QueuesOK' /\ OnePlace'
    BY <1>1, <2>2 DEF engineVars, ownerVars, callerVars, EnginesIInv, QueuesOK, OnePlace, InQueue
  <2>5. CallersOK' /\ Available'
    BY <1>1, <2>1, <2>2 DEF engineVars, ownerVars, callerVars, EnginesIInv, CallersOK, Available, InQueue
  <2>6. LeftOvers'
    BY <1>1, <2>1, <2>2
    DEF engineVars, ownerVars, callerVars, EnginesIInv, LeftOvers, Reachable, InQueue
  <2> QED BY <2>1, <2>3, <2>4, <2>5, <2>6 DEF EnginesIInv
<1> QED BY <1>1, BeginFillKeeps, AddEngineKeeps, FillFailsKeeps, StopKeeps, AskKeeps,
           CallerStepKeeps DEF EnginesNext

LEMMA EnginesInvariance == EnginesSpec => []EnginesIInv
BY EnginesInitIInv, EnginesStepKeeps, PTL DEF EnginesSpec

\* The queues of StockfishEnginePool hold engines, and every caller waits on a
\* queue that was made.
THEOREM EnginesTypeCorrect == EnginesSpec => []EnginesTypeOK
<1>1. EnginesIInv => EnginesTypeOK
  BY DEF EnginesIInv
<1> QED BY <1>1, EnginesInvariance, PTL

\* play, analyse, stop and start between them lose no engine of the pool there
\* is: it is in the queue, or its caller puts it back.
THEOREM NoneLost == EnginesSpec => []NoEngineLost
<1>1. EnginesIInv => NoEngineLost
  BY DEF EnginesIInv, Available, NoEngineLost
<1> QED BY <1>1, EnginesInvariance, PTL

\* What a stop leaves: only an engine that was lent at the time is given to a
\* caller after it was quit, and without one no _release has to wait.
THEOREM LeavesOnlyTheLent == EnginesSpec => []LeftOvers
<1>1. EnginesIInv => LeftOvers
  BY DEF EnginesIInv
<1> QED BY <1>1, EnginesInvariance, PTL

-----------------------------------------------------------------------------
(* Leases.                                                                 *)

\* What a step does to the holders of one engine, it does to LifeHolders.
LEMMA HoldersChange ==
  ASSUME EnginesIInv, NEW x \in Engines, NEW hs,
         \A e \in Engines : e # x =>
           \A c \in Callers : (c \in Holding' /\ engine'[c] = e) <=> (c \in Holding /\ engine[c] = e),
         \A c \in Callers : c \in hs <=> (c \in Holding' /\ engine'[c] = x),
         hs \subseteq Callers
  PROVE  LifeHolders' = [LifeHolders EXCEPT ![x] = hs]
<1>1. ASSUME NEW e \in Engines
      PROVE  {c \in Holding' : engine'[c] = e} = IF e = x THEN hs ELSE {c \in Holding : engine[c] = e}
  BY DEF Holding
<1> QED BY <1>1 DEF LifeHolders

LEMMA HoldersStay ==
  ASSUME \A c \in Callers : (c \in Holding)' <=> c \in Holding,
         \A c \in Holding : engine'[c] = engine[c]
  PROVE  LifeHolders' = LifeHolders
<1>1. Holding' = Holding
  BY DEF Holding
<1>2. \A e \in Engines : {c \in Holding : engine[c] = e}' = {c \in Holding : engine[c] = e}
  BY <1>1
<1> QED BY <1>2 DEF LifeHolders

LEMMA OwnerRefines ==
  ASSUME EnginesIInv, BeginFill \/ AddEngine \/ FillFails \/ StopEngines
  PROVE  Leases!LeaseNext \/ UNCHANGED Leases!leaseVars
<1>1. EnginesTypeOK /\ LivesOK /\ Generations
  BY DEF EnginesIInv
<1>2. callerPc' = callerPc /\ engine' = engine
  BY DEF BeginFill, AddEngine, FillFails, StopEngines, callerVars
<1>3. LifeHolders' = LifeHolders
  BY <1>2, HoldersStay DEF Holding
<1>4. CASE BeginFill
  BY <1>3, <1>4 DEF BeginFill, Leases!leaseVars
<1>5. CASE AddEngine \/ FillFails
  <2>1. /\ <<gen, made + 1>> \in Engines /\ life[<<gen, made + 1>>] = "none"
    BY <1>5, NewEngine DEF AddEngine, FillFails
  <2>2. \/ life' = [life EXCEPT ![<<gen, made + 1>>] = "up"]
        \/ life' = [life EXCEPT ![<<gen, made + 1>>] = "none"]
    BY <1>5 DEF AddEngine, FillFails
  <2>3. CASE life' = [life EXCEPT ![<<gen, made + 1>>] = "up"]
    <3>1. Leases!Boot(<<gen, made + 1>>)
      BY <1>3, <2>1, <2>3 DEF Leases!Boot
    <3> QED BY <2>1, <3>1 DEF Leases!LeaseNext
  <2>4. CASE life' = [life EXCEPT ![<<gen, made + 1>>] = "none"]
    <3>1. life' = life
      BY <1>1, <2>1, <2>4 DEF EnginesTypeOK
    <3> QED BY <1>3, <3>1 DEF Leases!leaseVars
  <2> QED BY <2>2, <2>3, <2>4
<1>6. CASE StopEngines
  <2>1. Wrappers \in SUBSET Engines
    BY <1>1, WrappersAreEngines
  <2>2. Leases!Quit(Wrappers)
    BY <1>1, <1>3, <1>6 DEF Leases!Quit, StopEngines, LivesOK
  <2> QED BY <2>1, <2>2 DEF Leases!LeaseNext
<1> QED BY <1>4, <1>5, <1>6

\* An engine is lent from a queue, where no caller has it.
LEMMA GetRefines ==
  ASSUME EnginesIInv, NEW c \in Callers, NEW g \in Queues, GetFrom(c, g),
         UNCHANGED ownerVars, c \notin Holding
  PROVE  Leases!LeaseNext
<1> DEFINE x == Head(queue[g])
<1>1. EnginesTypeOK /\ OnePlace /\ QueuesOK /\ CallersOK
  BY DEF EnginesIInv
<1>2. x \in Engines /\ InQueue(x, g)
  BY <1>1, QueueGives DEF GetFrom, OnePlace
<1>3. /\ callerPc' = [callerPc EXCEPT ![c] = "using"] /\ engine' = [engine EXCEPT ![c] = x]
      /\ life' = life
  BY DEF GetFrom, ownerVars
<1> HIDE DEF x
<1>4. life[x] # "none" /\ \A d \in Holding : engine[d] # x
  BY <1>1, <1>2 DEF QueuesOK, OnePlace
<1>5. /\ callerPc'[c] = "using" /\ engine'[c] = x
      /\ \A d \in Callers : d # c => callerPc'[d] = callerPc[d] /\ engine'[d] = engine[d]
  BY <1>1, <1>3 DEF EnginesTypeOK
<1>6. LifeHolders' = [LifeHolders EXCEPT ![x] = {c}]
  <2>1. \A e \in Engines : e # x =>
           \A d \in Callers : (d \in Holding' /\ engine'[d] = e) <=> (d \in Holding /\ engine[d] = e)
    BY <1>5 DEF Holding
  <2>2. \A d \in Callers : d \in {c} <=> (d \in Holding' /\ engine'[d] = x)
    BY <1>4, <1>5 DEF Holding
  <2> QED BY <1>2, <2>1, <2>2, HoldersChange
<1>7. LifeHolders[x] = {}
  BY <1>2, <1>4 DEF LifeHolders
<1>8. Leases!Lend(x, c)
  BY <1>3, <1>4, <1>6, <1>7 DEF Leases!Lend
<1> QED BY <1>2, <1>8 DEF Leases!LeaseNext

\* A caller that no longer holds its engine has given it back.
LEMMA GiveBackRefines ==
  ASSUME EnginesIInv, NEW c \in Holding, callerPc' = [callerPc EXCEPT ![c] = "answered"],
         UNCHANGED <<engine, life>>
  PROVE  Leases!LeaseNext
<1> DEFINE x == engine[c]
<1>1. EnginesTypeOK /\ OnePlace /\ c \in Callers /\ x \in Engines
  BY DEF EnginesIInv, Holding, CallersOK
<1>2. \A d \in Holding : engine[d] = x => d = c
  BY <1>1 DEF OnePlace
<1>0. c \in Holding /\ engine[c] = x /\ engine' = engine /\ life' = life
  OBVIOUS
<1> HIDE DEF x
<1>3. /\ callerPc'[c] = "answered" /\ \A d \in Callers : d # c => callerPc'[d] = callerPc[d]
  BY <1>1 DEF EnginesTypeOK
<1>4. LifeHolders' = [LifeHolders EXCEPT ![x] = {}]
  <2>1. \A e \in Engines : e # x =>
           \A d \in Callers : (d \in Holding' /\ engine'[d] = e) <=> (d \in Holding /\ engine[d] = e)
    BY <1>0, <1>3 DEF Holding
  <2>2. \A d \in Callers : d \in {} <=> (d \in Holding' /\ engine'[d] = x)
    BY <1>0, <1>2, <1>3 DEF Holding
  <2> QED BY <1>1, <2>1, <2>2, HoldersChange
<1>5. LifeHolders[x] = {c}
  BY <1>0, <1>1, <1>2 DEF LifeHolders
<1>6. Leases!GiveBack(x, c)
  BY <1>0, <1>4, <1>5 DEF Leases!GiveBack
<1> QED BY <1>1, <1>6 DEF Leases!LeaseNext

\* Waiting, giving up and waiting for room.
LEMMA QuietRefines ==
  ASSUME NEW c \in Callers, EnginesIInv, NEW p \in {"waiting", "answered", "putting"},
         callerPc' = [callerPc EXCEPT ![c] = p], UNCHANGED <<engine, life>>,
         c \in Holding <=> p = "putting"
  PROVE  UNCHANGED Leases!leaseVars
<1>1. /\ callerPc'[c] = p /\ \A d \in Callers : d # c => callerPc'[d] = callerPc[d]
  BY DEF EnginesIInv, EnginesTypeOK
<1>2. \A d \in Callers : (d \in Holding)' <=> d \in Holding
  BY <1>1 DEF Holding
<1>3. LifeHolders' = LifeHolders
  BY <1>2, HoldersStay
<1> QED BY <1>3 DEF Leases!leaseVars

LEMMA CallerRefines ==
  ASSUME EnginesIInv, NEW c \in Callers, Ask(c) \/ CallerStep(c)
  PROVE  Leases!LeaseNext \/ UNCHANGED Leases!leaseVars
<1>0. Generations /\ CallersOK
  BY DEF EnginesIInv
<1>1. CASE Ask(c)
  <2>1. c \notin Holding /\ UNCHANGED ownerVars /\ life' = life
    BY <1>1 DEF Ask, Holding, ownerVars
  <2>2. CASE started /\ GetFrom(c, gen)
    BY <1>0, <2>1, <2>2, GetRefines DEF Generations
  <2>3. CASE /\ \E p \in {"waiting", "answered"} : callerPc' = [callerPc EXCEPT ![c] = p]
             /\ engine' = engine
    BY <2>1, <2>3, QuietRefines
  <2> QED BY <1>1, <2>2, <2>3 DEF Ask
<1>2. CASE Take(c)
  <2>1. /\ callerPc[c] \in Busy /\ c \notin Holding /\ GetFrom(c, waitsOn[c]) /\ UNCHANGED ownerVars
    BY <1>2 DEF Take, Busy, Holding
  <2> QED BY <1>0, <2>1, GetRefines DEF CallersOK
<1>3. CASE GiveUp(c)
  <2>1. /\ c \notin Holding /\ callerPc' = [callerPc EXCEPT ![c] = "answered"]
        /\ engine' = engine /\ life' = life
    BY <1>3 DEF GiveUp, Holding, ownerVars
  <2> QED BY <2>1, QuietRefines
<1>4. CASE Finish(c) \/ Put(c)
  <2>1. c \in Holding /\ engine' = engine /\ life' = life
    BY <1>4 DEF Finish, Put, Holding, ownerVars
  <2>2. CASE callerPc' = [callerPc EXCEPT ![c] = "answered"]
    BY <2>1, <2>2, GiveBackRefines
  <2>3. CASE callerPc' = [callerPc EXCEPT ![c] = "putting"]
    BY <2>1, <2>3, QuietRefines
  <2> QED BY <1>4, <2>2, <2>3 DEF Finish, Put
<1> QED BY <1>1, <1>2, <1>3, <1>4 DEF CallerStep

\* StockfishEnginePool implements EngineLeases: whatever its queues hold and
\* whenever it is stopped, an engine is lent to one caller at a time and, once
\* it was quit, never runs again.
THEOREM PoolImplementsLeases == EnginesSpec => ImplementsLeases
<1>1. EnginesInit => Leases!LeaseInit
  <2> SUFFICES ASSUME EnginesInit PROVE Leases!LeaseInit
    OBVIOUS
  <2>1. Holding = {}
    BY DEF EnginesInit, Holding
  <2> QED BY <2>1 DEF EnginesInit, Leases!LeaseInit, LifeHolders
<1>2. EnginesIInv /\ [EnginesNext]_engineVars => [Leases!LeaseNext]_(Leases!leaseVars)
  <2> SUFFICES ASSUME EnginesIInv, [EnginesNext]_engineVars
               PROVE  Leases!LeaseNext \/ UNCHANGED Leases!leaseVars
    OBVIOUS
  <2>1. CASE UNCHANGED engineVars
    <3>1. callerPc' = callerPc /\ engine' = engine /\ life' = life
      BY <2>1 DEF engineVars, ownerVars, callerVars
    <3>2. LifeHolders' = LifeHolders
      BY <3>1, HoldersStay DEF Holding
    <3> QED BY <3>1, <3>2 DEF Leases!leaseVars
  <2> QED BY <2>1, OwnerRefines, CallerRefines DEF EnginesNext
<1> QED BY <1>1, <1>2, EnginesInvariance, PTL DEF EnginesSpec, ImplementsLeases, Leases!LeaseSpec

-----------------------------------------------------------------------------
(* The rate limiter.                                                       *)

AnswerType == [slot : Nat, asked : Nat, wait : Nat]

LEMMA LimiterConstants ==
  /\ Interval \in Nat \ {0} /\ LongestWait \in Nat \ {0} /\ Fallback \in Nat \ {0}
  /\ LastTime \in Nat /\ LockFiles \in Nat
BY LimiterAssumption

LEMMA NextSlotIs ==
  ASSUME NEW now \in Nat, NEW last \in Nat
  PROVE  /\ NextSlot(now, last) \in Nat \ {0}
         /\ NextSlot(now, last) >= now /\ NextSlot(now, last) >= last + Interval
         /\ NextSlot(now, last) > now => NextSlot(now, last) = last + Interval
BY LimiterConstants DEF NextSlot

\* What an answer adds.
LEMMA GivenNext ==
  ASSUME answers \in Seq(AnswerType), NEW a \in AnswerType, answers' = Append(answers, a)
  PROVE  /\ answers' \in Seq(AnswerType)
         /\ Given' = IF a.slot > 0 THEN Given \cup {Len(answers) + 1} ELSE Given
         /\ \A j \in Given : j \in Nat /\ j < Len(answers) + 1 /\ answers'[j] = answers[j]
         /\ answers'[Len(answers) + 1] = a /\ Len(answers) + 1 \in Nat
         /\ \A j \in Given : answers[j] \in AnswerType
<1>1. /\ Len(answers) \in Nat /\ Len(answers') = Len(answers) + 1
      /\ \A i \in 1 .. Len(answers) : answers'[i] = answers[i] /\ answers[i] \in AnswerType
      /\ answers'[Len(answers) + 1] = a /\ answers' \in Seq(AnswerType)
  BY AppendProperties, LenProperties, ElementOfSeq
<1> HIDE DEF AnswerType
<1>2. Given' = {k \in 1 .. Len(answers) + 1 : answers'[k].slot > 0}
  BY <1>1 DEF Given
<1>3. 1 .. Len(answers) + 1 = (1 .. Len(answers)) \cup {Len(answers) + 1}
  BY <1>1
<1>4. \A k : k \in Given' <=> k \in Given \/ (k = Len(answers) + 1 /\ a.slot > 0)
  BY <1>1, <1>2, <1>3 DEF Given
<1> QED BY <1>1, <1>4 DEF Given

LEMMA GivenTypes ==
  ASSUME AnswersOK
  PROVE  \A j \in Given : j \in Nat /\ answers[j] \in AnswerType /\ answers[j].slot \in Nat \ {0}
                            /\ answers[j].asked \in Nat
<1>1. Len(answers) \in Nat /\ \A i \in 1 .. Len(answers) : answers[i] \in AnswerType
  BY LenProperties, ElementOfSeq DEF AnswersOK, AnswerType
<1> QED BY <1>1 DEF Given, AnswerType

LEMMA EarlierFinite ==
  ASSUME AnswersOK, NEW k, NEW now
  PROVE  IsFiniteSet(Earlier(k, now)) /\ Cardinality(Earlier(k, now)) \in Nat
<1>1. Len(answers) \in Nat
  BY LenProperties DEF AnswersOK
<1>2. IsFiniteSet(1 .. Len(answers)) /\ Earlier(k, now) \subseteq 1 .. Len(answers)
  BY <1>1, FS_Interval DEF Earlier, Given
<1> QED BY <1>2, FS_Subset, FS_CardinalityType

-----------------------------------------------------------------------------
\* An answer that gives no slot.
LEMMA AnsweredEmpty ==
  ASSUME AnswersOK, clock \in Nat, clock' = clock, NEW a \in AnswerType, a.slot = 0,
         answers' = Append(answers, a)
  PROVE  /\ AnswersOK' /\ Given' = Given
         /\ \A j \in Given : answers'[j] = answers[j]
<1>1. answers \in Seq(AnswerType)
  BY DEF AnswersOK, AnswerType
<1>2. /\ answers' \in Seq(AnswerType) /\ Given' = Given
      /\ \A j \in Given : answers'[j] = answers[j]
  <2>1. /\ answers' \in Seq(AnswerType)
        /\ Given' = IF a.slot > 0 THEN Given \cup {Len(answers) + 1} ELSE Given
        /\ \A j \in Given : answers'[j] = answers[j]
    BY <1>1, GivenNext
  <2>2. ~(a.slot > 0)
    OBVIOUS
  <2> QED BY <2>1, <2>2
<1>3. \A j \in Given' : /\ j \in Given /\ answers'[j] = answers[j]
                          /\ answers[j].asked <= clock /\ answers[j].asked <= answers[j].slot
                          /\ answers[j].wait = LET w == answers[j].slot - answers[j].asked
                                IN  IF w > LongestWait THEN LongestWait ELSE w
  BY <1>2 DEF AnswersOK
<1>4. AnswersOK'
  BY <1>2, <1>3 DEF AnswersOK, AnswerType
<1> QED BY <1>2, <1>4

\* What was given stays spaced when nothing is given.
LEMMA SameGiven ==
  ASSUME Given' = Given, \A j \in Given : answers'[j] = answers[j], SpacedOK, Crowded
  PROVE  SpacedOK' /\ Crowded'
<1>1. \A k, now : Earlier(k, now)' = Earlier(k, now)
  BY DEF Earlier
<1> QED BY <1>1 DEF SpacedOK, Crowded

\* The answer that process p gets for its slot.
Answered(p) == [slot |-> slot[p], asked |-> seen[p], wait |-> Wait(p)]

LEMMA AnsweredType ==
  ASSUME LimiterTypeOK, NEW p \in Processes, seen[p] <= slot[p]
  PROVE  /\ Answered(p) \in AnswerType /\ slot[p] \in Nat /\ seen[p] \in Nat
         /\ Answered(p).slot = slot[p] /\ Answered(p).asked = seen[p]
         /\ Answered(p).wait = LET w == slot[p] - seen[p]
                               IN  IF w > LongestWait THEN LongestWait ELSE w
<1>1. slot[p] \in Nat /\ seen[p] \in Nat
  BY LimiterConstants DEF LimiterTypeOK
<1> QED BY <1>1, LimiterConstants DEF Answered, AnswerType, Wait

\* Where a slot is computed, or was.
SlotOK(p) ==
  /\ seen[p] <= clock /\ \A j \in Given : answers[j].asked <= seen[p]
  /\ \/ Given = {} /\ slot[p] = NextSlot(seen[p], seen[p])
     \/ \E k \in Given : LastGiven(k) /\ slot[p] = NextSlot(seen[p], answers[k].slot)

LEMMA SlotIs ==
  ASSUME LimiterTypeOK, AnswersOK, NEW p \in Processes, SlotOK(p)
  PROVE  /\ slot[p] \in Nat \ {0} /\ seen[p] \in Nat /\ seen[p] <= slot[p] /\ seen[p] <= clock
         /\ \A k \in Given : LastGiven(k) =>
              /\ slot[p] >= answers[k].slot + Interval
              /\ slot[p] > seen[p] => slot[p] = answers[k].slot + Interval
         /\ Given = {} => slot[p] <= seen[p] + Interval
<1>1. seen[p] \in Nat
  BY LimiterConstants DEF LimiterTypeOK
<1>2. CASE Given = {} /\ slot[p] = NextSlot(seen[p], seen[p])
  BY <1>1, <1>2, NextSlotIs, LimiterConstants DEF SlotOK, NextSlot
<1>3. CASE \E k \in Given : LastGiven(k) /\ slot[p] = NextSlot(seen[p], answers[k].slot)
  <2>1. PICK k \in Given : LastGiven(k) /\ slot[p] = NextSlot(seen[p], answers[k].slot)
    BY <1>3
  <2>2. answers[k].slot \in Nat
    BY GivenTypes
  <2>3. \A j \in Given : LastGiven(j) => j = k
    BY <2>1, GivenTypes DEF LastGiven
  <2> QED BY <1>1, <2>1, <2>2, <2>3, NextSlotIs DEF SlotOK
<1> QED BY <1>2, <1>3 DEF SlotOK

-----------------------------------------------------------------------------
\* A slot is given: it is the last, and as far away as there are others.
LEMMA SlotGiven ==
  ASSUME LimiterTypeOK, AnswersOK, clock' = clock, NEW p \in Processes,
         answers' = Append(answers, Answered(p)),
         SpacedOK, Crowded, SlotOK(p)
  PROVE  /\ AnswersOK' /\ SpacedOK' /\ Crowded'
         /\ \E k \in Given' : LastGiven(k)' /\ slot[p] = answers'[k].slot
<1> DEFINE a == Answered(p)
<1>0. PICK n : n = Len(answers) + 1
  OBVIOUS
<1>1. /\ slot[p] \in Nat \ {0} /\ seen[p] \in Nat /\ seen[p] <= slot[p] /\ seen[p] <= clock
      /\ \A k \in Given : LastGiven(k) =>
           /\ slot[p] >= answers[k].slot + Interval
           /\ slot[p] > seen[p] => slot[p] = answers[k].slot + Interval
      /\ Given = {} => slot[p] <= seen[p] + Interval
  BY SlotIs
<1>2. /\ a \in AnswerType /\ a.slot = slot[p] /\ a.asked = seen[p]
      /\ a.wait = LET w == slot[p] - seen[p] IN IF w > LongestWait THEN LongestWait ELSE w
  BY <1>1, AnsweredType
<1> HIDE DEF a
<1>3. /\ answers' \in Seq(AnswerType) /\ Given' = Given \cup {n}
      /\ \A j \in Given : j \in Nat /\ j < n /\ answers'[j] = answers[j]
      /\ answers'[n] = a /\ n \in Nat
  <2>1. answers \in Seq(AnswerType) /\ answers' = Append(answers, a) /\ a.slot > 0
    BY <1>1, <1>2 DEF AnswersOK, AnswerType, a
  <2> QED BY <1>0, <1>2, <2>1, GivenNext
<1>4. \A j \in Given : answers[j].slot \in Nat \ {0} /\ answers[j].asked \in Nat
  BY GivenTypes
<1>5. n \notin Given
  BY <1>3
<1>6. AnswersOK'
  BY <1>1, <1>2, <1>3 DEF AnswersOK, AnswerType
<1>7. \A j \in Given : answers[j].asked <= seen[p]
  BY DEF SlotOK
<1>8. Given = {} \/ \E m \in Given : LastGiven(m)
  BY DEF SlotOK
<1>9. SpacedOK'
  <2> SUFFICES ASSUME NEW j \in Given', NEW k \in Given', j < k
               PROVE  answers'[j].slot + Interval <= answers'[k].slot
    BY DEF SpacedOK
  <2>1. CASE k \in Given
    <3>1. j \in Given
      BY <1>3, <2>1
    <3> QED BY <1>3, <2>1, <3>1 DEF SpacedOK
  <2>2. CASE k = n
    <3>1. j \in Given
      BY <1>3, <2>2
    <3>2. PICK m \in Given : LastGiven(m)
      BY <1>8, <3>1
    <3>3. j = m \/ answers[j].slot + Interval <= answers[m].slot
      BY <1>3, <3>1, <3>2 DEF SpacedOK, LastGiven
    <3>4. slot[p] >= answers[m].slot + Interval
      BY <1>1, <3>2
    <3>5. answers'[j].slot = answers[j].slot /\ answers'[k].slot = slot[p]
      BY <1>2, <1>3, <2>2, <3>1
    <3> QED BY <1>1, <1>4, <3>1, <3>2, <3>3, <3>4, <3>5, LimiterConstants
  <2> QED BY <1>3, <2>1, <2>2
<1>10. \A now : \A k \in Given : Earlier(k, now)' = Earlier(k, now)
  <2> SUFFICES ASSUME NEW now, NEW k \in Given PROVE Earlier(k, now)' = Earlier(k, now)
    OBVIOUS
  <2>1. \A j \in Given' : j < k => j \in Given
    BY <1>3
  <2> QED BY <1>3, <2>1 DEF Earlier
<1>11. ASSUME NEW now \in Nat, seen[p] <= now, now < slot[p]
       PROVE  slot[p] <= now + Interval * (Cardinality(Earlier(n, now)') + 1)
  <2>1. Earlier(n, now)' = {j \in Given : answers[j].slot > now}
    <3>1. \A j : j \in Given' /\ j < n <=> j \in Given
      BY <1>3
    <3>2. Earlier(n, now)' = {j \in Given' : j < n /\ answers'[j].slot > now}
      BY DEF Earlier
    <3> QED BY <1>3, <3>1, <3>2
  <2>2. CASE Given = {}
    <3>1. Cardinality(Earlier(n, now)') = 0
      BY <2>1, <2>2, FS_EmptySet
    <3>2. Interval * (0 + 1) = Interval
      BY LimiterConstants
    <3> QED BY <1>1, <1>11, <2>2, <3>1, <3>2, LimiterConstants
  <2>3. CASE \E m \in Given : LastGiven(m)
    <3>1. PICK m \in Given : LastGiven(m)
      BY <2>3
    <3>2. slot[p] = answers[m].slot + Interval /\ answers[m].slot \in Nat
      BY <1>1, <1>4, <1>11, <3>1
    <3> DEFINE c == Cardinality(Earlier(m, now))
    <3>3. c \in Nat /\ IsFiniteSet(Earlier(m, now))
      BY EarlierFinite
    <3>4. CASE answers[m].slot <= now
      <4>1. \A j \in Given : answers[j].slot <= now
        <5> SUFFICES ASSUME NEW j \in Given PROVE answers[j].slot <= now
          OBVIOUS
        <5>1. j = m \/ answers[j].slot + Interval <= answers[m].slot
          BY <1>3, <3>1 DEF SpacedOK, LastGiven
        <5> QED BY <1>4, <3>4, <5>1, LimiterConstants
      <4>2. Earlier(n, now)' = {}
        BY <1>4, <2>1, <4>1
      <4>3. Cardinality(Earlier(n, now)') = 0
        BY <4>2, FS_EmptySet
      <4>4. Interval * (0 + 1) = Interval
        BY LimiterConstants
      <4> QED BY <3>2, <3>4, <4>3, <4>4, LimiterConstants
    <3>5. CASE answers[m].slot > now
      <4>1. answers[m].slot <= now + Interval * (c + 1)
        <5>1. now \in answers[m].asked .. answers[m].slot
          BY <1>1, <1>4, <1>7, <1>11, <3>1, <3>5
        <5>2. now < answers[m].slot
          BY <3>2, <3>5
        <5> QED BY <5>1, <5>2 DEF Crowded
      <4>2. Earlier(n, now)' = Earlier(m, now) \cup {m}
        <5>1. \A j \in Given : j = m \/ j < m
          BY <1>3, <3>1 DEF LastGiven
        <5> QED BY <2>1, <3>5, <5>1 DEF Earlier
      <4>3. m \notin Earlier(m, now)
        BY <1>3 DEF Earlier
      <4>4. Cardinality(Earlier(n, now)') = c + 1
        BY <3>3, <4>2, <4>3, FS_AddElement
      <4>5. Interval * ((c + 1) + 1) = Interval * (c + 1) + Interval /\ Interval * (c + 1) \in Nat
        <5>1. PICK b \in Nat : b = c + 1
          BY <3>3
        <5>2. PICK k \in Nat : k = Interval
          BY LimiterConstants
        <5>3. k * (b + 1) = k * b + k /\ k * b \in Nat
          OBVIOUS
        <5> QED BY ONLY <5>1, <5>2, <5>3
      <4> HIDE DEF c
      <4> QED BY <3>2, <4>1, <4>4, <4>5, LimiterConstants
    <3> QED BY <3>2, <3>4, <3>5
  <2> QED BY <1>8, <2>2, <2>3
<1>12. Crowded'
  <2>1. \A j, k \in Given' : j < k => answers'[j].asked <= answers'[k].asked
    <3> SUFFICES ASSUME NEW j \in Given', NEW k \in Given', j < k
                 PROVE  answers'[j].asked <= answers'[k].asked
      OBVIOUS
    <3>1. j \in Given /\ answers'[j] = answers[j]
      <4>1. k \in Nat /\ j \in Nat /\ k <= n
        BY <1>3
      <4>2. j # n
        BY <4>1
      <4> QED BY <1>3, <4>2
    <3>2. CASE k \in Given
      BY <1>3, <3>1, <3>2 DEF Crowded
    <3>3. CASE k = n
      <4>1. answers'[k].asked = seen[p]
        BY <1>2, <1>3, <3>3
      <4> QED BY <1>7, <3>1, <4>1
    <3> QED BY <1>3, <3>2, <3>3
  <2>2. ASSUME NEW k \in Given', NEW now \in answers'[k].asked .. answers'[k].slot,
               now < answers'[k].slot
        PROVE  answers'[k].slot <= now + Interval * (Cardinality(Earlier(k, now)') + 1)
    <3>1. CASE k \in Given
      BY <1>3, <1>10, <2>2, <3>1 DEF Crowded
    <3>2. CASE k = n
      <4>0. answers'[k].slot = slot[p] /\ answers'[k].asked = seen[p]
        BY <1>2, <1>3, <3>2
      <4>1. now \in Nat /\ seen[p] <= now /\ now < slot[p]
        BY <1>1, <2>2, <4>0
      <4> QED BY <1>11, <3>2, <4>0, <4>1
    <3> QED BY <1>3, <3>1, <3>2
  <2> QED BY <2>1, <2>2 DEF Crowded
<1>13. LastGiven(n)' /\ n \in Given' /\ slot[p] = answers'[n].slot
  BY <1>2, <1>3 DEF LastGiven
<1> QED BY <1>6, <1>9, <1>12, <1>13

-----------------------------------------------------------------------------
(* Every step.                                                             *)

LEMMA LimiterStarts == LimiterInit => LimiterIInv
<1> SUFFICES ASSUME LimiterInit PROVE LimiterIInv
  OBVIOUS
<1>1. LimiterTypeOK
  <2>1. saved.is = "none" /\ saved.at = 0
    BY DEF LimiterInit, Nothing
  <2>2. /\ clock \in 0 .. LastTime /\ named \in 0 .. files /\ files \in 0 .. LockFiles
    BY LimiterConstants DEF LimiterInit
  <2>7. cleaning \in BOOLEAN /\ disturbed \in BOOLEAN
    BY Zenon DEF LimiterInit
  <2>4. 0 \in 0 .. LastTime /\ 0 \in Nat /\ 0 \in 0 .. files
    BY LimiterConstants DEF LimiterInit
  <2>5. handle \in [Processes -> 0 .. files]
    BY <2>4 DEF LimiterInit
  <2>6. seen \in [Processes -> 0 .. LastTime] /\ slot \in [Processes -> Nat]
    BY <2>4 DEF LimiterInit
  <2>3. taker \in [Processes -> {"idle", "opened", "stopped"} \cup Inside]
    BY DEF LimiterInit
  <2> QED BY <2>1, <2>2, <2>3, <2>5, <2>6, <2>7 DEF LimiterTypeOK
<1>2. answers = <<>> /\ Given = {}
  BY DEF LimiterInit, Given
<1>3. AnswersOK
  BY <1>2, EmptySeq DEF AnswersOK
<1>4. LockOK
  BY <1>2 DEF LimiterInit, LockOK, Inside, Nothing
<1> QED BY <1>1, <1>2, <1>3, <1>4 DEF LimiterIInv, SpacedOK, Crowded

LEMMA ReturnsTypes ==
  ASSUME LimiterTypeOK, NEW p \in Processes, NEW a, Returns(p, a), UNCHANGED files
  PROVE  /\ taker' \in [Processes -> {"idle", "opened", "stopped"} \cup Inside]
         /\ handle' \in [Processes -> 0 .. files']
         /\ seen' \in [Processes -> 0 .. LastTime] /\ slot' \in [Processes -> Nat]
         /\ taker'[p] = "idle"
         /\ \A q \in Processes : q # p =>
              /\ taker'[q] = taker[q] /\ handle'[q] = handle[q]
              /\ seen'[q] = seen[q] /\ slot'[q] = slot[q]
<1>1. files \in Nat
  BY LimiterConstants DEF LimiterTypeOK
<1> QED BY <1>1, LimiterConstants DEF LimiterTypeOK, Returns

LEMMA LimiterTypesKept ==
  ASSUME LimiterTypeOK, LimiterNext
  PROVE  LimiterTypeOK'
<1> USE LimiterConstants
<1>0. files \in Nat /\ clock \in Nat
  BY DEF LimiterTypeOK
<1>1. ASSUME NEW p \in Processes, OpenLock(p) PROVE LimiterTypeOK'
  <2>1. files' \in 0 .. LockFiles /\ named' \in 0 .. files' /\ files <= files'
    BY <1>0, <1>1 DEF OpenLock, LimiterTypeOK
  <2>2. handle' \in [Processes -> 0 .. files']
    BY <1>0, <1>1, <2>1 DEF OpenLock, LimiterTypeOK
  <2> QED BY <1>0, <1>1, <2>1, <2>2 DEF OpenLock, LimiterTypeOK
<1>2. ASSUME NEW p \in Processes, FlockFails(p) PROVE LimiterTypeOK'
  BY <1>2, ReturnsTypes DEF FlockFails, LimiterTypeOK, fileVars
<1>3. ASSUME NEW p \in Processes, TakeLock(p) PROVE LimiterTypeOK'
  <2>1. NextSlot(clock, IF saved.is = "time" THEN saved.at ELSE clock) \in Nat
    BY <1>0, NextSlotIs DEF LimiterTypeOK
  <2> QED BY <1>0, <1>3, <2>1 DEF TakeLock, LimiterTypeOK, Inside, fileVars
<1>4. ASSUME NEW p \in Processes, Truncate(p) PROVE LimiterTypeOK'
  BY <1>4 DEF Truncate, LimiterTypeOK, Inside, Torn
<1>5. ASSUME NEW p \in Processes, WriteState(p) PROVE LimiterTypeOK'
  <2>1. saved'.is = "time" /\ saved'.at \in Nat
    BY <1>5 DEF WriteState, LimiterTypeOK, Slot
  <2> QED BY <1>5, <2>1, ReturnsTypes DEF WriteState, Answer, LimiterTypeOK
<1>6. ASSUME NEW p \in Processes, WriteFails(p) PROVE LimiterTypeOK'
  BY <1>6, ReturnsTypes DEF WriteFails, Answer, LimiterTypeOK, fileVars
<1>7. ASSUME NEW p \in Processes, Stop(p) PROVE LimiterTypeOK'
  BY <1>0, <1>7 DEF Stop, LimiterTypeOK, fileVars
<1>8. CASE RemoveLock
  BY <1>0, <1>8 DEF RemoveLock, LimiterTypeOK
<1>9. CASE RemoveState
  BY <1>9 DEF RemoveState, LimiterTypeOK, Nothing
<1>10. CASE Tick
  BY <1>0, <1>10 DEF Tick, LimiterTypeOK, fileVars
<1> QED BY <1>1, <1>2, <1>3, <1>4, <1>5, <1>6, <1>7, <1>8, <1>9, <1>10 DEF LimiterNext

\* A step that answers nobody.
LEMMA SameAnswers ==
  ASSUME AnswersOK, SpacedOK, Crowded, answers' = answers,
         clock' \in Nat, clock <= clock', clock \in Nat
  PROVE  /\ AnswersOK' /\ Given' = Given /\ SpacedOK' /\ Crowded'
         /\ \A k : LastGiven(k)' = LastGiven(k)
<1>1. Given' = Given
  BY DEF Given
<1>2. AnswersOK'
  BY <1>1, GivenTypes DEF AnswersOK
<1>3. SpacedOK' /\ Crowded'
  BY <1>1, SameGiven
<1> QED BY <1>1, <1>2, <1>3 DEF LastGiven

LEMMA NothingGiven ==
  ASSUME Given' = Given, \A j \in Given : answers'[j] = answers[j]
  PROVE  \A k : LastGiven(k)' = LastGiven(k)
BY DEF LastGiven

\* A process that leaves, or only goes on, leaves the lock in order.
LEMMA LockLeft ==
  ASSUME LockOK, Given' = Given, \A j \in Given : answers'[j] = answers[j],
         UNCHANGED <<named, cleaning, saved, clock>>, NEW p \in Processes,
         taker[p] # "writing", taker'[p] \notin {"opened"} \cup Inside,
         \A q \in Processes : q # p =>
              /\ taker'[q] = taker[q] /\ handle'[q] = handle[q]
              /\ seen'[q] = seen[q] /\ slot'[q] = slot[q]
  PROVE  LockOK'
<1>1. \A k : LastGiven(k)' = LastGiven(k)
  BY NothingGiven
<1>2. \A q \in Processes : taker'[q] \in {"opened"} \cup Inside =>
        /\ q # p /\ taker[q] = taker'[q] /\ handle'[q] = handle[q]
        /\ seen'[q] = seen[q] /\ slot'[q] = slot[q]
  OBVIOUS
<1>3. /\ ~cleaning'
      /\ \A q \in Processes :
           taker'[q] \in {"opened"} \cup Inside => named' # 0 /\ handle'[q] = named'
      /\ \A q, r \in Processes : taker'[q] \in Inside /\ taker'[r] \in Inside => q = r
  BY <1>2 DEF LockOK
<1>4. (\A q \in Processes : taker'[q] # "writing") =>
        \/ Given' = {} /\ saved'.is # "time"
        \/ saved'.is = "time" /\ \E k \in Given' : LastGiven(k)' /\ saved'.at = answers'[k].slot
  <2> SUFFICES ASSUME \A q \in Processes : taker'[q] # "writing"
               PROVE  \/ Given' = {} /\ saved'.is # "time"
                      \/ saved'.is = "time" /\ \E k \in Given' : LastGiven(k)' /\ saved'.at = answers'[k].slot
    OBVIOUS
  <2>1. \A q \in Processes : taker[q] # "writing"
    OBVIOUS
  <2>2. \/ Given = {} /\ saved.is # "time"
        \/ saved.is = "time" /\ \E k \in Given : LastGiven(k) /\ saved.at = answers[k].slot
    BY <2>1 DEF LockOK
  <2> QED BY <1>1, <2>2
<1>5. ASSUME NEW q \in Processes, taker'[q] \in Inside
      PROVE  /\ seen'[q] <= clock' /\ \A j \in Given' : answers'[j].asked <= seen'[q]
             /\ \/ Given' = {} /\ slot'[q] = NextSlot(seen'[q], seen'[q])
                \/ \E k \in Given' : LastGiven(k)' /\ slot'[q] = NextSlot(seen'[q], answers'[k].slot)
  <2>1. /\ seen[q] <= clock /\ \A j \in Given : answers[j].asked <= seen[q]
        /\ \/ Given = {} /\ slot[q] = NextSlot(seen[q], seen[q])
           \/ \E k \in Given : LastGiven(k) /\ slot[q] = NextSlot(seen[q], answers[k].slot)
    BY <1>2, <1>5 DEF LockOK
  <2> QED BY <1>1, <1>2, <1>5, <2>1
<1> QED BY <1>3, <1>4, <1>5 DEF LockOK

-----------------------------------------------------------------------------
\* The lock in order, in named parts.
Named == \A p \in Processes :
           taker[p] \in {"opened"} \cup Inside => named # 0 /\ handle[p] = named

Alone == \A p, q \in Processes : taker[p] \in Inside /\ taker[q] \in Inside => p = q

SavedOK ==
  \/ Given = {} /\ saved.is # "time"
  \/ saved.is = "time" /\ \E k \in Given : LastGiven(k) /\ saved.at = answers[k].slot

LEMMA LockParts ==
  LockOK <=> /\ ~cleaning /\ Named /\ Alone
             /\ (\A p \in Processes : taker[p] # "writing") => SavedOK
             /\ \A p \in Processes : taker[p] \in Inside => SlotOK(p)
BY DEF LockOK, Named, Alone, SavedOK, SlotOK

LEMMA LockPartsNext ==
  LockOK' <=> /\ ~cleaning' /\ Named' /\ Alone'
              /\ (\A p \in Processes : taker'[p] # "writing") => SavedOK'
              /\ \A p \in Processes : taker'[p] \in Inside => SlotOK(p)'
BY DEF LockOK, Named, Alone, SavedOK, SlotOK

LEMMA SameSlot ==
  ASSUME AnswersOK, clock \in Nat, clock' \in Nat, clock <= clock',
         Given' = Given, \A j \in Given : answers'[j] = answers[j],
         NEW p \in Processes, SlotOK(p), seen[p] \in Nat,
         seen'[p] = seen[p], slot'[p] = slot[p]
  PROVE  SlotOK(p)'
<1>1. \A k : LastGiven(k)' = LastGiven(k)
  BY NothingGiven
<1>2. seen'[p] <= clock' /\ \A j \in Given' : answers'[j].asked <= seen'[p]
  BY DEF SlotOK
<1>3. (Given = {} /\ slot[p] = NextSlot(seen[p], seen[p]))
        \/ \E k \in Given : LastGiven(k) /\ slot[p] = NextSlot(seen[p], answers[k].slot)
  BY DEF SlotOK
<1>4. (Given' = {} /\ slot'[p] = NextSlot(seen'[p], seen'[p]))
        \/ \E k \in Given' : LastGiven(k)' /\ slot'[p] = NextSlot(seen'[p], answers'[k].slot)
  BY <1>1, <1>3
<1> QED BY <1>2, <1>4 DEF SlotOK

Orderly == AnswersOK /\ LockOK /\ SpacedOK /\ Crowded

LEMMA OrderKept ==
  ASSUME LimiterTypeOK, Orderly, LimiterNext, ~disturbed, ~disturbed'
  PROVE  Orderly'
<1> USE LimiterConstants
<1>0. /\ clock \in Nat /\ files \in Nat
      /\ \A p \in Processes : seen[p] \in Nat /\ slot[p] \in Nat
      /\ AnswersOK /\ SpacedOK /\ Crowded /\ LockOK
      /\ ~cleaning /\ Named /\ Alone
      /\ (\A p \in Processes : taker[p] # "writing") => SavedOK
      /\ \A p \in Processes : taker[p] \in Inside => SlotOK(p)
  BY LockParts DEF LimiterTypeOK, Orderly
<1>1. ASSUME UNCHANGED <<answers, clock>>
      PROVE  /\ AnswersOK' /\ SpacedOK' /\ Crowded'
             /\ Given' = Given /\ \A j \in Given : answers'[j] = answers[j]
             /\ \A k : LastGiven(k)' = LastGiven(k)
             /\ saved' = saved => SavedOK' = SavedOK
             /\ \A p \in Processes :
                  SlotOK(p) /\ seen'[p] = seen[p] /\ slot'[p] = slot[p] => SlotOK(p)'
  <2>1. AnswersOK' /\ Given' = Given /\ SpacedOK' /\ Crowded' /\ \A k : LastGiven(k)' = LastGiven(k)
    BY <1>0, <1>1, SameAnswers
  <2>2. saved' = saved => SavedOK' = SavedOK
    BY <1>1, <2>1 DEF SavedOK
  <2>3. ASSUME NEW p \in Processes, SlotOK(p), seen'[p] = seen[p], slot'[p] = slot[p]
        PROVE  SlotOK(p)'
    BY <1>0, <1>1, <2>1, <2>3, SameSlot
  <2> QED BY <1>1, <2>1, <2>2, <2>3
<1>2. ASSUME NEW p \in Processes, OpenLock(p) PROVE Orderly'
  <2>1. /\ UNCHANGED <<answers, clock, cleaning, saved, seen, slot>> /\ taker[p] = "idle"
        /\ taker' = [taker EXCEPT ![p] = "opened"] /\ handle' = [handle EXCEPT ![p] = named']
        /\ named' # 0 /\ (named # 0 => named' = named)
    BY <1>0, <1>2 DEF OpenLock
  <2>2. taker'[p] = "opened" /\ handle'[p] = named'
        /\ \A q \in Processes : q # p => taker'[q] = taker[q] /\ handle'[q] = handle[q]
    BY <2>1 DEF LimiterTypeOK
  <2>3. \A q \in Processes : taker'[q] \in Inside => taker[q] \in Inside
    BY <2>2 DEF Inside
  <2>4. Named'
    <3> SUFFICES ASSUME NEW q \in Processes, taker'[q] \in {"opened"} \cup Inside
                 PROVE  named' # 0 /\ handle'[q] = named'
      BY DEF Named
    <3>1. CASE q = p
      BY <2>1, <2>2, <3>1
    <3>2. CASE q # p
      <4>1. named # 0 /\ handle[q] = named
        BY <1>0, <2>2, <3>2 DEF Named
      <4> QED BY <2>1, <2>2, <3>2, <4>1
    <3> QED BY <3>1, <3>2
  <2>8. Alone'
    BY <1>0, <2>3 DEF Alone
  <2>5. (\A q \in Processes : taker'[q] # "writing") => SavedOK'
    <3>1. taker[p] # "writing"
      BY <2>1
    <3> QED BY <1>0, <1>1, <2>1, <2>2, <3>1
  <2>6. \A q \in Processes : taker'[q] \in Inside => SlotOK(q)'
    BY <1>0, <1>1, <2>1, <2>3
  <2> QED BY <1>0, <1>1, <2>1, <2>4, <2>5, <2>6, <2>8, LockPartsNext DEF Orderly
<1>3. ASSUME NEW p \in Processes, FlockFails(p) PROVE Orderly'
  <2> DEFINE a == [slot |-> 0, asked |-> clock, wait |-> Fallback]
  <2>1. /\ a \in AnswerType /\ a.slot = 0 /\ Returns(p, a)
        /\ UNCHANGED <<clock, named, cleaning, saved, files>> /\ taker[p] = "opened"
    BY <1>0, <1>3 DEF FlockFails, fileVars, AnswerType
  <2> HIDE DEF a
  <2>2. answers' = Append(answers, a)
    BY <2>1 DEF Returns
  <2>3. AnswersOK' /\ Given' = Given /\ \A j \in Given : answers'[j] = answers[j]
    BY <1>0, <2>1, <2>2, AnsweredEmpty
  <2>4. SpacedOK' /\ Crowded'
    BY <1>0, <2>3, SameGiven
  <2>5. taker'[p] \notin {"opened"} \cup Inside
        /\ \A q \in Processes : q # p =>
             /\ taker'[q] = taker[q] /\ handle'[q] = handle[q]
             /\ seen'[q] = seen[q] /\ slot'[q] = slot[q]
    BY <2>1, ReturnsTypes DEF Inside
  <2>6. LockOK'
    BY <1>0, <2>1, <2>3, <2>5, LockLeft
  <2> QED BY <2>3, <2>4, <2>6 DEF Orderly
<1>4. ASSUME NEW p \in Processes, TakeLock(p) PROVE Orderly'
  <2> DEFINE last == IF saved.is = "time" THEN saved.at ELSE clock
  <2>1. /\ taker[p] = "opened" /\ ~Locked(handle[p])
        /\ seen'[p] = clock /\ slot'[p] = NextSlot(clock, last) /\ taker'[p] = "read"
        /\ \A q \in Processes : q # p =>
             taker'[q] = taker[q] /\ seen'[q] = seen[q] /\ slot'[q] = slot[q]
        /\ UNCHANGED <<clock, named, cleaning, saved, handle, answers>>
    BY <1>4 DEF TakeLock, fileVars, LimiterTypeOK
  <2>2. \A q \in Processes : taker[q] \notin Inside
    <3> SUFFICES ASSUME NEW q \in Processes, taker[q] \in Inside PROVE FALSE
      OBVIOUS
    <3>1. handle[q] = named /\ handle[p] = named
      BY <1>0, <2>1 DEF Named
    <3> QED BY <2>1, <3>1 DEF Locked
  <2>3. SavedOK
    BY <1>0, <2>2 DEF Inside
  <2>4. \A q \in Processes : taker'[q] \in Inside => q = p
    BY <2>1, <2>2
  <2>5. Named'
    BY <1>0, <2>1, <2>4 DEF Named
  <2>6. SlotOK(p)'
    <3>1. seen'[p] <= clock' /\ \A j \in Given' : answers'[j].asked <= seen'[p]
      BY <1>0, <1>1, <2>1 DEF AnswersOK
    <3>2. CASE Given = {} /\ saved.is # "time"
      BY <1>1, <2>1, <3>1, <3>2 DEF SlotOK
    <3>3. CASE saved.is = "time" /\ \E k \in Given : LastGiven(k) /\ saved.at = answers[k].slot
      <4>1. PICK k \in Given : LastGiven(k) /\ saved.at = answers[k].slot
        BY <3>3
      <4>2. k \in Given' /\ LastGiven(k)' /\ slot'[p] = NextSlot(seen'[p], answers'[k].slot)
        BY <1>1, <2>1, <3>3, <4>1
      <4> QED BY <3>1, <4>2 DEF SlotOK
    <3> QED BY <2>3, <3>2, <3>3 DEF SavedOK
  <2>7. Alone' /\ SavedOK'
    BY <1>1, <2>1, <2>3, <2>4 DEF Alone
  <2>8. \A q \in Processes : taker'[q] \in Inside => SlotOK(q)'
    BY <2>4, <2>6
  <2> QED BY <1>0, <1>1, <2>1, <2>5, <2>7, <2>8, LockPartsNext DEF Orderly
<1>5. ASSUME NEW p \in Processes, Truncate(p) PROVE Orderly'
  <2>1. /\ taker[p] = "read" /\ taker'[p] = "writing"
        /\ \A q \in Processes : q # p => taker'[q] = taker[q]
        /\ UNCHANGED <<clock, named, cleaning, handle, seen, slot, answers>>
    BY <1>5 DEF Truncate, LimiterTypeOK
  <2>2. \A q \in Processes : taker'[q] \in Inside => taker[q] \in Inside
    BY <2>1 DEF Inside
  <2>3. Named'
    BY <1>0, <2>1 DEF Named, Inside
  <2>4. Alone'
    BY <1>0, <2>2 DEF Alone
  <2>5. \A q \in Processes : taker'[q] \in Inside => SlotOK(q)'
    BY <1>0, <1>1, <2>1, <2>2
  <2> QED BY <1>0, <1>1, <2>1, <2>3, <2>4, <2>5, LockPartsNext DEF Orderly
<1>6. ASSUME NEW p \in Processes, WriteState(p) PROVE Orderly'
  <2>1. /\ taker[p] = "writing" /\ saved' = Slot(slot[p]) /\ Returns(p, Answered(p))
        /\ UNCHANGED <<clock, named, files, cleaning>>
    BY <1>6 DEF WriteState, Answer, Answered
  <2>2. answers' = Append(answers, Answered(p)) /\ SlotOK(p)
    BY <1>0, <2>1 DEF Returns, Inside
  <2>3. AnswersOK' /\ SpacedOK' /\ Crowded' /\ \E k \in Given' : LastGiven(k)' /\ slot[p] = answers'[k].slot
    BY <1>0, <2>1, <2>2, SlotGiven
  <2>4. /\ taker'[p] = "idle"
        /\ \A q \in Processes : q # p => taker'[q] = taker[q] /\ handle'[q] = handle[q]
    BY <2>1, ReturnsTypes
  <2>5. \A q \in Processes : taker'[q] \notin Inside
    <3> SUFFICES ASSUME NEW q \in Processes, taker'[q] \in Inside PROVE FALSE
      OBVIOUS
    <3>1. q # p /\ taker[q] \in Inside /\ taker[p] \in Inside
      BY <2>1, <2>4 DEF Inside
    <3> QED BY <1>0, <3>1 DEF Alone
  <2>6. Named'
    BY <1>0, <2>1, <2>4 DEF Named, Inside
  <2>7. SavedOK'
    <3>1. saved'.is = "time" /\ saved'.at = slot[p]
      BY <2>1 DEF Slot
    <3> QED BY <2>3, <3>1 DEF SavedOK
  <2> QED BY <1>0, <2>1, <2>3, <2>5, <2>6, <2>7, LockPartsNext DEF Orderly, Alone
<1>7. ASSUME NEW p \in Processes, WriteFails(p) PROVE Orderly'
  BY <1>7 DEF WriteFails
<1>8. ASSUME NEW p \in Processes, Stop(p) PROVE Orderly'
  <2>1. /\ UNCHANGED <<clock, named, cleaning, saved, answers>>
        /\ taker[p] # "writing" /\ taker'[p] = "stopped"
        /\ \A q \in Processes : q # p =>
             /\ taker'[q] = taker[q] /\ handle'[q] = handle[q]
             /\ seen'[q] = seen[q] /\ slot'[q] = slot[q]
    BY <1>8 DEF Stop, fileVars, LimiterTypeOK
  <2>2. taker'[p] \notin {"opened"} \cup Inside
    BY <2>1 DEF Inside
  <2>3. LockOK'
    BY <1>0, <1>1, <2>1, <2>2, LockLeft
  <2> QED BY <1>1, <2>1, <2>3 DEF Orderly
<1>9. CASE RemoveLock
  BY <1>9 DEF RemoveLock
<1>10. CASE RemoveState
  BY <1>0, <1>10 DEF RemoveState
<1>11. CASE Tick
  <2>1. /\ clock' = clock + 1 /\ UNCHANGED <<named, cleaning, saved, taker, handle, seen, slot, answers>>
    BY <1>11 DEF Tick, fileVars
  <2>2. /\ AnswersOK' /\ Given' = Given /\ SpacedOK' /\ Crowded'
        /\ \A k : LastGiven(k)' = LastGiven(k)
    BY <1>0, <2>1, SameAnswers
  <2>3. SavedOK' = SavedOK /\ Named' = Named /\ Alone' = Alone
    BY <2>1, <2>2 DEF SavedOK, Named, Alone
  <2>4. \A q \in Processes : taker'[q] \in Inside => SlotOK(q)'
    BY <1>0, <2>1, <2>2, SameSlot
  <2> QED BY <1>0, <2>1, <2>2, <2>3, <2>4, LockPartsNext DEF Orderly
<1> QED BY <1>2, <1>3, <1>4, <1>5, <1>6, <1>7, <1>8, <1>9, <1>10, <1>11 DEF LimiterNext

LEMMA OrderIdle ==
  ASSUME LimiterTypeOK, Orderly, UNCHANGED limiterVars
  PROVE  Orderly'
<1>1. UNCHANGED <<clock, named, cleaning, saved, taker, handle, seen, slot, answers>>
  BY DEF limiterVars, fileVars
<1>2. Given' = Given
  BY <1>1 DEF Given
<1>3. AnswersOK' /\ SpacedOK' /\ \A k, now : Earlier(k, now)' = Earlier(k, now)
  BY <1>1, <1>2 DEF AnswersOK, SpacedOK, Orderly, Earlier
<1>4. Crowded'
  BY <1>1, <1>2, <1>3 DEF Crowded, Orderly
<1>5. LockOK'
  BY <1>1, <1>2 DEF LockOK, LastGiven, Orderly
<1> QED BY <1>3, <1>4, <1>5 DEF Orderly

\* Once something was disturbed, it stays so.
LEMMA StaysDisturbed ==
  ASSUME [LimiterNext]_limiterVars, disturbed
  PROVE  disturbed'
BY DEF LimiterNext, OpenLock, FlockFails, TakeLock, Truncate, WriteState, WriteFails, Stop,
       RemoveLock, RemoveState, Tick, limiterVars

\* The invariant is inductive.
LEMMA LimiterKept == LimiterIInv /\ [LimiterNext]_limiterVars => LimiterIInv'
<1> SUFFICES ASSUME LimiterIInv, [LimiterNext]_limiterVars PROVE LimiterIInv'
  OBVIOUS
<1>1. LimiterTypeOK'
  <2>1. CASE LimiterNext
    BY <2>1, LimiterTypesKept DEF LimiterIInv
  <2>2. CASE UNCHANGED limiterVars
    BY <2>2 DEF LimiterIInv, LimiterTypeOK, limiterVars, fileVars
  <2> QED BY <2>1, <2>2
<1>2. ASSUME ~disturbed' PROVE Orderly'
  <2>1. ~disturbed /\ LimiterTypeOK /\ Orderly
    BY <1>2, StaysDisturbed DEF LimiterIInv, Orderly
  <2> QED BY <1>2, <2>1, OrderKept, OrderIdle
<1> QED BY <1>1, <1>2 DEF LimiterIInv, Orderly

LEMMA WaitsFit ==
  ASSUME NEW n \in Nat, NEW c \in Nat, NEW i \in Nat \ {0}, n < i * (c + 1)
  PROVE  n \div i <= c
<1>1. n \div i \in Nat /\ i * (n \div i) <= n
  BY Z3
<1> SUFFICES ASSUME c + 1 <= n \div i PROVE FALSE
  BY <1>1
<1>2. i * (c + 1) <= i * (n \div i)
  <2>1. PICK q : q = n \div i
    OBVIOUS
  <2>2. q \in Nat /\ c + 1 <= q
    BY <1>1, <2>1
  <2>3. \A u, v \in Nat : u <= v => i * u <= i * v
    BY Z3
  <2>4. i * (c + 1) <= i * q
    BY <2>2, <2>3
  <2> QED BY <2>1, <2>4
<1>3. i * (c + 1) \in Nat /\ i * (n \div i) \in Nat
  BY <1>1
<1> QED BY <1>1, <1>2, <1>3

LEMMA LimiterSafe == LimiterIInv => SlotsSpaced
<1> SUFFICES ASSUME LimiterIInv, ~disturbed PROVE SlotsSpaced
  BY DEF SlotsSpaced
<1>1. AnswersOK /\ SpacedOK /\ Crowded
  BY DEF LimiterIInv
<1> SUFFICES ASSUME NEW k \in Given, answers[k].asked + answers[k].wait < answers[k].slot
             PROVE  Cardinality({j \in Given : j < k /\ answers[j].slot > answers[k].asked})
                      >= LongestWait \div Interval
  BY <1>1 DEF SlotsSpaced, SpacedOK
<1> DEFINE now == answers[k].asked  c == Cardinality(Earlier(k, now))
<1>2. c \in Nat
  BY <1>1, EarlierFinite
<1>3. now \in Nat /\ answers[k].slot \in Nat /\ now <= answers[k].slot
  BY <1>1, GivenTypes DEF AnswersOK
<1>4. now + LongestWait < answers[k].slot
  <2>1. answers[k].wait = LET w == answers[k].slot - now
                          IN  IF w > LongestWait THEN LongestWait ELSE w
    BY <1>1 DEF AnswersOK
  <2> QED BY <1>3, <2>1, LimiterConstants
<1>5. answers[k].slot <= now + Interval * (c + 1)
  <2>1. now \in answers[k].asked .. answers[k].slot /\ now < answers[k].slot
    BY <1>3, <1>4, LimiterConstants
  <2> QED BY <1>1, <2>1 DEF Crowded
<1>6. Interval * (c + 1) \in Nat
  BY <1>2, LimiterConstants
<1> HIDE DEF c, now
<1>7. LongestWait < Interval * (c + 1)
  BY <1>3, <1>4, <1>5, <1>6, LimiterConstants
<1>8. LongestWait \div Interval <= c
  BY <1>2, <1>7, LimiterConstants, WaitsFit
<1>9. LongestWait \div Interval \in Nat
  BY LimiterConstants
<1> QED BY <1>2, <1>8, <1>9 DEF c, now, Earlier

(* Whatever processes do and wherever they stop, what the limiter keeps    *)
(* has its type.                                                           *)
THEOREM LimiterTypeCorrect == LimiterSpec => []LimiterTypeOK
<1>1. LimiterInit => LimiterTypeOK
  BY LimiterStarts DEF LimiterIInv
<1>2. LimiterTypeOK /\ [LimiterNext]_limiterVars => LimiterTypeOK'
  <2> SUFFICES ASSUME LimiterTypeOK, [LimiterNext]_limiterVars PROVE LimiterTypeOK'
    OBVIOUS
  <2>1. CASE LimiterNext
    BY <2>1, LimiterTypesKept
  <2>2. CASE UNCHANGED limiterVars
    BY <2>2 DEF LimiterTypeOK, limiterVars, fileVars
  <2> QED BY <2>1, <2>2
<1> QED BY <1>1, <1>2, PTL DEF LimiterSpec

(* Slots are an interval apart, however the processes that share the two   *)
(* files overlap; and a caller is let go ahead of its slot only behind as  *)
(* many others as the longest wait has room for.                           *)
THEOREM SlotsAreSpaced == LimiterSpec => []SlotsSpaced
<1>1. LimiterInit => LimiterIInv
  BY LimiterStarts
<1>2. LimiterIInv /\ [LimiterNext]_limiterVars => LimiterIInv'
  BY LimiterKept
<1>3. LimiterIInv => SlotsSpaced
  BY LimiterSafe
<1> QED BY <1>1, <1>2, <1>3, PTL DEF LimiterSpec

-----------------------------------------------------------------------------
(* The choice of a server.                                                 *)

Entries == [of : Conversations, server : Servers]

LEMMA ServerConstants ==
  /\ Servers \subseteq Nat /\ Servers # {}
  /\ CacheSize \in Nat \ {0} /\ MaxTurns \in Nat
BY ServerAssumption

\* There is a server that was chosen least often, and of those a first.
LEMMA LeastIs ==
  ASSUME chosen \in [Servers -> Nat]
  PROVE  LeastChosen \in Servers /\ \A t \in Servers : chosen[LeastChosen] <= chosen[t]
<1> DEFINE counts == {chosen[s] : s \in Servers}
<1>1. counts \in SUBSET Nat /\ counts # {}
  BY ServerConstants
<1>2. PICK n \in counts : \A m \in counts : n <= m
  <2> HIDE DEF counts
  <2> QED BY <1>1, LeastOf
<1> DEFINE least == {s \in Servers : chosen[s] = n}
<1>3. least \in SUBSET Nat /\ least # {}
  BY ServerConstants
<1>4. PICK s \in least : \A t \in least : s <= t
  <2> HIDE DEF least
  <2> QED BY <1>3, LeastOf
<1>5. \A t \in Servers : chosen[s] < chosen[t] \/ (chosen[s] = chosen[t] /\ s <= t)
  <2> SUFFICES ASSUME NEW t \in Servers
               PROVE  chosen[s] < chosen[t] \/ (chosen[s] = chosen[t] /\ s <= t)
    OBVIOUS
  <2>1. n <= chosen[t] /\ chosen[t] \in Nat /\ n \in Nat
    BY <1>1, <1>2
  <2>2. CASE chosen[t] = n
    BY <1>4, <2>2
  <2> QED BY <2>1, <2>2
<1>6. LeastChosen \in Servers
      /\ \A t \in Servers : \/ chosen[LeastChosen] < chosen[t]
                            \/ chosen[LeastChosen] = chosen[t] /\ LeastChosen <= t
  BY <1>5 DEF LeastChosen
<1> QED BY <1>6

\* The cache after a use: one entry at most went, and the new one is the last.
LEMMA UsedIs ==
  ASSUME CacheOK, Len(recent) <= CacheSize,
         NEW c \in Conversations, NEW s \in Servers, recent' = Used(c, s)
  PROVE  \E k \in 1 .. Len(recent) + 1 :
           /\ recent' \in Seq(Entries) /\ Len(recent') <= CacheSize
           /\ Len(recent') = IF k = Len(recent) + 1 THEN k ELSE Len(recent)
           /\ \A i \in 1 .. Len(recent') - 1 : recent'[i] = IF i < k THEN recent[i] ELSE recent[i + 1]
           /\ recent'[Len(recent')] = [of |-> c, server |-> s]
           /\ \A i \in 1 .. Len(recent) : i # k => recent[i].of # c
           /\ (k <= Len(recent) /\ recent[k].of # c) => k = 1 /\ Len(recent) = CacheSize /\ ~Cached(c)
<1> DEFINE n == Len(recent)  e == [of |-> c, server |-> s]
<1>1. recent \in Seq(Entries) /\ n \in Nat /\ e \in Entries /\ \A i \in 1 .. n : recent[i] \in Entries
  BY LenProperties, ElementOfSeq DEF CacheOK, Entries
<1> HIDE DEF e
<1>2. CASE Cached(c)
  <2> DEFINE k == Place(c)  others == RemoveAt(recent, k)
  <2>1. k \in 1 .. n /\ recent[k].of = c
    BY <1>2 DEF Cached, Place
  <2> HIDE DEF k
  <2> DEFINE a == SubSeq(recent, 1, k - 1)  b == SubSeq(recent, k + 1, n)
  <2>2. /\ a \in Seq(Entries) /\ Len(a) = k - 1 /\ \A i \in 1 .. k - 1 : a[i] = recent[i]
    <3>1. \A i \in 1 .. k - 1 : recent[i] \in Entries
      BY <1>1, <2>1
    <3>2. /\ a \in Seq(Entries) /\ Len(a) = (IF 1 <= k - 1 THEN (k - 1) - 1 + 1 ELSE 0)
          /\ \A i \in 1 .. (k - 1) - 1 + 1 : a[i] = recent[1 + i - 1]
      BY <1>1, <2>1, <3>1, SubSeqProperties
    <3> HIDE DEF a
    <3> QED BY <1>1, <2>1, <3>2
  <2>3. /\ b \in Seq(Entries) /\ Len(b) = n - k /\ \A i \in 1 .. n - k : b[i] = recent[k + i]
    <3>1. \A i \in k + 1 .. n : recent[i] \in Entries
      BY <1>1, <2>1
    <3>2. /\ b \in Seq(Entries) /\ Len(b) = (IF k + 1 <= n THEN n - (k + 1) + 1 ELSE 0)
          /\ \A i \in 1 .. n - (k + 1) + 1 : b[i] = recent[(k + 1) + i - 1]
      BY <1>1, <2>1, <3>1, SubSeqProperties
    <3> HIDE DEF b
    <3> QED BY <1>1, <2>1, <3>2
  <2>4. others = a \o b
    BY DEF RemoveAt
  <2> HIDE DEF a, b, others
  <2>5. /\ others \in Seq(Entries) /\ Len(others) = n - 1
        /\ \A i \in 1 .. n - 1 : others[i] = IF i < k THEN recent[i] ELSE recent[i + 1]
    <3>1. /\ a \o b \in Seq(Entries) /\ Len(a \o b) = Len(a) + Len(b)
          /\ \A i \in 1 .. Len(a) + Len(b) :
               (a \o b)[i] = IF i <= Len(a) THEN a[i] ELSE b[i - Len(a)]
      BY <2>2, <2>3, ConcatProperties
    <3>2. Len(a) + Len(b) = n - 1
      BY <1>1, <2>1, <2>2, <2>3
    <3>3. ASSUME NEW i \in 1 .. n - 1 PROVE others[i] = IF i < k THEN recent[i] ELSE recent[i + 1]
      <4>1. CASE i < k
        <5>1. i \in 1 .. k - 1 /\ i <= Len(a)
          BY <1>1, <2>1, <2>2, <3>3, <4>1
        <5> QED BY <2>2, <2>4, <3>1, <3>2, <3>3, <4>1, <5>1
      <4>2. CASE ~(i < k)
        <5>1. i - Len(a) \in 1 .. n - k /\ ~(i <= Len(a)) /\ k + (i - Len(a)) = i + 1
          BY <1>1, <2>1, <2>2, <3>3, <4>2
        <5> QED BY <2>3, <2>4, <3>1, <3>2, <3>3, <4>2, <5>1
      <4> QED BY <4>1, <4>2
    <3> QED BY <2>4, <3>1, <3>2, <3>3
  <2>6. recent' = Append(others, e)
    <3>1. Len(others) # CacheSize
      BY <1>1, <2>5, ServerConstants
    <3> QED BY <1>2, <3>1 DEF Used, others, k, e
  <2>7. /\ recent' \in Seq(Entries) /\ Len(recent') = n
        /\ \A i \in 1 .. n - 1 : recent'[i] = others[i]
        /\ recent'[n] = e
    <3>1. /\ Append(others, e) \in Seq(Entries) /\ Len(Append(others, e)) = Len(others) + 1
          /\ \A i \in 1 .. Len(others) : Append(others, e)[i] = others[i]
          /\ Append(others, e)[Len(others) + 1] = e
      BY <1>1, <2>5, AppendProperties
    <3>2. Len(others) + 1 = n
      BY <1>1, <2>5
    <3> QED BY <2>5, <2>6, <3>1, <3>2
  <2>8. \A i \in 1 .. n : i # k => recent[i].of # c
    BY <2>1 DEF CacheOK
  <2>9. k \in 1 .. n + 1 /\ k # n + 1
    BY <1>1, <2>1
  <2> k \in 1 .. Len(recent) + 1
    BY <2>9
  <2> WITNESS k \in 1 .. Len(recent) + 1
  <2> QED BY <2>1, <2>5, <2>7, <2>8, <2>9 DEF e
<1>3. CASE ~Cached(c) /\ n = CacheSize
  <2>1. n \in Nat \ {0} /\ recent # <<>>
    BY <1>3, ServerConstants, EmptySeq
  <2>2. /\ Tail(recent) \in Seq(Entries) /\ Len(Tail(recent)) = n - 1
        /\ \A i \in 1 .. n - 1 : Tail(recent)[i] = recent[i + 1]
    <3>1. /\ Tail(recent) \in Seq(Entries) /\ Len(Tail(recent)) = n - 1
          /\ \A i \in 1 .. Len(Tail(recent)) : Tail(recent)[i] = recent[i + 1]
      BY <1>1, <2>1, HeadTailProperties
    <3> QED BY <3>1
  <2>3. recent' = Append(Tail(recent), e)
    BY <1>3 DEF Used, e
  <2>4. /\ recent' \in Seq(Entries) /\ Len(recent') = n
        /\ \A i \in 1 .. n - 1 : recent'[i] = recent[i + 1]
        /\ recent'[n] = e
    <3>1. /\ Append(Tail(recent), e) \in Seq(Entries)
          /\ Len(Append(Tail(recent), e)) = Len(Tail(recent)) + 1
          /\ \A i \in 1 .. Len(Tail(recent)) : Append(Tail(recent), e)[i] = Tail(recent)[i]
          /\ Append(Tail(recent), e)[Len(Tail(recent)) + 1] = e
      BY <1>1, <2>2, AppendProperties
    <3>2. Len(Tail(recent)) + 1 = n
      BY <2>1, <2>2
    <3> QED BY <2>2, <2>3, <3>1, <3>2
  <2>5. \A i \in 1 .. n : recent[i].of # c
    BY <1>3 DEF Cached
  <2>6. 1 \in 1 .. n + 1 /\ 1 # n + 1 /\ \A i \in 1 .. n - 1 : ~(i < 1)
    BY <2>1
  <2> WITNESS 1 \in 1 .. Len(recent) + 1
  <2> QED BY <1>3, <2>1, <2>4, <2>5, <2>6 DEF e
<1>4. CASE ~Cached(c) /\ n # CacheSize
  <2>1. recent' = Append(recent, e)
    BY <1>4 DEF Used, e
  <2>2. /\ recent' \in Seq(Entries) /\ Len(recent') = n + 1
        /\ \A i \in 1 .. n : recent'[i] = recent[i]
        /\ recent'[n + 1] = e
    BY <1>1, <2>1, AppendProperties
  <2>3. \A i \in 1 .. n : recent[i].of # c
    BY <1>4 DEF Cached
  <2>4. n + 1 \in 1 .. n + 1 /\ n + 1 <= CacheSize /\ ~(n + 1 <= n)
        /\ (n + 1) - 1 = n /\ \A i \in 1 .. n : i < n + 1
    BY <1>1, <1>4, ServerConstants
  <2> WITNESS n + 1 \in 1 .. Len(recent) + 1
  <2> QED BY <2>2, <2>3, <2>4 DEF e
<1> QED BY <1>2, <1>3, <1>4

\* A server is used for a conversation, whichever it is.
LEMMA GeneratedAt ==
  ASSUME ServerTypeOK, CacheOK, CrowdedOut, NEW c \in Conversations, NEW s \in Servers,
         GenerateAt(c, s)
  PROVE  /\ CacheOK' /\ CrowdedOut' /\ Len(recent') <= CacheSize
         /\ sentTo' \in [Conversations -> Servers \cup {0}]
         /\ between' \in [Conversations -> SUBSET Conversations]
<1> DEFINE n == Len(recent)
<1>1. /\ recent \in Seq(Entries) /\ n \in Nat /\ n <= CacheSize
      /\ \A i \in 1 .. n : recent[i] \in Entries
  BY LenProperties, ElementOfSeq DEF CacheOK, Entries, ServerTypeOK
<1>2. PICK k \in 1 .. n + 1 :
        /\ recent' \in Seq(Entries) /\ Len(recent') <= CacheSize
        /\ Len(recent') = IF k = n + 1 THEN k ELSE n
        /\ \A i \in 1 .. Len(recent') - 1 : recent'[i] = IF i < k THEN recent[i] ELSE recent[i + 1]
        /\ recent'[Len(recent')] = [of |-> c, server |-> s]
        /\ \A i \in 1 .. n : i # k => recent[i].of # c
        /\ (k <= n /\ recent[k].of # c) => k = 1 /\ n = CacheSize /\ ~Cached(c)
  BY <1>1, UsedIs DEF GenerateAt
<1>3. /\ sentTo' \in [Conversations -> Servers \cup {0}] /\ sentTo'[c] = s
      /\ \A d \in Conversations : d # c => sentTo'[d] = sentTo[d]
  BY DEF GenerateAt, ServerTypeOK
<1>4. /\ between' \in [Conversations -> SUBSET Conversations] /\ between'[c] = {}
      /\ \A d \in Conversations : d # c => between'[d] = between[d] \cup {c}
  BY DEF GenerateAt, ServerTypeOK
<1>5. PICK m \in Nat : m = Len(recent')
  BY <1>1, <1>2
<1>6. /\ m = (IF k = n + 1 THEN k ELSE n) /\ m <= CacheSize /\ m \in 1 .. n + 1
      /\ \A i \in 1 .. m - 1 : recent'[i] = IF i < k THEN recent[i] ELSE recent[i + 1]
      /\ recent'[m] = [of |-> c, server |-> s]
  BY <1>1, <1>2, <1>5
\* Where what stays was before.
<1> DEFINE old(i) == IF i < k THEN i ELSE i + 1
<1>7. ASSUME NEW i \in 1 .. m - 1
      PROVE  /\ old(i) \in 1 .. n /\ old(i) # k /\ recent'[i] = recent[old(i)]
             /\ recent[old(i)].of \in Conversations /\ recent[old(i)].of # c
  <2>1. old(i) \in 1 .. n /\ old(i) # k /\ recent'[i] = recent[old(i)]
    BY <1>1, <1>6
  <2>2. recent[old(i)] \in Entries
    BY <1>1, <2>1
  <2> HIDE DEF old, n
  <2> QED BY <1>2, <2>1, <2>2 DEF Entries
<1>8. \A i, j \in 1 .. m - 1 : (i < j => old(i) < old(j)) /\ (old(i) = old(j) => i = j)
  BY <1>1, <1>6
<1>9. \A i, j \in 1 .. n : recent[i].of = recent[j].of => i = j
  BY DEF CacheOK
<1>10. \A i \in 1 .. n : /\ sentTo[recent[i].of] = recent[i].server
                         /\ \A j \in i + 1 .. n : recent[j].of \in between[recent[i].of]
  BY DEF CacheOK
<1>11. recent'[m].of = c /\ recent'[m].server = s
  BY <1>6
<1>12. \A i \in 1 .. m : i = m \/ i \in 1 .. m - 1
  BY <1>6
<1> HIDE DEF old
<1>13. ASSUME NEW i \in 1 .. m, NEW j \in 1 .. m, recent'[i].of = recent'[j].of PROVE i = j
  <2>1. CASE i \in 1 .. m - 1 /\ j \in 1 .. m - 1
    BY <1>7, <1>8, <1>9, <1>13, <2>1
  <2>2. CASE i = m
    BY <1>7, <1>11, <1>12, <1>13, <2>2
  <2>3. CASE j = m
    BY <1>7, <1>11, <1>12, <1>13, <2>3
  <2> QED BY <1>12, <2>1, <2>2, <2>3
<1>14. ASSUME NEW i \in 1 .. m
       PROVE  /\ sentTo'[recent'[i].of] = recent'[i].server
              /\ \A j \in i + 1 .. m : recent'[j].of \in between'[recent'[i].of]
  <2>1. CASE i = m
    <3>1. \A j \in i + 1 .. m : FALSE
      BY <2>1
    <3> QED BY <1>3, <1>11, <2>1, <3>1
  <2>2. CASE i \in 1 .. m - 1
    <3> DEFINE d == recent[old(i)].of
    <3>1. d \in Conversations /\ d # c /\ recent'[i] = recent[old(i)] /\ old(i) \in 1 .. n
      BY <1>7, <2>2
    <3>2. sentTo'[d] = recent[old(i)].server /\ between'[d] = between[d] \cup {c}
      BY <1>3, <1>4, <1>10, <3>1
    <3>3. ASSUME NEW j \in i + 1 .. m PROVE recent'[j].of \in between'[d]
      <4>1. CASE j = m
        BY <1>11, <3>2, <4>1
      <4>2. CASE j # m
        <5>1. j \in 1 .. m - 1 /\ i < j
          BY <1>6, <3>3, <4>2
        <5>2. old(i) < old(j) /\ old(j) \in 1 .. n /\ recent'[j] = recent[old(j)]
          BY <1>7, <1>8, <2>2, <5>1
        <5>3. old(j) \in old(i) + 1 .. n
          BY <1>1, <3>1, <5>2
        <5>4. recent[old(j)].of \in between[d]
          BY <1>10, <3>1, <5>3
        <5> QED BY <3>2, <5>2, <5>4
      <4> QED BY <4>1, <4>2
    <3> QED BY <3>1, <3>2, <3>3
  <2> QED BY <1>12, <2>1, <2>2
<1>15. CacheOK'
  <2>1. CacheOK' <=>
          /\ recent' \in Seq(Entries)
          /\ \A i, j \in 1 .. Len(recent') : recent'[i].of = recent'[j].of => i = j
          /\ \A i \in 1 .. Len(recent') :
               /\ sentTo'[recent'[i].of] = recent'[i].server
               /\ \A j \in i + 1 .. Len(recent') : recent'[j].of \in between'[recent'[i].of]
    BY DEF CacheOK, Entries
  <2> QED BY <1>2, <1>5, <1>13, <1>14, <2>1
<1>16. ASSUME NEW d \in Conversations
       PROVE  /\ IsFiniteSet(between'[d])
              /\ d # c => Cardinality(between'[d]) >= Cardinality(between[d])
              /\ Cardinality(between'[d]) \in Nat /\ Cardinality(between[d]) \in Nat
  <2>1. IsFiniteSet(between[d]) /\ Cardinality(between[d]) \in Nat
    BY FS_CardinalityType DEF CrowdedOut
  <2>2. CASE d = c
    <3>1. IsFiniteSet({}) /\ Cardinality({}) = 0 /\ between'[d] = {}
      BY <1>4, <2>2, FS_EmptySet
    <3>2. IsFiniteSet(between'[d]) /\ Cardinality(between'[d]) = 0
      BY <3>1
    <3> QED BY <2>1, <2>2, <3>2
  <2>3. CASE d # c
    <3>1. /\ IsFiniteSet(between[d] \cup {c})
          /\ Cardinality(between[d] \cup {c}) =
               IF c \in between[d] THEN Cardinality(between[d]) ELSE Cardinality(between[d]) + 1
      BY <2>1, FS_AddElement
    <3>2. between'[d] = between[d] \cup {c}
      BY <1>4, <2>3
    <3>3. PICK x : x = Cardinality(between[d])
      OBVIOUS
    <3>4. PICK y : y = Cardinality(between[d] \cup {c})
      OBVIOUS
    <3>5. x \in Nat /\ y \in Nat /\ y >= x
      BY <2>1, <3>1, <3>3, <3>4
    <3> QED BY <2>1, <3>1, <3>2, <3>3, <3>4, <3>5
  <2> QED BY <2>2, <2>3
<1>17. ASSUME NEW d \in Conversations, sentTo'[d] # 0, ~Cached(d)'
       PROVE  Cardinality(between'[d]) >= CacheSize
  <2>1. d # c
    <3>1. m \in 1 .. Len(recent')
      BY <1>5, <1>6
    <3> QED BY <1>11, <1>17, <3>1 DEF Cached
  <2>2. sentTo[d] # 0
    BY <1>3, <1>17, <2>1
  <2>3. CASE ~Cached(d)
    BY <1>16, <2>1, <2>2, <2>3, ServerConstants DEF CrowdedOut
  <2>4. CASE Cached(d)
    <3>1. PICK i \in 1 .. n : recent[i].of = d
      BY <2>4 DEF Cached
    <3>2. i = k
      <4> SUFFICES ASSUME i # k PROVE FALSE
        OBVIOUS
      <4>1. PICK j : j = IF i < k THEN i ELSE i - 1
        OBVIOUS
      <4>2. j \in 1 .. m - 1 /\ old(j) = i
        BY <1>1, <1>6, <4>1 DEF old
      <4>3. j \in 1 .. Len(recent') /\ recent'[j].of = d
        BY <1>5, <1>7, <3>1, <4>2
      <4> QED BY <1>17, <4>3 DEF Cached
    <3>3. k = 1 /\ n = CacheSize /\ m = CacheSize
      BY <1>1, <1>2, <1>6, <2>1, <3>1, <3>2
    \* Those that came after it, and the one that took its place.
    <3> DEFINE f == [j \in 1 .. m |-> recent'[j].of]
    <3>4. \A j \in 1 .. m : recent'[j].of \in between'[d]
      <4> SUFFICES ASSUME NEW j \in 1 .. m PROVE recent'[j].of \in between'[d]
        OBVIOUS
      <4>1. CASE j = m
        BY <1>4, <1>11, <2>1, <4>1
      <4>2. CASE j \in 1 .. m - 1
        <5>1. old(j) \in 1 + 1 .. n /\ recent'[j] = recent[old(j)]
          BY <1>1, <1>7, <3>3, <4>2
        <5>2. recent[old(j)].of \in between[d]
          BY <1>1, <1>10, <3>1, <3>2, <3>3, <5>1
        <5> QED BY <1>4, <2>1, <5>1, <5>2
      <4> QED BY <1>12, <4>1, <4>2
    <3>5. f \in Injection(1 .. m, between'[d])
      BY <1>13, <3>4 DEF Injection, IsInjective
    <3>6. Cardinality(1 .. m) <= Cardinality(between'[d])
      <4> HIDE DEF f
      <4> QED BY <1>16, <3>5, FS_Injection
    <3>7. Cardinality(1 .. m) = m
      <4>1. Cardinality(1 .. m) = IF 1 > m THEN 0 ELSE m - 1 + 1
        BY FS_Interval
      <4> QED BY <1>6, <4>1
    <3> QED BY <1>16, <3>3, <3>6, <3>7, ServerConstants
  <2> QED BY <2>3, <2>4
<1>18. CrowdedOut'
  BY <1>16, <1>17 DEF CrowdedOut
<1> QED BY <1>2, <1>3, <1>4, <1>15, <1>18

LEMMA ServerStarts == ServerInit => ServerIInv
<1> SUFFICES ASSUME ServerInit PROVE ServerIInv
  OBVIOUS
<1>1. /\ chosen = [s \in Servers |-> 0] /\ recent = <<>>
      /\ sentTo = [c \in Conversations |-> 0] /\ between = [c \in Conversations |-> {}]
  BY DEF ServerInit
<1>2. recent \in Seq(Entries) /\ Len(recent) = 0 /\ Range(recent) = {}
  <2>1. recent \in Seq(Entries) /\ Len(recent) = 0
    BY <1>1, EmptySeq
  <2>2. Range(recent) = {recent[i] : i \in 1 .. Len(recent)}
    BY <2>1, RangeEquality
  <2> QED BY <2>1, <2>2
<1>3. ServerTypeOK /\ ChosenEvenly
  BY <1>1, <1>2, ServerConstants DEF ServerTypeOK, ChosenEvenly
<1>4. CacheOK
  BY <1>2 DEF CacheOK, Entries
<1>5. CrowdedOut
  BY <1>1, FS_EmptySet DEF CrowdedOut
<1> QED BY <1>3, <1>4, <1>5 DEF ServerIInv

\* The server of a conversation that is in the cache is where it went last.
LEMMA ServerHeld ==
  ASSUME CacheOK, NEW c \in Conversations, Cached(c)
  PROVE  ServerOf(c) \in Servers /\ ServerOf(c) = sentTo[c]
<1>1. Place(c) \in 1 .. Len(recent) /\ recent[Place(c)].of = c
  BY DEF Cached, Place
<1>2. recent[Place(c)] \in Entries
  BY <1>1, ElementOfSeq DEF CacheOK, Entries
<1> QED BY <1>1, <1>2 DEF ServerOf, CacheOK, Entries

LEMMA ServerKept == ServerIInv /\ [ServerNext]_serverVars => ServerIInv'
<1> SUFFICES ASSUME ServerIInv, [ServerNext]_serverVars PROVE ServerIInv'
  OBVIOUS
<1>0. /\ ServerTypeOK /\ ChosenEvenly /\ CacheOK /\ CrowdedOut /\ chosen \in [Servers -> Nat]
      /\ \A s, t \in Servers : chosen[s] <= chosen[t] + 1
  BY DEF ServerIInv, ServerTypeOK, ChosenEvenly
<1>1. ASSUME NEW c \in Conversations, NEW s \in Servers, GenerateAt(c, s),
             chosen' \in [Servers -> Nat], \A u, t \in Servers : chosen'[u] <= chosen'[t] + 1
      PROVE  ServerIInv'
  <2>1. /\ CacheOK' /\ CrowdedOut' /\ Len(recent') <= CacheSize
        /\ sentTo' \in [Conversations -> Servers \cup {0}]
        /\ between' \in [Conversations -> SUBSET Conversations]
    BY <1>0, <1>1, GeneratedAt
  <2>2. recent' \in Seq(Entries)
    BY <2>1 DEF CacheOK, Entries
  <2>3. \A e \in Range(recent') : e.of \in Conversations /\ e.server \in Servers
    <3>1. Range(recent') \in SUBSET Entries
      BY <2>2, RangeOfSeq
    <3> QED BY <3>1 DEF Entries
  <2> QED BY <1>1, <2>1, <2>3 DEF ServerIInv, ServerTypeOK, ChosenEvenly
<1>2. ASSUME NEW c \in Conversations, SendAgain(c) PROVE ServerIInv'
  <2>1. ServerOf(c) \in Servers /\ GenerateAt(c, ServerOf(c)) /\ chosen' = chosen
    BY <1>0, <1>2, ServerHeld DEF SendAgain
  <2> QED BY <1>0, <1>1, <2>1
<1>3. ASSUME NEW c \in Conversations, SendToLeast(c) PROVE ServerIInv'
  <2>1. /\ GenerateAt(c, LeastChosen) /\ chosen' = [chosen EXCEPT ![LeastChosen] = @ + 1]
    BY <1>3 DEF SendToLeast
  <2>2. PICK l \in Servers : l = LeastChosen /\ \A t \in Servers : chosen[l] <= chosen[t]
    BY <1>0, LeastIs
  <2>3. /\ chosen' \in [Servers -> Nat]
        /\ \A t \in Servers : chosen'[t] = IF t = l THEN chosen[l] + 1 ELSE chosen[t]
    BY <1>0, <2>1, <2>2
  <2>4. ASSUME NEW u \in Servers, NEW t \in Servers PROVE chosen'[u] <= chosen'[t] + 1
    <3>1. chosen[u] \in Nat /\ chosen[t] \in Nat /\ chosen[l] \in Nat
      BY <1>0
    <3>2. chosen[u] <= chosen[t] + 1 /\ chosen[u] <= chosen[l] + 1 /\ chosen[l] <= chosen[t]
      BY <1>0, <2>2
    <3> QED BY <2>3, <3>1, <3>2
  <2> QED BY <1>1, <2>1, <2>2, <2>3, <2>4
<1>4. CASE UNCHANGED serverVars
  <2>1. UNCHANGED <<chosen, recent, sentTo, between>>
    BY <1>4 DEF serverVars
  <2> QED BY <2>1 DEF ServerIInv, ServerTypeOK, ChosenEvenly, CacheOK, CrowdedOut, Cached
<1> QED BY <1>2, <1>3, <1>4 DEF ServerNext

(* Counters and cache are what _choose_server makes them, for any servers. *)
THEOREM ServerTypeCorrect == ServerSpec => []ServerTypeOK
<1>1. ServerInit => ServerIInv
  BY ServerStarts
<1>2. ServerIInv /\ [ServerNext]_serverVars => ServerIInv'
  BY ServerKept
<1>3. ServerIInv => ServerTypeOK
  BY DEF ServerIInv
<1> QED BY <1>1, <1>2, <1>3, PTL DEF ServerSpec

(* The servers are chosen evenly: no counter is ahead of another by more   *)
(* than one, whichever conversations come back after they left the cache.  *)
THEOREM ServersEven == ServerSpec => []ChosenEvenly
<1>1. ServerInit => ServerIInv
  BY ServerStarts
<1>2. ServerIInv /\ [ServerNext]_serverVars => ServerIInv'
  BY ServerKept
<1>3. ServerIInv => ChosenEvenly
  BY DEF ServerIInv
<1> QED BY <1>1, <1>2, <1>3, PTL DEF ServerSpec

(* A conversation stays at its server until as many others as the cache    *)
(* holds had a turn.                                                       *)
THEOREM ServersStick == ServerSpec => StickyUnlessCrowded
<1>1. ServerInit => ServerIInv
  BY ServerStarts
<1>2. ServerIInv /\ [ServerNext]_serverVars => ServerIInv'
  BY ServerKept
<1>3. ServerIInv /\ [ServerNext]_serverVars =>
        [\A c \in Conversations :
           sentTo[c] # 0 /\ sentTo'[c] # sentTo[c] => Cardinality(between[c]) >= CacheSize]_serverVars
  <2> SUFFICES ASSUME ServerIInv, ServerNext, NEW d \in Conversations,
                      sentTo[d] # 0, sentTo'[d] # sentTo[d]
               PROVE  Cardinality(between[d]) >= CacheSize
    OBVIOUS
  <2>1. PICK c \in Conversations : SendAgain(c) \/ SendToLeast(c)
    BY DEF ServerNext
  <2>2. d = c
    BY <2>1 DEF SendAgain, SendToLeast, GenerateAt, ServerIInv, ServerTypeOK
  <2>3. ~Cached(d)
    <3> SUFFICES ASSUME Cached(d) PROVE FALSE
      OBVIOUS
    <3>1. GenerateAt(d, ServerOf(d)) /\ ServerOf(d) = sentTo[d]
      BY <2>1, <2>2, ServerHeld DEF SendAgain, SendToLeast, ServerIInv
    <3> QED BY <3>1 DEF GenerateAt, ServerIInv, ServerTypeOK
  <2> QED BY <2>3 DEF ServerIInv, CrowdedOut
<1> QED BY <1>1, <1>2, <1>3, PTL DEF ServerSpec, StickyUnlessCrowded
=============================================================================
