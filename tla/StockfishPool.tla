---------------------------- MODULE StockfishPool ----------------------------
(***************************************************************************)
(* The pool of Stockfish engines: a bounded asyncio queue holds the free   *)
(* ones; a caller takes one, has a thread ask it, and puts it back.        *)
(* start() makes a new queue and fills it engine by engine, stop() quits   *)
(* every engine and drops the queue.  A lock keeps the two from each other *)
(* but not from the callers.  The event loop is single threaded: an action *)
(* is what runs between two awaits.                                        *)
(*                                                                         *)
(* Abstracted: boards, limits and what an engine answers, an exception     *)
(* included: a caller puts its engine back in both cases.                  *)
(***************************************************************************)
EXTENDS Naturals, Sequences, FiniteSets

CONSTANTS
  Callers,    \* calls of play or analyse, each made once
  Hurried,    \* the ones with a timeout; those of the HTTP service have none
  EnginesMax, \* pool_size
  MaxStarts   \* bound: times start() makes a queue

ASSUME EnginesAssumption ==
  /\ Hurried \subseteq Callers
  /\ EnginesMax \in Nat \ {0}
  /\ MaxStarts \in Nat

\* An engine is named by the queue it was made for and its identifier.
Queues  == 1 .. MaxStarts
Engines == Queues \X (1 .. EnginesMax)

VARIABLES
  started,   \* _started
  filling,   \* start() holds the lock while a thread makes an engine
  gen,       \* the queue that _available is, or was last
  made,      \* how many engines are in _wrappers
  queue,     \* what each queue holds; callers may hold on to a dropped one
  callerPc,  \* where each caller is
  waitsOn,   \* the queue it gets from or puts into
  engine,    \* the engine it holds
  life,      \* of each engine: not made, up, or quit by stop()
  stops,     \* queues that stop() has dropped
  lentAtStop \* engines that were lent when stop() quit them

ownerVars == <<started, filling, gen, made, life, stops, lentAtStop>>
callerVars == <<callerPc, waitsOn, engine>>
engineVars == <<ownerVars, callerVars, queue>>

CallerPCs == {"idle", "waiting", "using", "putting", "answered"}

Holding == {c \in Callers : callerPc[c] \in {"using", "putting"}}

\* The engines in _wrappers.
Wrappers == {<<gen, i>> : i \in 1 .. made}

EnginesInit ==
  /\ started = FALSE /\ filling = FALSE /\ gen = 0 /\ made = 0
  /\ queue = [g \in Queues |-> <<>>]
  /\ callerPc = [c \in Callers |-> "idle"]
  /\ waitsOn = [c \in Callers |-> 0]
  /\ engine = [c \in Callers |-> <<0, 0>>]
  /\ life = [e \in Engines |-> "none"]
  /\ stops = {} /\ lentAtStop = {}

-----------------------------------------------------------------------------
(* start() and stop().                                                     *)

BeginFill ==
  /\ ~filling /\ ~started
  /\ gen < MaxStarts
  /\ filling' = TRUE
  /\ gen' = gen + 1
  /\ made' = 0
  /\ UNCHANGED <<started, life, stops, lentAtStop, callerVars, queue>>

\* The next engine is up and in the queue; with the last the pool is started.
AddEngine ==
  /\ filling
  /\ made' = made + 1
  /\ life' = [life EXCEPT ![<<gen, made + 1>>] = "up"]
  /\ queue' = [queue EXCEPT ![gen] = Append(@, <<gen, made + 1>>)]
  /\ started' = (made' = EnginesMax)
  /\ filling' = ~started'
  /\ UNCHANGED <<gen, stops, lentAtStop, callerVars>>

\* An engine does not come up, or comes up and cannot be configured: start()
\* raises and leaves what runs running.
FillFails ==
  /\ filling
  /\ filling' = FALSE
  /\ \E l \in {"none", "up"} : life' = [life EXCEPT ![<<gen, made + 1>>] = l]
  /\ UNCHANGED <<started, gen, made, stops, lentAtStop, callerVars, queue>>

\* [mutant] only the engines that are free are quit.
StopFreeOnes ==
  /\ ~filling /\ started
  /\ started' = FALSE
  /\ made' = 0
  /\ queue' = [queue EXCEPT ![gen] = <<>>]
  /\ life' = [e \in Engines |->
       IF \E i \in 1 .. Len(queue[gen]) : queue[gen][i] = e THEN "quit" ELSE life[e]]
  /\ stops' = stops \cup {gen}
  /\ lentAtStop' = lentAtStop \cup {engine[c] : c \in Holding}
  /\ UNCHANGED <<filling, gen, callerVars>>

\* Every engine is quit, also those that are lent; the queue is emptied and
\* dropped.  Nobody tells the callers that wait on it.
StopEngines ==
  /\ ~filling /\ started
  /\ started' = FALSE
  /\ made' = 0
  /\ queue' = [queue EXCEPT ![gen] = <<>>]
  /\ life' = [e \in Engines |-> IF e \in Wrappers THEN "quit" ELSE life[e]]
  /\ stops' = stops \cup {gen}
  /\ lentAtStop' = lentAtStop \cup {engine[c] : c \in Holding}
  /\ UNCHANGED <<filling, gen, callerVars>>

-----------------------------------------------------------------------------
(* A caller: _acquire, the engine's answer in a thread, _release.          *)

\* [mutant] the engine is not taken off the queue.
GetAndLeave(c, g) ==
  /\ queue[g] # <<>>
  /\ callerPc' = [callerPc EXCEPT ![c] = "using"]
  /\ engine' = [engine EXCEPT ![c] = Head(queue[g])]
  /\ waitsOn' = [waitsOn EXCEPT ![c] = g]
  /\ UNCHANGED queue

GetFrom(c, g) ==
  /\ queue[g] # <<>>
  /\ callerPc' = [callerPc EXCEPT ![c] = "using"]
  /\ engine' = [engine EXCEPT ![c] = Head(queue[g])]
  /\ waitsOn' = [waitsOn EXCEPT ![c] = g]
  /\ queue' = [queue EXCEPT ![g] = Tail(@)]

\* Asking a pool that is not started raises.  Who has no timeout takes an
\* engine that is free at once; wait_for first makes a task of the get.
Ask(c) ==
  /\ callerPc[c] = "idle"
  /\ \/ /\ ~started
        /\ callerPc' = [callerPc EXCEPT ![c] = "answered"]
        /\ UNCHANGED <<waitsOn, queue, engine>>
     \/ /\ started /\ c \notin Hurried
        /\ GetFrom(c, gen)
     \/ /\ started /\ (c \in Hurried \/ queue[gen] = <<>>)
        /\ callerPc' = [callerPc EXCEPT ![c] = "waiting"]
        /\ waitsOn' = [waitsOn EXCEPT ![c] = gen]
        /\ UNCHANGED <<queue, engine>>
  /\ UNCHANGED ownerVars

\* An asyncio queue wakes who waited longest, but a caller that comes just in
\* time is served before the one that was woken: any of them may be next.
Take(c) ==
  /\ callerPc[c] = "waiting"
  /\ GetFrom(c, waitsOn[c])
  /\ UNCHANGED ownerVars

\* [mutant] a timeout that needs a started pool to be noticed.
GiveUpWhileStarted(c) ==
  /\ c \in Hurried
  /\ callerPc[c] = "waiting" /\ started
  /\ callerPc' = [callerPc EXCEPT ![c] = "answered"]
  /\ UNCHANGED <<ownerVars, queue, waitsOn, engine>>

\* The timeout of a caller that has one.
GiveUp(c) ==
  /\ c \in Hurried
  /\ callerPc[c] = "waiting"
  /\ callerPc' = [callerPc EXCEPT ![c] = "answered"]
  /\ UNCHANGED <<ownerVars, queue, waitsOn, engine>>

Room == Len(queue[gen]) < EnginesMax

\* [mutant] an engine whose answer is an exception is not put back.
FinishLosing(c) ==
  /\ callerPc[c] = "using"
  /\ callerPc' = [callerPc EXCEPT ![c] = "answered"]
  /\ \/ queue' = queue
     \/ started /\ Room /\ queue' = [queue EXCEPT ![gen] = Append(@, engine[c])]
  /\ UNCHANGED <<ownerVars, engine, waitsOn>>

\* The thread is done.  The engine goes to the queue there is now, which may
\* be full, or nowhere if there is none.
Finish(c) ==
  /\ callerPc[c] = "using"
  /\ IF started /\ ~Room
       THEN /\ callerPc' = [callerPc EXCEPT ![c] = "putting"]
            /\ waitsOn' = [waitsOn EXCEPT ![c] = gen]
            /\ UNCHANGED queue
       ELSE /\ callerPc' = [callerPc EXCEPT ![c] = "answered"]
            /\ queue' = IF started THEN [queue EXCEPT ![gen] = Append(@, engine[c])]
                                   ELSE queue
            /\ UNCHANGED waitsOn
  /\ UNCHANGED <<ownerVars, engine>>

\* The queue has room; it may have been dropped by now.
Put(c) ==
  /\ callerPc[c] = "putting"
  /\ Len(queue[waitsOn[c]]) < EnginesMax
  /\ callerPc' = [callerPc EXCEPT ![c] = "answered"]
  /\ queue' = [queue EXCEPT ![waitsOn[c]] = Append(@, engine[c])]
  /\ UNCHANGED <<ownerVars, waitsOn, engine>>

-----------------------------------------------------------------------------
CallerStep(c) == Take(c) \/ GiveUp(c) \/ Finish(c) \/ Put(c)

EnginesNext ==
  \/ BeginFill \/ AddEngine \/ FillFails \/ StopEngines
  \/ \E c \in Callers : Ask(c) \/ CallerStep(c)

EnginesSpec == EnginesInit /\ [][EnginesNext]_engineVars

\* The event loop runs every task that can go on, an engine answers, and a
\* timeout expires.  Nobody has to ask, to start or to stop.
EnginesFairness ==
  \A c \in Callers : WF_engineVars(Take(c) \/ GiveUp(c)) /\ WF_engineVars(Finish(c) \/ Put(c))

-----------------------------------------------------------------------------
EnginesTypeOK ==
  /\ started \in BOOLEAN /\ filling \in BOOLEAN
  /\ gen \in 0 .. MaxStarts /\ made \in 0 .. EnginesMax
  /\ queue \in [Queues -> Seq(Engines)]
  /\ callerPc \in [Callers -> CallerPCs]
  /\ waitsOn \in [Callers -> 0 .. MaxStarts]
  /\ engine \in [Callers -> Engines \cup {<<0, 0>>}]
  /\ life \in [Engines -> {"none", "up", "quit"}]
  /\ stops \subseteq Queues /\ lentAtStop \subseteq Engines

InQueue(e, g) == \E i \in 1 .. Len(queue[g]) : queue[g][i] = e

\* Every engine of a started pool is free or in the hands of a caller who
\* will put it back, whatever the calls before came to and whatever was put
\* back late from an earlier pool.
NoEngineLost ==
  started => \A e \in Wrappers :
    InQueue(e, gen) \/ \E c \in Holding : engine[c] = e

\* In a queue, or in the hands of a caller.
Reachable(e) ==
  (\E g \in Queues : InQueue(e, g)) \/ (\E c \in Holding : engine[c] = e)

(* What is left of earlier pools.  A start that fails is the only way to   *)
(* leave engines running that no stop will quit; the only engines a caller *)
(* can be given after they were quit are those that were lent at the time, *)
(* and without them there is room for every engine that comes back.        *)
LeftOvers ==
  /\ \A e \in Engines :
       /\ (life[e] = "up" /\ e \notin Wrappers) =>
            (e[1] \notin stops /\ (e[1] = gen => ~started /\ ~filling))
       /\ (life[e] = "quit" /\ Reachable(e)) => e \in lentAtStop
  /\ (\E c \in Callers : callerPc[c] = "putting") => lentAtStop # {}

\* The pool is a set of engines lent to one caller at a time, which never run
\* again once they were quit.
LifeHolders == [e \in Engines |-> {c \in Holding : engine[c] = e}]

Leases == INSTANCE EngineLeases WITH holders <- LifeHolders

ImplementsLeases == Leases!LeaseSpec

Busy == {"waiting", "using", "putting"}

(* Every call is answered unless the pool is stopped.  After that one that *)
(* has no timeout may wait for ever for an engine of a queue that is gone, *)
(* and if engines were lent at the time, any for room to put one back.     *)
CallersAnswered ==
  \A c \in Callers :
    callerPc[c] \in Busy ~>
      callerPc[c] = "answered" \/ (stops # {} /\ (c \notin Hurried \/ lentAtStop # {}))
=============================================================================
