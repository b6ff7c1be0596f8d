---------------------------- MODULE ServerChoice ----------------------------
(***************************************************************************)
(* How a worker of the agent loops chooses the inference server for a      *)
(* conversation: the one it has chosen least often so far, remembered in a *)
(* cache of limited size so that all turns of a conversation go to the     *)
(* server that has its prefix.  _choose_server does not await, so a choice *)
(* is one action however many conversations are under way.                 *)
(***************************************************************************)
EXTENDS Naturals, Sequences, FiniteSets, SequencesExt

CONSTANTS
  Servers,       \* 1 .. the number of servers, in the order of their hashes
  Conversations, \* request ids
  CacheSize,     \* max_cache_size
  MaxTurns       \* bound: calls of generate

ASSUME ServerAssumption ==
  /\ Servers \subseteq Nat /\ Servers # {}
  /\ CacheSize \in Nat \ {0} /\ MaxTurns \in Nat

VARIABLES
  chosen,  \* weighted_serveres: how often each server was chosen
  recent,  \* request_id_to_server, the least recently used first
  sentTo,  \* where the last turn of each conversation went, 0 before the first
  between  \* the other conversations that had a turn since

serverVars == <<chosen, recent, sentTo, between>>

ServerInit ==
  /\ chosen = [s \in Servers |-> 0]
  /\ recent = <<>>
  /\ sentTo = [c \in Conversations |-> 0]
  /\ between = [c \in Conversations |-> {}]

-----------------------------------------------------------------------------
\* [mutant] the heap is not put in order again.
FirstServer == CHOOSE s \in Servers : \A t \in Servers : s <= t

\* The root of the heap: ties go by the hash.
LeastChosen ==
  CHOOSE s \in Servers : \A t \in Servers :
    chosen[s] < chosen[t] \/ (chosen[s] = chosen[t] /\ s <= t)

Cached(c) == \E i \in 1 .. Len(recent) : recent[i].of = c

Place(c) == CHOOSE i \in 1 .. Len(recent) : recent[i].of = c

ServerOf(c) == recent[Place(c)].server

\* [mutant] first in, first out: a use does not count.
UsedInPlace(c, s) ==
  IF Cached(c) THEN recent
  ELSE Append(IF Len(recent) = CacheSize THEN Tail(recent) ELSE recent, [of |-> c, server |-> s])

\* The cache after a use: c is the last to go, and what is too much goes.
Used(c, s) ==
  LET others == IF Cached(c) THEN RemoveAt(recent, Place(c)) ELSE recent
      kept == IF Len(others) = CacheSize THEN Tail(others) ELSE others
  IN  Append(kept, [of |-> c, server |-> s])

GenerateAt(c, s) ==
  /\ recent' = Used(c, s)
  /\ sentTo' = [sentTo EXCEPT ![c] = s]
  /\ between' = [d \in Conversations |-> IF d = c THEN {} ELSE between[d] \cup {c}]

SendAgain(c) ==
  /\ Cached(c)
  /\ GenerateAt(c, ServerOf(c))
  /\ UNCHANGED chosen

CountedTurns == FoldFunction(+, 0, chosen)

\* The counter goes up with the choice and never down.
SendToLeast(c) ==
  /\ ~Cached(c)
  /\ CountedTurns < MaxTurns
  /\ GenerateAt(c, LeastChosen)
  /\ chosen' = [chosen EXCEPT ![LeastChosen] = @ + 1]

ServerNext == \E c \in Conversations : SendAgain(c) \/ SendToLeast(c)

ServerSpec == ServerInit /\ [][ServerNext]_serverVars

-----------------------------------------------------------------------------
ServerTypeOK ==
  /\ chosen \in [Servers -> Nat]
  /\ Len(recent) <= CacheSize
  /\ \A e \in Range(recent) : e.of \in Conversations /\ e.server \in Servers
  /\ sentTo \in [Conversations -> Servers \cup {0}]
  /\ between \in [Conversations -> SUBSET Conversations]

(* The servers are chosen evenly, whatever conversations come again after  *)
(* they fell out of the cache.                                             *)
ChosenEvenly == \A s, t \in Servers : chosen[s] <= chosen[t] + 1

(* A conversation changes the server only after as many others had a turn  *)
(* as the cache holds.                                                     *)
StickyUnlessCrowded ==
  [][\A c \in Conversations :
       sentTo[c] # 0 /\ sentTo'[c] # sentTo[c] => Cardinality(between[c]) >= CacheSize
    ]_serverVars

-----------------------------------------------------------------------------
(* The inductive invariant behind the theorems of ServiceProofs.           *)

\* What is in the cache is where the last turn went, and who came later had a
\* turn since.
CacheOK ==
  /\ recent \in Seq([of : Conversations, server : Servers])
  /\ \A i, j \in 1 .. Len(recent) : recent[i].of = recent[j].of => i = j
  /\ \A i \in 1 .. Len(recent) :
       /\ sentTo[recent[i].of] = recent[i].server
       /\ \A j \in i + 1 .. Len(recent) : recent[j].of \in between[recent[i].of]

\* What fell out of it was followed by as many as it holds.
CrowdedOut ==
  /\ \A c \in Conversations : IsFiniteSet(between[c])
  /\ \A c \in Conversations :
       sentTo[c] # 0 /\ ~Cached(c) => Cardinality(between[c]) >= CacheSize

ServerIInv == ServerTypeOK /\ ChosenEvenly /\ CacheOK /\ CrowdedOut
=============================================================================
