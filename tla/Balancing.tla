----------------------------- MODULE Balancing ------------------------------
(***************************************************************************)
(* Dividing the rows of a batch into parts of similar length: the          *)
(* differencing method of Karmarkar and Karp.  A state is one part per     *)
(* device or micro-batch, the longest first.  All states begin with one    *)
(* row, or with equal_size with k rows of neighbouring length; the two of  *)
(* the largest spread are merged, longest with shortest, until one is left.*)
(*                                                                         *)
(* Abstracted: a part keeps its rows as a set and the index that was put   *)
(* in first, which is all that comparing two lists of rows looks at.       *)
(***************************************************************************)
EXTENDS Integers, Sequences, FiniteSets, Functions, Partitions

CONSTANT Calls \* [len |-> lengths of the rows, k |-> how many parts, equal |-> equal_size]

ASSUME CallsAssumption ==
  \A c \in Calls :
    /\ c.len \in Seq(Nat) /\ c.k \in 1 .. Len(c.len) /\ c.equal \in BOOLEAN
    /\ c.equal => \E b \in 1 .. Len(c.len) : Len(c.len) = b * c.k

VARIABLES
  call,  \* the arguments
  states \* states_pq

balanceVars == <<call, states>>

K == call.k
Rows == 1 .. Len(call.len)

-----------------------------------------------------------------------------
(* Set: a part.                                                            *)

NoRows == [sum |-> 0, size |-> 0, first |-> 0, rows |-> {}]
Single(r) == [sum |-> call.len[r], size |-> 1, first |-> r, rows |-> {r}]

\* Set.__lt__
Smaller(a, b) ==
  \/ a.sum < b.sum
  \/ a.sum = b.sum /\ a.size < b.size
  \/ a.sum = b.sum /\ a.size = b.size /\ a.first < b.first

\* Set.merge
Merge(a, b) ==
  [sum |-> a.sum + b.sum, size |-> a.size + b.size,
   first |-> IF a.size = 0 THEN b.first ELSE a.first, rows |-> a.rows \cup b.rows]

-----------------------------------------------------------------------------
(* State: one part of each number.                                         *)

Spread(s) == s[1].sum - s[K].sum

\* State.__lt__: the state to take first.
Before(s, t) ==
  \/ Spread(s) > Spread(t)
  \/ Spread(s) = Spread(t) /\ Smaller(t[1], s[1])

Popped(s, heap) == s \in heap /\ \A t \in heap \ {s} : Before(s, t)

Decreasing(s) == \A i, j \in 1 .. K : i < j => ~Smaller(s[i], s[j])

\* [mutant] the sets keep their places.
Unsorted(s) == {s}

\* sorted(sets, reverse=True): the parts of s in decreasing order.
Sorted(s) ==
  {f \in {[i \in 1 .. K |-> s[p[i]]] : p \in Bijection(1 .. K, 1 .. K)} : Decreasing(f)}

\* State.merge, before it sorts.
Merged(s, t) == [i \in 1 .. K |-> Merge(s[i], t[K + 1 - i])]

-----------------------------------------------------------------------------
(* karmarkar_karp.                                                         *)

\* sorted_seqlen_list: by length, then by index.
IsAscending(order) ==
  \A i, j \in Rows : i < j =>
    \/ call.len[order[i]] < call.len[order[j]]
    \/ call.len[order[i]] = call.len[order[j]] /\ order[i] < order[j]

\* The b-th state of k rows, the longest of them first.
Block(order, b) == [i \in 1 .. K |-> Single(order[b * K + K + 1 - i])]
Alone(r) == [i \in 1 .. K |-> IF i = 1 THEN Single(r) ELSE NoRows]

BalanceInit ==
  /\ call \in Calls
  /\ IF call.equal
     THEN \E order \in Bijection(Rows, Rows) :
            /\ IsAscending(order)
            /\ states = {Block(order, b) : b \in {c \in 0 .. Len(call.len) : (c + 1) * K <= Len(call.len)}}
     ELSE states = {Alone(r) : r \in Rows}

MergeFirstTwo ==
  \E s \in states : Popped(s, states) /\
    \E t \in states \ {s} : Popped(t, states \ {s}) /\
      \E sorted \in Sorted(Merged(s, t)) :
        /\ states' = (states \ {s, t}) \cup {sorted}
        /\ UNCHANGED call

BalanceNext == MergeFirstTwo

BalanceSpec == BalanceInit /\ [][BalanceNext]_balanceVars

-----------------------------------------------------------------------------
(* The parts that are returned once one state is left.                     *)
Partition(s) == [i \in 1 .. K |-> s[i].rows]

BalanceTypeOK ==
  /\ call \in Calls
  /\ states \subseteq [1 .. K -> [sum : Nat, size : Nat, first : {0} \cup Rows, rows : SUBSET Rows]]

(* What is returned passes the assertions of get_seqlen_balanced_partitions *)
(* (each row is in one part, no part is empty, equal_size is kept), and no  *)
(* part is longer than another by more than one row, so that a micro-batch  *)
(* exceeds its limit by less than that however the lengths fall.            *)
PartsBalanced ==
  \A s \in states : states = {s} =>
    /\ IsPartition(Partition(s), K, Rows, call.equal)
    /\ \E r \in Rows : Spread(s) <= call.len[r]
=============================================================================
