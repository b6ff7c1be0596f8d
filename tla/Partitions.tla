----------------------------- MODULE Partitions -----------------------------
(* What is asked of a division of rows into parts: the assertions of       *)
(* get_seqlen_balanced_partitions.                                         *)
EXTENDS Naturals, FiniteSets

(* Each row is in one part, no part is empty, and with equal_size all are  *)
(* of one size.                                                            *)
IsPartition(parts, k, rows, equal) ==
  /\ DOMAIN parts = 1 .. k
  /\ \A i \in 1 .. k : parts[i] \subseteq rows /\ parts[i] # {}
  /\ \A r \in rows : \E i \in 1 .. k : r \in parts[i]
  /\ \A i, j \in 1 .. k : i # j => parts[i] \cap parts[j] = {}
  /\ equal => \A i, j \in 1 .. k : Cardinality(parts[i]) = Cardinality(parts[j])

PartitionsOf(rows, k, equal) ==
  {parts \in [1 .. k -> SUBSET rows] : IsPartition(parts, k, rows, equal)}
=============================================================================
