----------------------------- MODULE TokenLists -----------------------------
(* What the agent loops do to their lists of tokens, masks and rewards.    *)
EXTENDS Integers, Sequences

(* The last n elements: s[-n:], which is all of s when s is shorter.       *)
LastOf(s, n) == SubSeq(s, IF n < Len(s) THEN Len(s) - n + 1 ELSE 1, Len(s))

FirstOf(s, n) == SubSeq(s, 1, IF n < Len(s) THEN n ELSE Len(s))

Zeros(n) == [k \in 1..n |-> 0]
Ones(n) == [k \in 1..n |-> 1]

AddToLast(s, r) == [s EXCEPT ![Len(s)] = @ + r]

(* Padding drops the part of a mask that is longer than its tokens, and    *)
(* fills one that is shorter with the padding token, which is not 0.       *)
Padded(mask, ids) ==
    [k \in 1..Len(ids) |-> IF k <= Len(mask) THEN mask[k] ELSE 2]

(* The sum of a sequence of numbers, its elements at the places in K, and  *)
(* a sequence of sequences put together: recursive functions over the      *)
(* length.                                                                 *)
Sum(s) ==
    LET upTo[n \in 0..Len(s)] == IF n = 0 THEN 0 ELSE upTo[n - 1] + s[n]
    IN  upTo[Len(s)]

Chosen(s, K) ==
    LET upTo[n \in 0..Len(s)] ==
          IF n = 0 THEN <<>>
          ELSE IF n \in K THEN Append(upTo[n - 1], s[n]) ELSE upTo[n - 1]
    IN  upTo[Len(s)]

(* Its elements that are in S.                                             *)
Among(s, S) == Chosen(s, {k \in 1..Len(s) : s[k] \in S})

Joined(ss) ==
    LET upTo[n \in 0..Len(ss)] == IF n = 0 THEN <<>> ELSE upTo[n - 1] \o ss[n]
    IN  upTo[Len(ss)]
=============================================================================
