----------------------------- MODULE ListProofs -----------------------------
(***************************************************************************)
(* What the proofs about the loops and the services need to know of        *)
(* numbers, sequences and the operators of TokenLists.                     *)
(*                                                                         *)
(* Induction is stated of sets: the least number of a set is a theorem of  *)
(* WellFoundedInduction that takes no operator.  Recursion is stated of    *)
(* functions, whose step is a function too.                                *)
(***************************************************************************)
EXTENDS TokenLists, SequenceTheorems, FiniteSetTheorems, WellFoundedInduction, TLAPS

-----------------------------------------------------------------------------
(* Induction and recursion.                                                *)

LEMMA LeastOf ==
  ASSUME NEW T \in SUBSET Nat, T # {}
  PROVE  \E x \in T : \A y \in T : x <= y
<1> DEFINE R == OpToRel(<, Nat)
<1>1. IsWellFoundedOn(R, Nat)
  BY NatLessThanWellFounded
<1>2. \A x, y \in Nat : <<y, x>> \in R <=> y < x
  BY DEF OpToRel
<1> HIDE DEF R
<1>3. PICK x \in T : \A y \in T : ~ (<<y, x>> \in R)
  BY <1>1, WFMin
<1>4. ASSUME NEW y \in T PROVE x <= y
  <2>1. x \in Nat /\ y \in Nat /\ ~(y < x)
    BY <1>2, <1>3
  <2> QED BY <2>1
<1> QED BY <1>4

LEMMA SetInduction ==
  ASSUME NEW S, 0 \in S, \A n \in Nat : n \in S => n + 1 \in S
  PROVE  Nat \subseteq S
<1> DEFINE T == Nat \ S
<1> SUFFICES ASSUME T # {} PROVE FALSE
  OBVIOUS
<1>1. PICK x \in T : \A y \in T : x <= y
  <2> T \in SUBSET Nat
    OBVIOUS
  <2> HIDE DEF T
  <2> QED BY LeastOf
<1>2. x \in Nat /\ x # 0 /\ x \notin S
  OBVIOUS
<1>3. x - 1 \in Nat /\ (x - 1) + 1 = x /\ ~(x <= x - 1)
  BY <1>2
<1>4. x - 1 \in S
  BY <1>1, <1>3
<1> QED BY <1>2, <1>3, <1>4

\* f is what step makes of base in n steps.
Follows(f, n, base, step) ==
  /\ f[0] = base
  /\ \A i \in 1 .. n : f[i] = step[i][f[i - 1]]

LEMMA RecursionIs ==
  ASSUME NEW V, NEW base \in V, NEW step \in [Nat -> [V -> V]], NEW n \in Nat
  PROVE  \E f \in [0 .. n -> V] : Follows(f, n, base, step)
<1> DEFINE S == {m \in Nat : \E f \in [0 .. m -> V] : Follows(f, m, base, step)}
<1>1. 0 \in S
  <2> DEFINE f == [i \in 0 .. 0 |-> base]
  <2> f \in [0 .. 0 -> V] /\ Follows(f, 0, base, step)
    BY DEF Follows
  <2> QED OBVIOUS
<1>2. ASSUME NEW m \in Nat, m \in S PROVE m + 1 \in S
  <2>1. PICK f \in [0 .. m -> V] : Follows(f, m, base, step)
    BY <1>2
  <2> DEFINE g == [i \in 0 .. m + 1 |-> IF i <= m THEN f[i] ELSE step[m + 1][f[m]]]
  <2>2. f[m] \in V /\ step[m + 1][f[m]] \in V
    OBVIOUS
  <2>3. g \in [0 .. m + 1 -> V]
    BY <2>2
  <2>4. g[0] = base
    BY <2>1 DEF Follows
  <2>5. ASSUME NEW i \in 1 .. m + 1 PROVE g[i] = step[i][g[i - 1]]
    <3>1. CASE i <= m
      BY <2>1, <3>1 DEF Follows
    <3>2. CASE i = m + 1
      BY <3>2
    <3> QED BY <3>1, <3>2
  <2>6. Follows(g, m + 1, base, step)
    <3> HIDE DEF g
    <3> QED BY <2>4, <2>5 DEF Follows
  <2> HIDE DEF g
  <2> QED BY <2>3, <2>6
<1> HIDE DEF S
<1>3. Nat \subseteq S
  BY <1>1, <1>2, SetInduction
<1> QED BY <1>3 DEF S

LEMMA RecursionUnique ==
  ASSUME NEW base, NEW step, NEW n \in Nat, NEW f, NEW g,
         Follows(f, n, base, step), Follows(g, n, base, step)
  PROVE  \A i \in 0 .. n : f[i] = g[i]
<1> DEFINE S == {i \in Nat : i <= n => f[i] = g[i]}
<1>1. 0 \in S
  BY DEF Follows
<1>2. ASSUME NEW i \in Nat, i \in S PROVE i + 1 \in S
  <2> SUFFICES ASSUME i + 1 <= n PROVE f[i + 1] = g[i + 1]
    OBVIOUS
  <2>1. i + 1 \in 1 .. n /\ f[i] = g[i] /\ (i + 1) - 1 = i
    BY <1>2
  <2> QED BY <2>1 DEF Follows
<1> HIDE DEF S
<1>3. Nat \subseteq S
  BY <1>1, <1>2, SetInduction
<1> QED BY <1>3 DEF S

-----------------------------------------------------------------------------
(* Short sequences, cuts, and sequences put together.                      *)

LEMMA OneIs ==
  ASSUME NEW U, NEW e \in U
  PROVE  /\ <<e>> \in Seq(U) /\ Len(<<e>>) = 1 /\ <<e>>[1] = e
         /\ \A i \in 1 .. Len(<<e>>) : <<e>>[i] = e
OBVIOUS

LEMMA PairIs ==
  ASSUME NEW U, NEW d \in U, NEW e \in U
  PROVE  Append(<<d>>, e) = <<d, e>>
<1>1. PICK s : s \in Seq(U) /\ s = <<d>> /\ Len(s) = 1 /\ s[1] = d
  BY OneIs
<1>2. s \in Seq(U)
  BY <1>1
<1>3. /\ Append(s, e) \in Seq(U) /\ Len(Append(s, e)) = Len(s) + 1
      /\ \A i \in 1 .. Len(s) : Append(s, e)[i] = s[i]
      /\ Append(s, e)[Len(s) + 1] = e
  BY ONLY <1>2, e \in U, AppendProperties
<1>4. PICK a : a = Append(s, e)
  OBVIOUS
<1>5. a \in Seq(U) /\ Len(a) = 2 /\ a[1] = d /\ a[2] = e
  BY <1>1, <1>3, <1>4
<1>6. PICK b : b = <<d, e>>
  OBVIOUS
<1>7. b \in Seq(U) /\ Len(b) = 2 /\ b[1] = d /\ b[2] = e
  BY <1>6
<1>8. \A i \in 1 .. 2 : a[i] = b[i]
  <2>1. \A i \in 1 .. 2 : i = 1 \/ i = 2
    OBVIOUS
  <2> QED BY <1>5, <1>7, <2>1
<1>9. a = b
  BY <1>5, <1>7, <1>8, SeqEqual
<1> QED BY <1>1, <1>4, <1>6, <1>9

LEMMA TripleIs ==
  ASSUME NEW U, NEW c \in U, NEW d \in U, NEW e \in U
  PROVE  Append(<<c, d>>, e) = <<c, d, e>>
<1>1. PICK s : s = <<c, d>>
  OBVIOUS
<1>2. s \in Seq(U) /\ Len(s) = 2 /\ s[1] = c /\ s[2] = d
  BY <1>1
<1>3. PICK a : a = Append(s, e)
  OBVIOUS
<1>4. a \in Seq(U) /\ Len(a) = 3 /\ a[1] = c /\ a[2] = d /\ a[3] = e
  <2>1. s \in Seq(U)
    BY <1>2
  <2>2. /\ Append(s, e) \in Seq(U) /\ Len(Append(s, e)) = Len(s) + 1
        /\ \A i \in 1 .. Len(s) : Append(s, e)[i] = s[i]
        /\ Append(s, e)[Len(s) + 1] = e
    BY ONLY <2>1, e \in U, AppendProperties
  <2> QED BY ONLY <1>2, <1>3, <2>2
<1>5. PICK b : b = <<c, d, e>>
  OBVIOUS
<1>6. b \in Seq(U) /\ Len(b) = 3 /\ b[1] = c /\ b[2] = d /\ b[3] = e
  BY <1>5
<1>7. \A i \in 1 .. 3 : a[i] = b[i]
  <2>1. \A i \in 1 .. 3 : i = 1 \/ i = 2 \/ i = 3
    OBVIOUS
  <2> QED BY <1>4, <1>6, <2>1
<1>8. a = b
  BY <1>4, <1>6, <1>7, SeqEqual
<1> QED BY <1>1, <1>3, <1>5, <1>8

LEMMA AppendIs ==
  ASSUME NEW S, NEW s \in Seq(S), NEW t \in Seq(S)
  PROVE  /\ s \o t \in Seq(S)
         /\ Len(s \o t) = Len(s) + Len(t)
         /\ Len(s) \in Nat /\ Len(t) \in Nat
         /\ \A i \in 1..Len(s) + Len(t) :
               (s \o t)[i] = IF i <= Len(s) THEN s[i] ELSE t[i - Len(s)]
BY ConcatProperties, LenProperties

LEMMA FirstAre ==
  ASSUME NEW S, NEW s \in Seq(S), NEW n \in Nat
  PROVE  /\ FirstOf(s, n) \in Seq(S)
         /\ Len(FirstOf(s, n)) = IF n < Len(s) THEN n ELSE Len(s)
         /\ \A k \in 1..Len(FirstOf(s, n)) : FirstOf(s, n)[k] = s[k]
<1> DEFINE m == IF n < Len(s) THEN n ELSE Len(s)
<1>1. /\ m \in Nat /\ m <= Len(s)
      /\ \A i \in 1..m : s[i] \in S
  BY LenProperties, ElementOfSeq
<1>2. /\ SubSeq(s, 1, m) \in Seq(S)
      /\ Len(SubSeq(s, 1, m)) = IF 1 <= m THEN m - 1 + 1 ELSE 0
      /\ \A i \in 1..m - 1 + 1 : SubSeq(s, 1, m)[i] = s[1 + i - 1]
  <2> HIDE DEF m
  <2> QED BY <1>1, SubSeqProperties
<1>3. FirstOf(s, n) = SubSeq(s, 1, m)
  BY DEF FirstOf
<1> QED BY <1>1, <1>2, <1>3

LEMMA LastAre ==
  ASSUME NEW S, NEW s \in Seq(S), NEW n \in Int
  PROVE  /\ LastOf(s, n) \in Seq(S)
         /\ n \in 0..Len(s) =>
              /\ Len(LastOf(s, n)) = n
              /\ \A k \in 1..n : LastOf(s, n)[k] = s[Len(s) - n + k]
<1> DEFINE from == IF n < Len(s) THEN Len(s) - n + 1 ELSE 1
<1>1. /\ Len(s) \in Nat /\ from \in Nat \ {0}
      /\ \A i \in from..Len(s) : s[i] \in S
  BY LenProperties, ElementOfSeq
<1>2. /\ SubSeq(s, from, Len(s)) \in Seq(S)
      /\ Len(SubSeq(s, from, Len(s)))
           = IF from <= Len(s) THEN Len(s) - from + 1 ELSE 0
      /\ \A i \in 1..Len(s) - from + 1 :
            SubSeq(s, from, Len(s))[i] = s[from + i - 1]
  <2> HIDE DEF from
  <2> QED BY <1>1, SubSeqProperties
<1>3. LastOf(s, n) = SubSeq(s, from, Len(s))
  BY DEF LastOf
<1> QED BY <1>1, <1>2, <1>3

LEMMA AddedToLast ==
  ASSUME NEW s \in Seq(Int), NEW r \in Int
  PROVE  AddToLast(s, r) \in Seq(Int) /\ Len(AddToLast(s, r)) = Len(s)
<1>1. Len(s) \in Nat
  BY LenProperties
<1>2. CASE Len(s) = 0
  <2>1. s = <<>>
    BY <1>2, EmptySeq
  <2>2. DOMAIN s = {}
    BY <1>2, LenProperties
  <2>3. AddToLast(s, r) = s
    BY <2>1, <2>2 DEF AddToLast
  <2> QED BY <2>3
<1>3. CASE Len(s) > 0
  <2>1. Len(s) \in 1..Len(s) /\ s[Len(s)] + r \in Int
    BY <1>1, <1>3, ElementOfSeq
  <2>2. [s EXCEPT ![Len(s)] = s[Len(s)] + r] \in Seq(Int)
    BY <2>1, ExceptSeq
  <2>3. Len([s EXCEPT ![Len(s)] = s[Len(s)] + r]) = Len(s)
    BY <2>1, ExceptSeq
  <2> QED BY <2>2, <2>3 DEF AddToLast
<1> QED BY <1>1, <1>2, <1>3

\* c is what is left of s without its first k elements: n elements of U.
TailFits(c, s, n, k, U) ==
  /\ c \in Seq(U) /\ Len(c) = n
  /\ \A i \in 1 .. n : c[i] = s[i + k]

LEMMA LastOfIs ==
  ASSUME NEW U, NEW s \in Seq(U), NEW n \in Nat, NEW k \in Nat, Len(s) = n + k
  PROVE  TailFits(LastOf(s, n), s, n, k, U)
<1>1. LastOf(s, n) = SubSeq(s, k + 1, n + k)
  <2>1. (IF n < Len(s) THEN Len(s) - n + 1 ELSE 1) = k + 1
    BY ONLY n \in Nat, k \in Nat, Len(s) = n + k
  <2> QED BY <2>1 DEF LastOf
<1>2. \A i \in k + 1 .. n + k : s[i] \in U
  <2>1. \A i \in 1 .. Len(s) : s[i] \in U
    BY ElementOfSeq
  <2>2. \A i \in k + 1 .. n + k : i \in 1 .. Len(s)
    OBVIOUS
  <2> QED BY <2>1, <2>2
<1>3. k + 1 \in Int /\ n + k \in Int
  OBVIOUS
<1>4. /\ SubSeq(s, k + 1, n + k) \in Seq(U)
      /\ Len(SubSeq(s, k + 1, n + k)) = IF k + 1 <= n + k THEN (n + k) - (k + 1) + 1 ELSE 0
      /\ \A i \in 1 .. (n + k) - (k + 1) + 1 : SubSeq(s, k + 1, n + k)[i] = s[(k + 1) + i - 1]
  BY <1>2, <1>3, SubSeqProperties
<1>5. Len(SubSeq(s, k + 1, n + k)) = n
  BY <1>4
<1>6. \A i \in 1 .. n : i \in 1 .. (n + k) - (k + 1) + 1 /\ (k + 1) + i - 1 = i + k
  OBVIOUS
<1> QED BY <1>1, <1>4, <1>5, <1>6 DEF TailFits

-----------------------------------------------------------------------------
(* Sums.                                                                   *)

\* The sums of the first elements.
Sums(f, s) == f[0] = 0 /\ \A i \in 1 .. Len(s) : f[i] = f[i - 1] + s[i]

LEMMA SumIs ==
  ASSUME NEW s \in Seq(Int)
  PROVE  \E f \in [0 .. Len(s) -> Int] : Sums(f, s) /\ Sum(s) = f[Len(s)]
<1> DEFINE n == Len(s)
           step == [i \in Nat |-> [v \in Int |-> IF i \in 1 .. n THEN v + s[i] ELSE v]]
           Def(u) == [i \in 0 .. n |-> IF i = 0 THEN 0 ELSE u[i - 1] + s[i]]
           up == CHOOSE u : u = Def(u)
<1>1. n \in Nat /\ \A i \in 1 .. n : s[i] \in Int
  BY LenProperties, ElementOfSeq
<1>2. step \in [Nat -> [Int -> Int]]
  BY <1>1
<1>3. \A f \in [0 .. n -> Int] : Follows(f, n, 0, step) => Sums(f, s) /\ f = Def(f)
  <2> SUFFICES ASSUME NEW f \in [0 .. n -> Int], Follows(f, n, 0, step)
               PROVE  Sums(f, s) /\ f = Def(f)
    OBVIOUS
  <2>1. \A i \in 1 .. n : f[i - 1] \in Int /\ step[i][f[i - 1]] = f[i - 1] + s[i]
    <3> SUFFICES ASSUME NEW i \in 1 .. n
                 PROVE  f[i - 1] \in Int /\ step[i][f[i - 1]] = f[i - 1] + s[i]
      OBVIOUS
    <3>1. f[i - 1] \in Int
      <4>1. i - 1 \in 0 .. n
        BY <1>1
      <4> HIDE DEF n
      <4> QED BY <4>1
    <3>2. i \in Nat
      BY <1>1
    <3> HIDE DEF n
    <3> QED BY <3>1, <3>2
  <2>2. f[0] = 0 /\ \A i \in 1 .. n : f[i] = f[i - 1] + s[i]
    BY <2>1 DEF Follows
  <2>3. \A i \in 0 .. n : f[i] = IF i = 0 THEN 0 ELSE f[i - 1] + s[i]
    BY <1>1, <2>2
  <2> QED BY <2>2, <2>3 DEF Sums
<1>4. PICK f \in [0 .. n -> Int] : Follows(f, n, 0, step)
  <2>1. 0 \in Int
    OBVIOUS
  <2> HIDE DEF step, n
  <2> QED BY <1>1, <1>2, <2>1, RecursionIs
<1>5. up = Def(up)
  <2>1. f = Def(f)
    BY <1>3, <1>4
  <2> HIDE DEF Def
  <2> QED BY <2>1
<1>6. up[0] = 0 /\ \A i \in 1 .. n : up[i] = up[i - 1] + s[i]
  <2> DEFINE d == Def(up)
  <2>1. d[0] = 0 /\ \A i \in 1 .. n : d[i] = up[i - 1] + s[i]
    BY <1>1
  <2> HIDE DEF d, up
  <2>2. d = up
    BY <1>5 DEF d
  <2> QED BY <2>1, <2>2
<1>7. \A i \in 0 .. n : up[i] = f[i]
  <2> DEFINE S == {i \in Nat : i <= n => up[i] = f[i]}
  <2>1. f[0] = 0 /\ \A i \in 1 .. n : f[i] = f[i - 1] + s[i]
    BY <1>3, <1>4 DEF Sums
  <2> HIDE DEF up
  <2>2. 0 \in S
    BY <1>6, <2>1
  <2>3. ASSUME NEW i \in Nat, i \in S PROVE i + 1 \in S
    <3> SUFFICES ASSUME i + 1 <= n PROVE up[i + 1] = f[i + 1]
      OBVIOUS
    <3>1. i + 1 \in 1 .. n /\ up[i] = f[i] /\ (i + 1) - 1 = i
      BY <1>1, <2>3
    <3> QED BY <1>6, <2>1, <3>1
  <2> HIDE DEF S
  <2>4. Nat \subseteq S
    BY <2>2, <2>3, SetInduction
  <2> QED BY <1>1, <2>4 DEF S
<1>8. Sum(s) = up[n]
  BY DEF Sum
<1>9. Sums(f, s) /\ Sum(s) = f[n]
  <2>1. up[n] = f[n]
    <3> HIDE DEF up, n
    <3> QED BY <1>1, <1>7
  <2> QED BY <1>3, <1>4, <1>8, <2>1
<1> QED BY <1>9

LEMMA SumOf ==
  ASSUME NEW s \in Seq(Int), NEW g, Sums(g, s)
  PROVE  Sum(s) = g[Len(s)]
<1>1. PICK f \in [0 .. Len(s) -> Int] : Sums(f, s) /\ Sum(s) = f[Len(s)]
  BY SumIs
<1>2. Len(s) \in Nat
  BY LenProperties
<1> DEFINE S == {i \in Nat : i <= Len(s) => g[i] = f[i]}
<1>3. 0 \in S
  BY <1>1 DEF Sums
<1>4. ASSUME NEW i \in Nat, i \in S PROVE i + 1 \in S
  <2> SUFFICES ASSUME i + 1 <= Len(s) PROVE g[i + 1] = f[i + 1]
    OBVIOUS
  <2>1. i + 1 \in 1 .. Len(s) /\ g[i] = f[i] /\ (i + 1) - 1 = i
    BY <1>2, <1>4
  <2> QED BY <1>1, <2>1 DEF Sums
<1> HIDE DEF S
<1>5. Nat \subseteq S
  BY <1>3, <1>4, SetInduction
<1> QED BY <1>1, <1>2, <1>5 DEF S

LEMMA SumJoined ==
  ASSUME NEW s \in Seq(Int), NEW t \in Seq(Int)
  PROVE  Sum(s \o t) = Sum(s) + Sum(t) /\ Sum(s) \in Int
<1> DEFINE m == Len(s)  n == Len(t)
<1>1. m \in Nat /\ n \in Nat
  BY LenProperties
<1>2. PICK f \in [0 .. m -> Int] : Sums(f, s) /\ Sum(s) = f[m]
  BY SumIs
<1>3. PICK g \in [0 .. n -> Int] : Sums(g, t) /\ Sum(t) = g[n]
  BY SumIs
<1> DEFINE h == [i \in 0 .. m + n |-> IF i <= m THEN f[i] ELSE f[m] + g[i - m]]
<1>4. /\ s \o t \in Seq(Int) /\ Len(s \o t) = m + n
      /\ \A i \in 1 .. m + n : (s \o t)[i] = IF i <= m THEN s[i] ELSE t[i - m]
  BY ConcatProperties
<1>5. f[m] \in Int /\ \A i \in 0 .. n : g[i] \in Int
  <2> HIDE DEF m, n
  <2> QED BY <1>1
<1>6. \A i \in 1 .. m : f[i] = f[i - 1] + s[i]
  BY <1>2 DEF Sums
<1>7. \A i \in 1 .. n : g[i] = g[i - 1] + t[i]
  BY <1>3 DEF Sums
<1>8. h[0] = 0
  BY <1>1, <1>2 DEF Sums
<1>9. ASSUME NEW i \in 1 .. m + n PROVE h[i] = h[i - 1] + (s \o t)[i]
  <2>1. CASE i <= m
    <3>1. i \in 1 .. m /\ i - 1 <= m /\ i \in 0 .. m + n /\ i - 1 \in 0 .. m + n
      BY <1>1, <2>1
    <3>2. h[i] = f[i] /\ h[i - 1] = f[i - 1] /\ (s \o t)[i] = s[i]
      BY <1>4, <2>1, <3>1
    <3> QED BY <1>6, <3>1, <3>2
  <2>2. CASE i = m + 1
    <3>1. h[i] = f[m] + g[1] /\ h[i - 1] = f[m] /\ (s \o t)[i] = t[1] /\ 1 \in 1 .. n
      BY <1>1, <1>4, <2>2
    <3>2. g[1] = g[0] + t[1] /\ g[0] = 0 /\ g[1] \in Int
      BY <1>3, <1>5, <1>7, <3>1 DEF Sums
    <3>3. t[1] \in Int
      BY <3>1, ElementOfSeq
    <3> QED BY <1>5, <3>1, <3>2, <3>3
  <2>3. CASE i > m + 1
    <3> DEFINE j == i - m
    <3>1. j \in 1 .. n /\ j - 1 \in 0 .. n /\ ~(i <= m) /\ ~(i - 1 <= m) /\ (i - 1) - m = j - 1
          /\ i \in 0 .. m + n /\ i - 1 \in 0 .. m + n
      BY <1>1, <2>3
    <3>2. h[i] = f[m] + g[j] /\ h[i - 1] = f[m] + g[j - 1] /\ (s \o t)[i] = t[j]
      BY <1>4, <3>1
    <3>3. g[j] = g[j - 1] + t[j] /\ g[j - 1] \in Int /\ t[j] \in Int
      BY <1>5, <1>7, <3>1, ElementOfSeq
    <3> HIDE DEF j, h
    <3> QED BY <1>5, <3>2, <3>3
  <2> QED BY <1>1, <2>1, <2>2, <2>3
<1>10. Sum(s \o t) = h[m + n]
  <2>1. Sums(h, s \o t)
    <3> HIDE DEF h, m, n
    <3> QED BY <1>4, <1>8, <1>9 DEF Sums
  <2> HIDE DEF h, m, n
  <2> QED BY <1>4, <2>1, SumOf
<1>11. h[m + n] = f[m] + g[n]
  <2>1. CASE n = 0
    <3>1. g[n] = 0
      BY <1>3, <2>1 DEF Sums
    <3> QED BY <1>1, <1>5, <2>1, <3>1
  <2>2. CASE n > 0
    BY <1>1, <2>2
  <2> QED BY <1>1, <2>1, <2>2
<1> QED BY <1>2, <1>3, <1>5, <1>10, <1>11

LEMMA SumEmpty == Sum(<<>>) = 0
<1> DEFINE f == [i \in {0} |-> 0]
<1>1. Sums(f, <<>>) /\ f[0] = 0 /\ <<>> \in Seq(Int) /\ Len(<<>>) = 0
  BY EmptySeq DEF Sums
<1> HIDE DEF f
<1> QED BY <1>1, SumOf

LEMMA SumOne == ASSUME NEW r \in Int PROVE Sum(<<r>>) = r
<1> DEFINE f == [i \in 0 .. 1 |-> IF i = 0 THEN 0 ELSE r]
<1>1. <<r>> \in Seq(Int) /\ Len(<<r>>) = 1 /\ <<r>>[1] = r
  OBVIOUS
<1>2. f[0] = 0 /\ f[1] = f[0] + <<r>>[1] /\ f[1] = r
  OBVIOUS
<1> HIDE DEF f
<1>3. Sums(f, <<r>>)
  BY <1>1, <1>2 DEF Sums
<1> QED BY <1>1, <1>2, <1>3, SumOf

LEMMA SumZeros == ASSUME NEW n \in Nat PROVE Sum(Zeros(n)) = 0
<1> DEFINE f == [i \in 0 .. n |-> 0]
<1>1. Zeros(n) \in Seq(Int) /\ Len(Zeros(n)) = n /\ \A i \in 1 .. n : Zeros(n)[i] = 0
  BY DEF Zeros
<1>2. f[0] = 0 /\ f[n] = 0 /\ \A i \in 1 .. n : f[i] = f[i - 1] + 0
  OBVIOUS
<1> HIDE DEF f
<1>3. Sums(f, Zeros(n))
  BY <1>1, <1>2 DEF Sums
<1> QED BY <1>1, <1>2, <1>3, SumOf

-----------------------------------------------------------------------------
(* The elements of a sequence at some of its places.                       *)

\* Those of the first elements.
Picks(f, s, K) ==
  /\ f[0] = <<>>
  /\ \A i \in 1 .. Len(s) :
       f[i] = IF i \in K THEN Append(f[i - 1], s[i]) ELSE f[i - 1]

LEMMA ChosenIs ==
  ASSUME NEW U, NEW s \in Seq(U), NEW K
  PROVE  \E f \in [0 .. Len(s) -> Seq(U)] : Picks(f, s, K) /\ Chosen(s, K) = f[Len(s)]
<1> DEFINE n == Len(s)
           step == [i \in Nat |-> [v \in Seq(U) |->
                      IF i \in 1 .. n /\ i \in K THEN Append(v, s[i]) ELSE v]]
           Def(u) == [i \in 0 .. n |->
                        IF i = 0 THEN <<>>
                        ELSE IF i \in K THEN Append(u[i - 1], s[i]) ELSE u[i - 1]]
           up == CHOOSE u : u = Def(u)
<1>1. n \in Nat /\ \A i \in 1 .. n : s[i] \in U
  BY LenProperties, ElementOfSeq
<1>2. step \in [Nat -> [Seq(U) -> Seq(U)]]
  <2> SUFFICES ASSUME NEW i \in Nat, NEW v \in Seq(U)
               PROVE  (IF i \in 1 .. n /\ i \in K THEN Append(v, s[i]) ELSE v) \in Seq(U)
    OBVIOUS
  <2>1. CASE i \in 1 .. n
    <3>1. s[i] \in U
      BY <1>1, <2>1
    <3>2. Append(v, s[i]) \in Seq(U)
      BY <3>1, AppendProperties
    <3> QED BY <3>2
  <2> QED BY <2>1
<1>3. \A f \in [0 .. n -> Seq(U)] : Follows(f, n, <<>>, step) => Picks(f, s, K) /\ f = Def(f)
  <2> SUFFICES ASSUME NEW f \in [0 .. n -> Seq(U)], Follows(f, n, <<>>, step)
               PROVE  Picks(f, s, K) /\ f = Def(f)
    OBVIOUS
  <2>1. \A i \in 1 .. n :
          step[i][f[i - 1]] = IF i \in K THEN Append(f[i - 1], s[i]) ELSE f[i - 1]
    <3> SUFFICES ASSUME NEW i \in 1 .. n
                 PROVE  step[i][f[i - 1]]
                          = IF i \in K THEN Append(f[i - 1], s[i]) ELSE f[i - 1]
      OBVIOUS
    <3>1. f[i - 1] \in Seq(U)
      <4>1. i - 1 \in 0 .. n
        BY <1>1
      <4> HIDE DEF n
      <4> QED BY <4>1
    <3>2. i \in Nat
      BY <1>1
    <3> HIDE DEF n
    <3> QED BY <3>1, <3>2
  <2>2. f[0] = <<>> /\ \A i \in 1 .. n :
          f[i] = IF i \in K THEN Append(f[i - 1], s[i]) ELSE f[i - 1]
    <3> HIDE DEF step, n
    <3> QED BY <2>1 DEF Follows
  <2>3. f = Def(f)
    <3>1. \A i \in 0 .. n : f[i] =
            IF i = 0 THEN <<>>
            ELSE IF i \in K THEN Append(f[i - 1], s[i]) ELSE f[i - 1]
      <4> TAKE i \in 0 .. n
      <4>1. i = 0 \/ (i # 0 /\ i \in 1 .. n)
        BY <1>1
      <4> HIDE DEF n, step
      <4>2. CASE i = 0
        BY <2>2, <4>2
      <4>3. CASE i # 0 /\ i \in 1 .. n
        BY <2>2, <4>3
      <4> QED BY <4>1, <4>2, <4>3
    <3> HIDE DEF n
    <3> QED BY <3>1
  <2> QED BY <2>2, <2>3 DEF Picks
<1>4. PICK f \in [0 .. n -> Seq(U)] : Follows(f, n, <<>>, step)
  <2>1. <<>> \in Seq(U)
    BY EmptySeq
  <2> HIDE DEF step, n
  <2> QED BY <1>1, <1>2, <2>1, RecursionIs
<1>5. up = Def(up)
  <2>1. f = Def(f)
    BY <1>3, <1>4
  <2> HIDE DEF Def
  <2> QED BY <2>1
<1>6. Picks(up, s, K)
  <2> DEFINE d == Def(up)
  <2>1. d[0] = <<>> /\ \A i \in 1 .. n :
          d[i] = IF i \in K THEN Append(up[i - 1], s[i]) ELSE up[i - 1]
    BY <1>1
  <2> HIDE DEF d, up
  <2>2. d = up
    BY <1>5 DEF d
  <2> QED BY <2>1, <2>2 DEF Picks
<1>7. \A i \in 0 .. n : up[i] = f[i]
  <2> DEFINE T == {i \in Nat : i <= n => up[i] = f[i]}
  <2>1. Picks(f, s, K)
    BY <1>3, <1>4
  <2> HIDE DEF up
  <2>2. 0 \in T
    BY <1>6, <2>1 DEF Picks
  <2>3. ASSUME NEW i \in Nat, i \in T PROVE i + 1 \in T
    <3> SUFFICES ASSUME i + 1 <= n PROVE up[i + 1] = f[i + 1]
      OBVIOUS
    <3>1. i + 1 \in 1 .. n /\ up[i] = f[i] /\ (i + 1) - 1 = i
      BY <1>1, <2>3
    <3> QED BY <1>6, <2>1, <3>1 DEF Picks
  <2> HIDE DEF T
  <2>4. Nat \subseteq T
    BY <2>2, <2>3, SetInduction
  <2> QED BY <1>1, <2>4 DEF T
<1>8. Chosen(s, K) = up[n]
  BY DEF Chosen
<1>9. Picks(f, s, K) /\ Chosen(s, K) = f[n]
  <2>1. up[n] = f[n]
    <3> HIDE DEF up, n
    <3> QED BY <1>1, <1>7
  <2> QED BY <1>3, <1>4, <1>8, <2>1
<1> QED BY <1>9

LEMMA ChosenOf ==
  ASSUME NEW U, NEW s \in Seq(U), NEW K, NEW g, Picks(g, s, K)
  PROVE  Chosen(s, K) = g[Len(s)]
<1>1. PICK f \in [0 .. Len(s) -> Seq(U)] : Picks(f, s, K) /\ Chosen(s, K) = f[Len(s)]
  BY ChosenIs
<1>2. Len(s) \in Nat
  BY LenProperties
<1> DEFINE T == {i \in Nat : i <= Len(s) => g[i] = f[i]}
<1>3. 0 \in T
  BY <1>1 DEF Picks
<1>4. ASSUME NEW i \in Nat, i \in T PROVE i + 1 \in T
  <2> SUFFICES ASSUME i + 1 <= Len(s) PROVE g[i + 1] = f[i + 1]
    OBVIOUS
  <2>1. i + 1 \in 1 .. Len(s) /\ g[i] = f[i] /\ (i + 1) - 1 = i
    BY <1>2, <1>4
  <2> QED BY <1>1, <2>1 DEF Picks
<1> HIDE DEF T
<1>5. Nat \subseteq T
  BY <1>3, <1>4, SetInduction
<1> QED BY <1>1, <1>2, <1>5 DEF T

LEMMA ChosenType ==
  ASSUME NEW U, NEW s \in Seq(U), NEW K
  PROVE  Chosen(s, K) \in Seq(U)
<1>1. PICK f \in [0 .. Len(s) -> Seq(U)] : Picks(f, s, K) /\ Chosen(s, K) = f[Len(s)]
  BY ChosenIs
<1>2. Len(s) \in 0 .. Len(s)
  BY LenProperties
<1> QED BY <1>1, <1>2

LEMMA ChosenJoined ==
  ASSUME NEW U, NEW s \in Seq(U), NEW t \in Seq(U), NEW K
  PROVE  Chosen(s \o t, K) = Chosen(s, K) \o Chosen(t, {j \in 1 .. Len(t) : j + Len(s) \in K})
<1> DEFINE m == Len(s)  n == Len(t)
           L == {j \in 1 .. Len(t) : j + Len(s) \in K}
<1>1. m \in Nat /\ n \in Nat
  BY LenProperties
<1>2. PICK f \in [0 .. m -> Seq(U)] : Picks(f, s, K) /\ Chosen(s, K) = f[m]
  BY ChosenIs
<1>3. PICK g \in [0 .. n -> Seq(U)] : Picks(g, t, L) /\ Chosen(t, L) = g[n]
  BY ChosenIs
<1> DEFINE h == [i \in 0 .. m + n |-> IF i <= m THEN f[i] ELSE f[m] \o g[i - m]]
<1>h. \A i \in 0 .. m + n : ~(i <= m) => h[i] = f[m] \o g[i - m]
  OBVIOUS
<1>4. /\ s \o t \in Seq(U) /\ Len(s \o t) = m + n
      /\ \A i \in 1 .. m + n : (s \o t)[i] = IF i <= m THEN s[i] ELSE t[i - m]
  BY ConcatProperties
<1>5. f[m] \in Seq(U) /\ \A i \in 0 .. n : g[i] \in Seq(U)
  <2> HIDE DEF m, n
  <2> QED BY <1>1
<1>6. \A i \in 1 .. m : f[i] = IF i \in K THEN Append(f[i - 1], s[i]) ELSE f[i - 1]
  BY <1>2 DEF Picks
<1>7. g[0] = <<>> /\ \A i \in 1 .. n : g[i] = IF i \in L THEN Append(g[i - 1], t[i]) ELSE g[i - 1]
  BY <1>3 DEF Picks
<1>8. h[0] = <<>>
  BY <1>1, <1>2 DEF Picks
<1>9. f[m] \o <<>> = f[m]
  BY <1>5, ConcatEmptySeq
<1>10. \A a \in Seq(U), b \in Seq(U), e \in U : a \o Append(b, e) = Append(a \o b, e)
  <2> SUFFICES ASSUME NEW a \in Seq(U), NEW b \in Seq(U), NEW e \in U
               PROVE  a \o Append(b, e) = Append(a \o b, e)
    OBVIOUS
  <2>1. <<e>> \in Seq(U) /\ a \o b \in Seq(U)
    BY ConcatProperties
  <2>2. Append(b, e) = b \o <<e>> /\ Append(a \o b, e) = (a \o b) \o <<e>>
    BY <2>1, AppendIsConcat
  <2>3. a \o (b \o <<e>>) = (a \o b) \o <<e>>
    BY <2>1, ConcatAssociative
  <2> QED BY <2>2, <2>3
<1>11. ASSUME NEW i \in 1 .. m + n
       PROVE  h[i] = IF i \in K THEN Append(h[i - 1], (s \o t)[i]) ELSE h[i - 1]
  <2>1. CASE i <= m
    <3>1. i \in 1 .. m /\ i - 1 <= m /\ i \in 0 .. m + n /\ i - 1 \in 0 .. m + n
      BY <1>1, <2>1
    <3>2. h[i] = f[i] /\ h[i - 1] = f[i - 1] /\ (s \o t)[i] = s[i]
      BY <1>4, <2>1, <3>1
    <3> QED BY <1>6, <3>1, <3>2
  <2>2. CASE i > m
    <3> DEFINE j == i - m
    <3>1. /\ j \in 1 .. n /\ j - 1 \in 0 .. n /\ j \in 0 .. n /\ ~(i <= m) /\ (i - 1) - m = j - 1
          /\ i \in 0 .. m + n /\ i - 1 \in 0 .. m + n
      BY <1>1, <2>2
    <3>2. h[i] = f[m] \o g[j] /\ (s \o t)[i] = t[j]
      BY <1>4, <3>1
    <3>3. h[i - 1] = f[m] \o g[j - 1]
      <4>1. CASE j = 1
        <5>1. i - 1 = m /\ j - 1 = 0
          BY <1>1, <3>1, <4>1
        <5>2. h[i - 1] = f[m]
          BY <3>1, <5>1
        <5> QED BY <1>7, <1>9, <5>1, <5>2
      <4>2. CASE j > 1
        <5>1. ~(i - 1 <= m) /\ i - 1 \in 0 .. m + n /\ (i - 1) - m = j - 1
          BY <1>1, <3>1, <4>2
        <5> HIDE DEF j, h, m, n
        <5>2. PICK k : k = i - 1
          OBVIOUS
        <5>3. k \in 0 .. m + n /\ ~(k <= m) /\ k - m = j - 1
          BY ONLY <5>1, <5>2
        <5>4. h[k] = f[m] \o g[k - m]
          BY ONLY <5>3, <1>h
        <5> QED BY ONLY <5>2, <5>3, <5>4, Zenon
      <4>3. j = 1 \/ j > 1
        BY <3>1
      <4> HIDE DEF j, h, m, n
      <4> QED BY <4>1, <4>2, <4>3, Zenon
    <3>4. g[j] = IF j \in L THEN Append(g[j - 1], t[j]) ELSE g[j - 1]
      BY <1>7, <3>1
    <3>7. j \in L <=> i \in K
      <4>1. j + m = i
        BY <1>1, <3>1
      <4> QED BY <3>1, <4>1
    <3>5. g[j - 1] \in Seq(U) /\ t[j] \in U
      BY <1>5, <3>1, ElementOfSeq
    <3>6. f[m] \o Append(g[j - 1], t[j]) = Append(f[m] \o g[j - 1], t[j])
      BY <1>5, <1>10, <3>5
    <3> HIDE DEF j, h, m, L
    <3> QED BY <3>2, <3>3, <3>4, <3>6, <3>7
  <2> QED BY <1>1, <2>1, <2>2
<1>12. Chosen(s \o t, K) = h[m + n]
  <2>1. Picks(h, s \o t, K)
    <3> HIDE DEF h, m, n
    <3> QED BY <1>4, <1>8, <1>11 DEF Picks
  <2> HIDE DEF h, m, n
  <2> QED BY <1>4, <2>1, ChosenOf
<1>13. h[m + n] = f[m] \o g[n]
  <2>1. CASE n = 0
    <3>1. h[m + n] = f[m] /\ g[n] = <<>>
      BY <1>1, <1>7, <2>1
    <3> QED BY <1>9, <3>1
  <2>2. CASE n > 0
    BY <1>1, <2>2
  <2> QED BY <1>1, <2>1, <2>2
<1> QED BY <1>2, <1>3, <1>12, <1>13

LEMMA ChosenEmpty == ASSUME NEW K PROVE Chosen(<<>>, K) = <<>>
<1> DEFINE f == [i \in {0} |-> <<>>]
<1>1. Picks(f, <<>>, K) /\ f[0] = <<>> /\ <<>> \in Seq({}) /\ Len(<<>>) = 0
  BY EmptySeq DEF Picks
<1> HIDE DEF f
<1> QED BY <1>1, ChosenOf

LEMMA ChosenAll ==
  ASSUME NEW U, NEW s \in Seq(U), NEW K, \A i \in 1 .. Len(s) : i \in K
  PROVE  Chosen(s, K) = s
<1> DEFINE f == [i \in 0 .. Len(s) |-> SubSeq(s, 1, i)]
<1>1. Len(s) \in Nat
  BY LenProperties
<1>2. f[0] = <<>>
  <2>1. SubSeq(s, 1, 0) = <<>>
    BY SubSeqEmpty
  <2> QED BY <1>1, <2>1
<1>3. ASSUME NEW i \in 1 .. Len(s) PROVE f[i] = Append(f[i - 1], s[i])
  <2>1. i - 1 \in 0 .. Len(s) /\ i \in 0 .. Len(s)
    BY <1>1
  <2>2. \A j \in 1 .. i : s[j] \in U
    BY <1>1, ElementOfSeq
  <2>3. SubSeq(s, 1, i) = SubSeq(s, 1, i - 1) \o <<s[i]>>
    BY <1>1, SubSeqRecursiveSecond
  <2>4. SubSeq(s, 1, i - 1) \in Seq(U)
    <3>1. \A j \in 1 .. i - 1 : s[j] \in U
      BY <1>1, <2>2
    <3> QED BY <2>1, <3>1, SubSeqProperties
  <2>5. Append(SubSeq(s, 1, i - 1), s[i]) = SubSeq(s, 1, i - 1) \o <<s[i]>>
    BY <2>2, <2>4, AppendIsConcat
  <2> QED BY <2>1, <2>3, <2>5
<1>4. f[Len(s)] = s
  <2>1. SubSeq(s, 1, Len(s)) = s
    BY SubSeqFull
  <2> QED BY <1>1, <2>1
<1> HIDE DEF f
<1>5. Picks(f, s, K)
  BY <1>2, <1>3 DEF Picks
<1> QED BY <1>4, <1>5, ChosenOf

LEMMA ChosenNone ==
  ASSUME NEW U, NEW s \in Seq(U), NEW K, \A i \in 1 .. Len(s) : i \notin K
  PROVE  Chosen(s, K) = <<>>
<1> DEFINE f == [i \in 0 .. Len(s) |-> <<>>]
<1>1. Len(s) \in Nat
  BY LenProperties
<1>2. f[0] = <<>> /\ f[Len(s)] = <<>> /\ \A i \in 1 .. Len(s) : f[i] = f[i - 1]
  BY <1>1
<1> HIDE DEF f
<1>3. Picks(f, s, K)
  BY <1>2 DEF Picks
<1> QED BY <1>2, <1>3, ChosenOf

LEMMA ChosenSame ==
  ASSUME NEW U, NEW s \in Seq(U), NEW K, NEW T,
         \A i \in 1 .. Len(s) : i \in K <=> i \in T
  PROVE  Chosen(s, K) = Chosen(s, T)
<1>1. PICK f \in [0 .. Len(s) -> Seq(U)] : Picks(f, s, K) /\ Chosen(s, K) = f[Len(s)]
  BY ChosenIs
<1>2. Picks(f, s, T)
  BY <1>1 DEF Picks
<1> QED BY <1>1, <1>2, ChosenOf

LEMMA ChosenAppended ==
  ASSUME NEW U, NEW s \in Seq(U), NEW t \in Seq(U), NEW K, NEW I, NEW J,
         \A k \in 1 .. Len(s) : k \in K <=> k \in I,
         \A j \in 1 .. Len(t) : j + Len(s) \in K <=> j \in J
  PROVE  Chosen(s \o t, K) = Chosen(s, I) \o Chosen(t, J)
<1> DEFINE L == {j \in 1 .. Len(t) : j + Len(s) \in K}
<1>1. Chosen(s \o t, K) = Chosen(s, K) \o Chosen(t, L)
  <2>1. \A X : Chosen(s \o t, X)
                 = Chosen(s, X) \o Chosen(t, {j \in 1 .. Len(t) : j + Len(s) \in X})
    BY ONLY s \in Seq(U), t \in Seq(U), ChosenJoined
  <2> QED BY <2>1
<1>2. \A j \in 1 .. Len(t) : j \in L <=> j \in J
  OBVIOUS
<1> HIDE DEF L
<1>3. Chosen(s, K) = Chosen(s, I)
  BY ChosenSame
<1>4. Chosen(t, L) = Chosen(t, J)
  BY <1>2, ChosenSame
<1> QED BY <1>1, <1>3, <1>4

LEMMA ChosenElements ==
  ASSUME NEW U, NEW s \in Seq(U), NEW K, NEW j \in 1 .. Len(Chosen(s, K))
  PROVE  \E i \in 1 .. Len(s) : Chosen(s, K)[j] = s[i]
<1> DEFINE V == {s[i] : i \in 1 .. Len(s)}
<1>1. Len(s) \in Nat /\ s \in [1 .. Len(s) -> U]
  BY LenProperties
<1>2. \A i \in 1 .. Len(s) : s[i] \in V
  OBVIOUS
<1> HIDE DEF V
<1>3. s \in Seq(V)
  <2>1. s = [i \in 1 .. Len(s) |-> s[i]]
    BY <1>1
  <2>2. [i \in 1 .. Len(s) |-> s[i]] \in Seq(V)
    BY <1>1, <1>2, IsASeq
  <2> QED BY <2>1, <2>2
<1>4. Chosen(s, K) \in Seq(V)
  BY <1>3, ChosenType
<1>5. Chosen(s, K)[j] \in V
  BY <1>4, ElementOfSeq
<1> QED BY <1>5 DEF V

LEMMA ChosenFirst ==
  ASSUME NEW U, NEW s \in Seq(U), Len(s) # 0, NEW K,
         \A i \in 1 .. Len(s) : i \in K <=> i = 1
  PROVE  Chosen(s, K) = <<s[1]>>
<1> DEFINE f == [i \in 0 .. Len(s) |-> IF i = 0 THEN <<>> ELSE <<s[1]>>]
<1>1. Len(s) \in Nat /\ 1 \in 1 .. Len(s)
  BY LenProperties
<1>2. f[0] = <<>> /\ f[Len(s)] = <<s[1]>>
  BY <1>1
<1>3. \A i \in 1 .. Len(s) : f[i] = <<s[1]>> /\ f[i - 1] = IF i = 1 THEN <<>> ELSE <<s[1]>>
  BY <1>1
<1>4. Append(<<>>, s[1]) = <<s[1]>>
  OBVIOUS
<1> HIDE DEF f
<1>5. Picks(f, s, K)
  BY <1>2, <1>3, <1>4 DEF Picks
<1> QED BY <1>2, <1>5, ChosenOf

-----------------------------------------------------------------------------
(* Selections.                                                             *)

\* The selections of the first elements.
Selects(f, s, S) ==
  /\ f[0] = <<>>
  /\ \A i \in 1 .. Len(s) :
       f[i] = IF s[i] \in S THEN Append(f[i - 1], s[i]) ELSE f[i - 1]

LEMMA AmongIs ==
  ASSUME NEW U, NEW s \in Seq(U), NEW S
  PROVE  \E f \in [0 .. Len(s) -> Seq(U)] : Selects(f, s, S) /\ Among(s, S) = f[Len(s)]
<1> DEFINE K == {k \in 1 .. Len(s) : s[k] \in S}
<1>1. PICK f \in [0 .. Len(s) -> Seq(U)] : Picks(f, s, K) /\ Chosen(s, K) = f[Len(s)]
  BY ChosenIs
<1>2. \A i \in 1 .. Len(s) : i \in K <=> s[i] \in S
  OBVIOUS
<1>3. Among(s, S) = Chosen(s, K)
  BY DEF Among
<1> HIDE DEF K
<1>4. Selects(f, s, S)
  BY <1>1, <1>2 DEF Picks, Selects
<1> QED BY <1>1, <1>3, <1>4

LEMMA AmongOf ==
  ASSUME NEW U, NEW s \in Seq(U), NEW S, NEW g, Selects(g, s, S)
  PROVE  Among(s, S) = g[Len(s)]
<1>1. PICK f \in [0 .. Len(s) -> Seq(U)] : Selects(f, s, S) /\ Among(s, S) = f[Len(s)]
  BY AmongIs
<1>2. Len(s) \in Nat
  BY LenProperties
<1> DEFINE T == {i \in Nat : i <= Len(s) => g[i] = f[i]}
<1>3. 0 \in T
  BY <1>1 DEF Selects
<1>4. ASSUME NEW i \in Nat, i \in T PROVE i + 1 \in T
  <2> SUFFICES ASSUME i + 1 <= Len(s) PROVE g[i + 1] = f[i + 1]
    OBVIOUS
  <2>1. i + 1 \in 1 .. Len(s) /\ g[i] = f[i] /\ (i + 1) - 1 = i
    BY <1>2, <1>4
  <2> QED BY <1>1, <2>1 DEF Selects
<1> HIDE DEF T
<1>5. Nat \subseteq T
  BY <1>3, <1>4, SetInduction
<1> QED BY <1>1, <1>2, <1>5 DEF T

LEMMA AmongType ==
  ASSUME NEW U, NEW s \in Seq(U), NEW S
  PROVE  Among(s, S) \in Seq(U)
<1>1. PICK f \in [0 .. Len(s) -> Seq(U)] : Selects(f, s, S) /\ Among(s, S) = f[Len(s)]
  BY AmongIs
<1>2. Len(s) \in 0 .. Len(s)
  BY LenProperties
<1> QED BY <1>1, <1>2

LEMMA AmongJoined ==
  ASSUME NEW U, NEW s \in Seq(U), NEW t \in Seq(U), NEW S
  PROVE  Among(s \o t, S) = Among(s, S) \o Among(t, S)
<1> DEFINE m == Len(s)  n == Len(t)
           K == {k \in 1 .. Len(s \o t) : (s \o t)[k] \in S}
           I == {k \in 1 .. m : s[k] \in S}
           J == {k \in 1 .. n : t[k] \in S}
<1>1. /\ s \o t \in Seq(U) /\ Len(s \o t) = m + n /\ m \in Nat /\ n \in Nat
      /\ \A i \in 1 .. m + n : (s \o t)[i] = IF i <= m THEN s[i] ELSE t[i - m]
  BY AppendIs
<1>2. \A k \in 1 .. m : k \in K <=> k \in I
  BY <1>1
<1>3. \A j \in 1 .. n : j + m \in K <=> j \in J
  <2> TAKE j \in 1 .. n
  <2>1. j + m \in 1 .. m + n /\ ~(j + m <= m) /\ (j + m) - m = j
    BY <1>1
  <2>2. (s \o t)[j + m] = t[j]
    BY <1>1, <2>1
  <2> QED BY <1>1, <2>1, <2>2
<1>4. Among(s \o t, S) = Chosen(s \o t, K) /\ Among(s, S) = Chosen(s, I) /\ Among(t, S) = Chosen(t, J)
  BY DEF Among
<1> HIDE DEF K, I, J
<1>5. Chosen(s \o t, K) = Chosen(s, I) \o Chosen(t, J)
  BY ONLY <1>2, <1>3, s \in Seq(U), t \in Seq(U), ChosenAppended
<1> QED BY <1>4, <1>5

LEMMA AmongEmpty == ASSUME NEW S PROVE Among(<<>>, S) = <<>>
<1> DEFINE f == [i \in {0} |-> <<>>]
<1>1. Selects(f, <<>>, S) /\ f[0] = <<>> /\ <<>> \in Seq({}) /\ Len(<<>>) = 0
  BY EmptySeq DEF Selects
<1> HIDE DEF f
<1> QED BY <1>1, AmongOf

LEMMA AmongAll ==
  ASSUME NEW U, NEW s \in Seq(U), NEW S, \A i \in 1 .. Len(s) : s[i] \in S
  PROVE  Among(s, S) = s
<1> DEFINE f == [i \in 0 .. Len(s) |-> SubSeq(s, 1, i)]
<1>1. Len(s) \in Nat
  BY LenProperties
<1>2. f[0] = <<>>
  <2>1. SubSeq(s, 1, 0) = <<>>
    BY SubSeqEmpty
  <2> QED BY <1>1, <2>1
<1>3. ASSUME NEW i \in 1 .. Len(s) PROVE f[i] = Append(f[i - 1], s[i])
  <2>1. i - 1 \in 0 .. Len(s) /\ i \in 0 .. Len(s)
    BY <1>1
  <2>2. \A j \in 1 .. i : s[j] \in U
    BY <1>1, ElementOfSeq
  <2>3. SubSeq(s, 1, i) = SubSeq(s, 1, i - 1) \o <<s[i]>>
    BY <1>1, SubSeqRecursiveSecond
  <2>4. SubSeq(s, 1, i - 1) \in Seq(U)
    <3>1. \A j \in 1 .. i - 1 : s[j] \in U
      BY <1>1, <2>2
    <3> QED BY <2>1, <3>1, SubSeqProperties
  <2>5. Append(SubSeq(s, 1, i - 1), s[i]) = SubSeq(s, 1, i - 1) \o <<s[i]>>
    BY <2>2, <2>4, AppendIsConcat
  <2> QED BY <2>1, <2>3, <2>5
<1>4. f[Len(s)] = s
  <2>1. SubSeq(s, 1, Len(s)) = s
    BY SubSeqFull
  <2> QED BY <1>1, <2>1
<1> HIDE DEF f
<1>5. Selects(f, s, S)
  BY <1>2, <1>3 DEF Selects
<1> QED BY <1>4, <1>5, AmongOf

LEMMA AmongNone ==
  ASSUME NEW U, NEW s \in Seq(U), NEW S, \A i \in 1 .. Len(s) : s[i] \notin S
  PROVE  Among(s, S) = <<>>
<1> DEFINE f == [i \in 0 .. Len(s) |-> <<>>]
<1>1. Len(s) \in Nat
  BY LenProperties
<1>2. f[0] = <<>> /\ f[Len(s)] = <<>> /\ \A i \in 1 .. Len(s) : f[i] = f[i - 1]
  BY <1>1
<1> HIDE DEF f
<1>3. Selects(f, s, S)
  BY <1>2 DEF Selects
<1> QED BY <1>2, <1>3, AmongOf

LEMMA AmongSame ==
  ASSUME NEW U, NEW s \in Seq(U), NEW S, NEW T,
         \A i \in 1 .. Len(s) : s[i] \in S <=> s[i] \in T
  PROVE  Among(s, S) = Among(s, T)
<1>1. PICK f \in [0 .. Len(s) -> Seq(U)] : Selects(f, s, S) /\ Among(s, S) = f[Len(s)]
  BY AmongIs
<1>2. Selects(f, s, T)
  BY <1>1 DEF Selects
<1> QED BY <1>1, <1>2, AmongOf

-----------------------------------------------------------------------------
(* Sequences put together.                                                 *)

Joins(f, ss) == f[0] = <<>> /\ \A i \in 1 .. Len(ss) : f[i] = f[i - 1] \o ss[i]

LEMMA JoinedIs ==
  ASSUME NEW U, NEW ss \in Seq(Seq(U))
  PROVE  \E f \in [0 .. Len(ss) -> Seq(U)] : Joins(f, ss) /\ Joined(ss) = f[Len(ss)]
<1> DEFINE n == Len(ss)
           step == [i \in Nat |-> [v \in Seq(U) |-> IF i \in 1 .. n THEN v \o ss[i] ELSE v]]
           Def(u) == [i \in 0 .. n |-> IF i = 0 THEN <<>> ELSE u[i - 1] \o ss[i]]
           up == CHOOSE u : u = Def(u)
<1>1. n \in Nat /\ \A i \in 1 .. n : ss[i] \in Seq(U)
  BY LenProperties, ElementOfSeq
<1>2. step \in [Nat -> [Seq(U) -> Seq(U)]]
  <2> SUFFICES ASSUME NEW i \in Nat, NEW v \in Seq(U)
               PROVE  (IF i \in 1 .. n THEN v \o ss[i] ELSE v) \in Seq(U)
    OBVIOUS
  <2>1. CASE i \in 1 .. n
    <3>1. v \o ss[i] \in Seq(U)
      BY <1>1, <2>1, ConcatProperties
    <3> QED BY <2>1, <3>1
  <2> QED BY <2>1
<1>3. \A f \in [0 .. n -> Seq(U)] : Follows(f, n, <<>>, step) => Joins(f, ss) /\ f = Def(f)
  <2> SUFFICES ASSUME NEW f \in [0 .. n -> Seq(U)], Follows(f, n, <<>>, step)
               PROVE  Joins(f, ss) /\ f = Def(f)
    OBVIOUS
  <2>1. \A i \in 1 .. n : step[i][f[i - 1]] = f[i - 1] \o ss[i]
    <3> SUFFICES ASSUME NEW i \in 1 .. n PROVE step[i][f[i - 1]] = f[i - 1] \o ss[i]
      OBVIOUS
    <3>1. f[i - 1] \in Seq(U)
      <4>1. i - 1 \in 0 .. n
        BY <1>1
      <4> HIDE DEF n
      <4> QED BY <4>1
    <3>2. i \in Nat
      BY <1>1
    <3> HIDE DEF n
    <3> QED BY <3>1, <3>2
  <2>2. f[0] = <<>> /\ \A i \in 1 .. n : f[i] = f[i - 1] \o ss[i]
    <3> HIDE DEF step, n
    <3> QED BY <2>1 DEF Follows
  <2>3. f = Def(f)
    <3>1. \A i \in 0 .. n : f[i] = IF i = 0 THEN <<>> ELSE f[i - 1] \o ss[i]
      <4> TAKE i \in 0 .. n
      <4>1. i = 0 \/ (i # 0 /\ i \in 1 .. n)
        BY <1>1
      <4> HIDE DEF n, step
      <4>2. CASE i = 0
        BY <2>2, <4>2
      <4>3. CASE i # 0 /\ i \in 1 .. n
        BY <2>2, <4>3
      <4> QED BY <4>1, <4>2, <4>3
    <3> HIDE DEF n
    <3> QED BY <3>1
  <2> QED BY <2>2, <2>3 DEF Joins
<1>4. PICK f \in [0 .. n -> Seq(U)] : Follows(f, n, <<>>, step)
  <2>1. <<>> \in Seq(U)
    BY EmptySeq
  <2> HIDE DEF step, n
  <2> QED BY <1>1, <1>2, <2>1, RecursionIs
<1>5. up = Def(up)
  <2>1. f = Def(f)
    BY <1>3, <1>4
  <2> HIDE DEF Def
  <2> QED BY <2>1
<1>6. Joins(up, ss)
  <2> DEFINE d == Def(up)
  <2>1. d[0] = <<>> /\ \A i \in 1 .. n : d[i] = up[i - 1] \o ss[i]
    <3>1. 0 \in 0 .. n /\ \A i \in 1 .. n : i \in 0 .. n /\ i # 0
      BY <1>1
    <3> HIDE DEF up, n
    <3> QED BY <3>1
  <2> HIDE DEF d, up
  <2>2. d = up
    BY <1>5 DEF d
  <2> QED BY <2>1, <2>2 DEF Joins
<1>7. \A i \in 0 .. n : up[i] = f[i]
  <2> DEFINE T == {i \in Nat : i <= n => up[i] = f[i]}
  <2>1. Joins(f, ss)
    BY <1>3, <1>4
  <2> HIDE DEF up
  <2>2. 0 \in T
    BY <1>6, <2>1 DEF Joins
  <2>3. ASSUME NEW i \in Nat, i \in T PROVE i + 1 \in T
    <3> SUFFICES ASSUME i + 1 <= n PROVE up[i + 1] = f[i + 1]
      OBVIOUS
    <3>1. i + 1 \in 1 .. n /\ up[i] = f[i] /\ (i + 1) - 1 = i
      BY <1>1, <2>3
    <3> QED BY <1>6, <2>1, <3>1 DEF Joins
  <2> HIDE DEF T
  <2>4. Nat \subseteq T
    BY <2>2, <2>3, SetInduction
  <2> QED BY <1>1, <2>4 DEF T
<1>8. Joined(ss) = up[n]
  BY DEF Joined
<1>9. Joins(f, ss) /\ Joined(ss) = f[n]
  <2>1. up[n] = f[n]
    <3> HIDE DEF up, n
    <3> QED BY <1>1, <1>7
  <2> QED BY <1>3, <1>4, <1>8, <2>1
<1> QED BY <1>9

LEMMA JoinedOf ==
  ASSUME NEW U, NEW ss \in Seq(Seq(U)), NEW g, Joins(g, ss)
  PROVE  Joined(ss) = g[Len(ss)]
<1>1. PICK f \in [0 .. Len(ss) -> Seq(U)] : Joins(f, ss) /\ Joined(ss) = f[Len(ss)]
  BY JoinedIs
<1>2. Len(ss) \in Nat
  BY LenProperties
<1> DEFINE T == {i \in Nat : i <= Len(ss) => g[i] = f[i]}
<1>3. 0 \in T
  BY <1>1 DEF Joins
<1>4. ASSUME NEW i \in Nat, i \in T PROVE i + 1 \in T
  <2> SUFFICES ASSUME i + 1 <= Len(ss) PROVE g[i + 1] = f[i + 1]
    OBVIOUS
  <2>1. i + 1 \in 1 .. Len(ss) /\ g[i] = f[i] /\ (i + 1) - 1 = i
    BY <1>2, <1>4
  <2> QED BY <1>1, <2>1 DEF Joins
<1> HIDE DEF T
<1>5. Nat \subseteq T
  BY <1>3, <1>4, SetInduction
<1> QED BY <1>1, <1>2, <1>5 DEF T

LEMMA JoinedType ==
  ASSUME NEW U, NEW ss \in Seq(Seq(U))
  PROVE  Joined(ss) \in Seq(U)
<1>1. PICK f \in [0 .. Len(ss) -> Seq(U)] : Joins(f, ss) /\ Joined(ss) = f[Len(ss)]
  BY JoinedIs
<1>2. Len(ss) \in 0 .. Len(ss)
  BY LenProperties
<1> QED BY <1>1, <1>2

LEMMA JoinedEmpty == Joined(<<>>) = <<>>
<1> DEFINE f == [i \in {0} |-> <<>>]
<1>1. Joins(f, <<>>) /\ f[0] = <<>> /\ <<>> \in Seq(Seq({})) /\ Len(<<>>) = 0
  BY EmptySeq DEF Joins
<1> HIDE DEF f
<1> QED BY <1>1, JoinedOf

LEMMA JoinedAppend ==
  ASSUME NEW U, NEW ss \in Seq(Seq(U)), NEW s \in Seq(U)
  PROVE  Joined(Append(ss, s)) = Joined(ss) \o s
<1>1. PICK f \in [0 .. Len(ss) -> Seq(U)] : Joins(f, ss) /\ Joined(ss) = f[Len(ss)]
  BY JoinedIs
<1>2. PICK n \in Nat : n = Len(ss)
  BY LenProperties
<1>3. /\ Append(ss, s) \in Seq(Seq(U)) /\ Len(Append(ss, s)) = n + 1
      /\ \A i \in 1 .. n : Append(ss, s)[i] = ss[i]
      /\ Append(ss, s)[n + 1] = s
  BY <1>2, AppendProperties
<1> DEFINE g == [i \in 0 .. n + 1 |-> IF i <= n THEN f[i] ELSE f[n] \o s]
<1>4. g[0] = <<>> /\ g[n + 1] = f[n] \o s
  BY <1>1 DEF Joins
<1>5. ASSUME NEW i \in 1 .. n + 1 PROVE g[i] = g[i - 1] \o Append(ss, s)[i]
  <2>1. CASE i <= n
    <3>1. i \in 1 .. n /\ i - 1 <= n /\ g[i] = f[i] /\ g[i - 1] = f[i - 1]
      BY <2>1
    <3>2. f[i] = f[i - 1] \o ss[i] /\ Append(ss, s)[i] = ss[i]
      BY <1>1, <1>2, <1>3, <3>1 DEF Joins
    <3> HIDE DEF g
    <3> QED BY <3>1, <3>2
  <2>2. CASE i = n + 1
    <3>1. g[i - 1] = f[n]
      BY <2>2
    <3>2. Append(ss, s)[i] = s /\ g[i] = f[n] \o s
      <4> HIDE DEF g
      <4> QED BY <1>3, <1>4, <2>2
    <3> HIDE DEF g
    <3> QED BY <3>1, <3>2, Zenon
  <2>3. i <= n \/ i = n + 1
    BY <1>2
  <2> QED BY <2>1, <2>2, <2>3
<1> HIDE DEF g
<1>6. Joins(g, Append(ss, s))
  BY <1>3, <1>4, <1>5 DEF Joins
<1> QED BY <1>1, <1>2, <1>3, <1>4, <1>6, JoinedOf

\* Three lists put together.  The equation has a name, so that it is used for
\* the lists it is cited for only.
Regroups(s, t, u) == (s \o t) \o u = s \o (t \o u)

LEMMA Regrouping ==
  ASSUME NEW S, NEW s \in Seq(S), NEW t \in Seq(S), NEW u \in Seq(S)
  PROVE  Regroups(s, t, u) /\ s \o t \in Seq(S)
<1>1. s \o t \in Seq(S)
  BY ConcatProperties
<1> QED BY <1>1, ConcatAssociative DEF Regroups

FourRegroup(s, a, b, c, d) == s \o (((a \o b) \o c) \o d) = (((s \o a) \o b) \o c) \o d

LEMMA FourRegrouping ==
  ASSUME NEW S, NEW s \in Seq(S), NEW a \in Seq(S), NEW b \in Seq(S), NEW c \in Seq(S),
         NEW d \in Seq(S)
  PROVE  FourRegroup(s, a, b, c, d) /\ ((a \o b) \o c) \o d \in Seq(S)
<1>1. a \o b \in Seq(S) /\ Regroups(s, a, b)
  BY Regrouping, Zenon
<1>2. (a \o b) \o c \in Seq(S) /\ Regroups(s, a \o b, c)
  BY <1>1, Regrouping, Zenon
<1>3. ((a \o b) \o c) \o d \in Seq(S) /\ Regroups(s, (a \o b) \o c, d)
  BY <1>2, Regrouping, Zenon
<1> QED BY ONLY <1>1, <1>2, <1>3 DEF Regroups, FourRegroup

\* A reward more on the last token.
LEMMA SumAddToLast ==
  ASSUME NEW s \in Seq(Int), Len(s) > 0, NEW r \in Int
  PROVE  /\ AddToLast(s, r) \in Seq(Int) /\ Len(AddToLast(s, r)) = Len(s)
         /\ Sum(AddToLast(s, r)) = Sum(s) + r
<1>1. PICK n \in Nat \ {0} : n = Len(s)
  BY LenProperties
<1> DEFINE t == AddToLast(s, r)
<1>2. n \in 1 .. Len(s) /\ s[n] \in Int
  BY <1>1, ElementOfSeq
<1>3. /\ t \in Seq(Int) /\ Len(t) = n
      /\ \A i \in 1 .. n : t[i] = IF i = n THEN s[n] + r ELSE s[i]
  <2>1. s[n] + r \in Int
    BY <1>2
  <2>2. /\ [s EXCEPT ![n] = s[n] + r] \in Seq(Int) /\ Len([s EXCEPT ![n] = s[n] + r]) = Len(s)
        /\ \A j \in 1 .. Len(s) : [s EXCEPT ![n] = s[n] + r][j] = IF j = n THEN s[n] + r ELSE s[j]
    BY <1>2, <2>1, ExceptSeq
  <2>3. t = [s EXCEPT ![n] = s[n] + r]
    BY <1>1 DEF AddToLast
  <2> QED BY <1>1, <2>2, <2>3
<1> HIDE DEF t
<1>4. PICK f \in [0 .. n -> Int] : Sums(f, s) /\ Sum(s) = f[n]
  BY <1>1, SumIs
<1> DEFINE g == [i \in 0 .. n |-> IF i = n THEN f[n] + r ELSE f[i]]
<1>5. f[n] \in Int /\ f[n - 1] \in Int /\ f[n] = f[n - 1] + s[n]
  BY <1>1, <1>4 DEF Sums
<1>6. g[0] = 0 /\ g[n] = f[n] + r
  BY <1>4 DEF Sums
<1>7. ASSUME NEW i \in 1 .. n PROVE g[i] = g[i - 1] + t[i]
  <2>1. g[i - 1] = f[i - 1]
    OBVIOUS
  <2>2. CASE i = n
    BY <1>2, <1>3, <1>5, <1>6, <2>1, <2>2
  <2>3. CASE i # n
    <3>1. g[i] = f[i] /\ t[i] = s[i]
      BY <1>3, <2>3
    <3> QED BY <1>1, <1>4, <2>1, <3>1 DEF Sums
  <2> QED BY <2>2, <2>3
<1> HIDE DEF g
<1>8. Sums(g, t)
  BY <1>3, <1>6, <1>7 DEF Sums
<1>9. Sum(t) = g[n]
  BY <1>3, <1>8, SumOf
<1> QED BY <1>1, <1>3, <1>4, <1>6, <1>9 DEF t

-----------------------------------------------------------------------------
(* How often an element is in a sequence.                                  *)

Occurrences(s, e) == Len(Among(s, {e}))

LEMMA CopiesAre ==
  ASSUME NEW U, NEW s \in Seq(U), NEW e
  PROVE  Cardinality({i \in 1 .. Len(s) : s[i] = e}) = Occurrences(s, e)
<1>1. PICK f \in [0 .. Len(s) -> Seq(U)] : Selects(f, s, {e}) /\ Among(s, {e}) = f[Len(s)]
  BY AmongIs
<1>2. PICK n \in Nat : n = Len(s)
  BY LenProperties
<1> DEFINE C(k) == {i \in 1 .. k : s[i] = e}
           T == {k \in Nat : k <= n => IsFiniteSet(C(k)) /\ Cardinality(C(k)) = Len(f[k])}
<1>3. 0 \in T
  <2>1. C(0) = {} /\ f[0] = <<>>
    BY <1>1 DEF Selects
  <2>2. IsFiniteSet(C(0)) /\ Cardinality(C(0)) = 0
    BY <2>1, FS_EmptySet
  <2> QED BY <2>1, <2>2
<1>4. ASSUME NEW k \in Nat, k \in T PROVE k + 1 \in T
  <2> SUFFICES ASSUME k + 1 <= n
               PROVE  IsFiniteSet(C(k + 1)) /\ Cardinality(C(k + 1)) = Len(f[k + 1])
    OBVIOUS
  <2>1. /\ k + 1 \in 1 .. Len(s) /\ (k + 1) - 1 = k /\ k \in 0 .. Len(s)
        /\ IsFiniteSet(C(k)) /\ Cardinality(C(k)) = Len(f[k])
    BY <1>2, <1>4
  <2>2. f[k] \in Seq(U) /\ s[k + 1] \in U
    BY <2>1, ElementOfSeq
  <2>3. f[k + 1] = IF s[k + 1] = e THEN Append(f[k], s[k + 1]) ELSE f[k]
    BY <1>1, <2>1 DEF Selects
  <2>4. CASE s[k + 1] = e
    <3>1. C(k + 1) = C(k) \cup {k + 1} /\ k + 1 \notin C(k)
      BY <2>4
    <3>2. IsFiniteSet(C(k + 1)) /\ Cardinality(C(k + 1)) = Cardinality(C(k)) + 1
      <4>1. PICK c0, c1 : c0 = C(k) /\ c1 = C(k + 1)
        OBVIOUS
      <4>2. IsFiniteSet(c0) /\ c1 = c0 \cup {k + 1} /\ k + 1 \notin c0
        BY <2>1, <3>1, <4>1
      <4>3. IsFiniteSet(c1) /\ Cardinality(c1) = Cardinality(c0) + 1
        <5>1. IsFiniteSet(c0 \cup {k + 1})
              /\ Cardinality(c0 \cup {k + 1}) = Cardinality(c0) + 1
          BY ONLY <4>2, FS_AddElement, Zenon
        <5> QED BY ONLY <4>2, <5>1, Zenon
      <4> QED BY ONLY <4>1, <4>3, Zenon
    <3>3. Len(f[k + 1]) = Len(f[k]) + 1
      BY <2>2, <2>3, <2>4, AppendProperties
    <3> QED BY <2>1, <3>2, <3>3
  <2>5. CASE s[k + 1] # e
    <3>1. C(k + 1) = C(k) /\ f[k + 1] = f[k]
      BY <2>3, <2>5
    <3> QED BY <2>1, <3>1
  <2> QED BY <2>4, <2>5
<1> HIDE DEF T
<1>5. Nat \subseteq T
  BY <1>3, <1>4, SetInduction
<1> QED BY <1>1, <1>2, <1>5 DEF T, Occurrences

LEMMA CopiesJoined ==
  ASSUME NEW U, NEW s \in Seq(U), NEW t \in Seq(U), NEW e
  PROVE  /\ Occurrences(s, e) \in Nat /\ Occurrences(t, e) \in Nat
         /\ Occurrences(s \o t, e) = Occurrences(s, e) + Occurrences(t, e)
<1>1. PICK a : a = Among(s, {e})
  OBVIOUS
<1>2. PICK b : b = Among(t, {e})
  OBVIOUS
<1>3. a \in Seq(U) /\ b \in Seq(U)
  BY <1>1, <1>2, AmongType
<1>4. Among(s \o t, {e}) = a \o b
  <2>1. PICK w : w = {e}
    OBVIOUS
  <2>2. Among(s \o t, w) = Among(s, w) \o Among(t, w)
    BY ONLY s \in Seq(U), t \in Seq(U), AmongJoined
  <2> QED BY ONLY <1>1, <1>2, <2>1, <2>2, Zenon
<1>5. Len(a) \in Nat /\ Len(b) \in Nat /\ Len(a \o b) = Len(a) + Len(b)
  BY <1>3, LenProperties, ConcatProperties
<1> QED BY ONLY <1>1, <1>2, <1>4, <1>5 DEF Occurrences

LEMMA NoCopies ==
  ASSUME NEW U, NEW s \in Seq(U), NEW e, \A i \in 1 .. Len(s) : s[i] # e
  PROVE  Occurrences(s, e) = 0
<1>1. Among(s, {e}) = <<>>
  BY AmongNone
<1> QED BY <1>1 DEF Occurrences

LEMMA NoCopiesInEmpty == \A e : Occurrences(<<>>, e) = 0
<1> SUFFICES ASSUME NEW e PROVE Occurrences(<<>>, e) = 0
  OBVIOUS
<1>1. Among(<<>>, {e}) = <<>>
  BY AmongEmpty
<1> QED BY ONLY <1>1 DEF Occurrences

LEMMA AllCopies ==
  ASSUME NEW U, NEW s \in Seq(U), NEW e, \A i \in 1 .. Len(s) : s[i] = e
  PROVE  Occurrences(s, e) = Len(s)
<1>1. Among(s, {e}) = s
  BY AmongAll
<1> QED BY <1>1 DEF Occurrences

\* All copies are in one of the sequences that are put together.
LEMMA CopiesInOne ==
  ASSUME NEW U, NEW ss \in Seq(Seq(U)), NEW e, NEW b \in 1 .. Len(ss),
         \A j \in 1 .. Len(ss) : j # b => Occurrences(ss[j], e) = 0
  PROVE  Occurrences(Joined(ss), e) = Occurrences(ss[b], e)
<1>1. PICK f \in [0 .. Len(ss) -> Seq(U)] : Joins(f, ss) /\ Joined(ss) = f[Len(ss)]
  BY JoinedIs
<1>2. PICK n \in Nat : n = Len(ss)
  BY LenProperties
<1>3. PICK c : c = Occurrences(ss[b], e)
  OBVIOUS
<1> DEFINE T == {k \in Nat : k <= n => Occurrences(f[k], e) = IF k < b THEN 0 ELSE c}
<1>4. 0 \in T
  <2>1. f[0] = <<>> /\ <<>> \in Seq(U) /\ 0 < b
    BY <1>1, <1>2, EmptySeq DEF Joins
  <2>2. Occurrences(<<>>, e) = 0
    BY NoCopiesInEmpty
  <2> QED BY <2>1, <2>2
<1>5. ASSUME NEW k \in Nat, k \in T PROVE k + 1 \in T
  <2> SUFFICES ASSUME k + 1 <= n PROVE Occurrences(f[k + 1], e) = IF k + 1 < b THEN 0 ELSE c
    OBVIOUS
  <2>1. /\ k + 1 \in 1 .. Len(ss) /\ (k + 1) - 1 = k /\ k \in 0 .. Len(ss)
        /\ Occurrences(f[k], e) = IF k < b THEN 0 ELSE c
    BY <1>2, <1>5
  <2>2. f[k] \in Seq(U) /\ ss[k + 1] \in Seq(U)
    BY <2>1, ElementOfSeq
  <2>3. f[k + 1] = f[k] \o ss[k + 1]
    BY <1>1, <2>1 DEF Joins
  <2>4. /\ Occurrences(f[k], e) \in Nat /\ Occurrences(ss[k + 1], e) \in Nat
        /\ Occurrences(f[k] \o ss[k + 1], e) = Occurrences(f[k], e) + Occurrences(ss[k + 1], e)
    BY ONLY <2>2, CopiesJoined
  <2>5. CASE k + 1 = b
    BY <1>3, <2>1, <2>3, <2>4, <2>5
  <2>6. CASE k + 1 # b
    <3>1. Occurrences(ss[k + 1], e) = 0
      BY <2>1, <2>6
    <3>2. k < b <=> k + 1 < b
      BY <1>2, <2>6
    <3> QED BY <2>1, <2>3, <2>4, <3>1, <3>2
  <2> QED BY <2>5, <2>6
<1> HIDE DEF T
<1>6. Nat \subseteq T
  BY <1>4, <1>5, SetInduction
<1>7. ~(n < b)
  BY <1>2
<1> QED BY <1>1, <1>2, <1>3, <1>6, <1>7 DEF T

\* A few sequences put together.
FewHave(a, b, c, e) ==
  /\ Occurrences(Joined(<<a>>), e) = Occurrences(a, e)
  /\ Occurrences(Joined(<<a, b>>), e) = Occurrences(a, e) + Occurrences(b, e)
  /\ Occurrences(Joined(<<a, b, c>>), e) = Occurrences(a, e) + Occurrences(b, e) + Occurrences(c, e)

LEMMA CopiesInFew ==
  ASSUME NEW U, NEW a \in Seq(U), NEW b \in Seq(U), NEW c \in Seq(U), NEW e
  PROVE  FewHave(a, b, c, e)
<1>1. Joined(<<>>) = <<>> /\ <<>> \in Seq(U)
  BY JoinedEmpty, EmptySeq
<1>2. Occurrences(<<>>, e) = 0
  BY NoCopiesInEmpty
<1>3. /\ <<>> \in Seq(Seq(U)) /\ <<a>> \in Seq(Seq(U)) /\ <<a, b>> \in Seq(Seq(U))
      /\ Append(<<>>, a) = <<a>>
  BY EmptySeq
<1>4. Append(<<a>>, b) = <<a, b>> /\ Append(<<a, b>>, c) = <<a, b, c>>
  BY PairIs, TripleIs
<1>5. PICK one : one = Joined(<<a>>)
  OBVIOUS
<1>6. PICK two : two = Joined(<<a, b>>)
  OBVIOUS
<1>7. one = <<>> \o a
  BY ONLY <1>1, <1>3, <1>5, a \in Seq(U), JoinedAppend
<1>8. two = one \o b
  BY ONLY <1>3, <1>4, <1>5, <1>6, b \in Seq(U), JoinedAppend
<1>9. Joined(<<a, b, c>>) = two \o c
  BY ONLY <1>3, <1>4, <1>6, c \in Seq(U), JoinedAppend
<1>10. one \in Seq(U) /\ Occurrences(one, e) = Occurrences(a, e) /\ Occurrences(a, e) \in Nat
  <2>1. <<>> \o a \in Seq(U)
    BY <1>1, ConcatProperties
  <2>2. Occurrences(<<>> \o a, e) = Occurrences(<<>>, e) + Occurrences(a, e) /\ Occurrences(a, e) \in Nat
    BY ONLY <1>1, a \in Seq(U), CopiesJoined
  <2> QED BY ONLY <1>2, <1>7, <2>1, <2>2
<1>11. two \in Seq(U) /\ Occurrences(two, e) = Occurrences(a, e) + Occurrences(b, e)
  <2>1. one \o b \in Seq(U)
    BY <1>10, ConcatProperties
  <2>2. Occurrences(one \o b, e) = Occurrences(one, e) + Occurrences(b, e)
    BY ONLY <1>10, b \in Seq(U), CopiesJoined
  <2> QED BY ONLY <1>8, <1>10, <2>1, <2>2
<1>12. Occurrences(two \o c, e) = Occurrences(two, e) + Occurrences(c, e)
  BY ONLY <1>11, c \in Seq(U), CopiesJoined
<1> QED BY ONLY <1>5, <1>6, <1>9, <1>10, <1>11, <1>12 DEF FewHave
=============================================================================
