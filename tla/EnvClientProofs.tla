--------------------------- MODULE EnvClientProofs ---------------------------
(***************************************************************************)
(* Theorems about the clients of an episode, for every number of           *)
(* simulators, of attempts and of slots, and whatever connections break.   *)
(* The argument is two inductive invariants: ClientIInv says who owns      *)
(* which environment, what an attempt that was given up may still do, and  *)
(* what each of them was paid with; DriftOK how far a game may be from     *)
(* where its client believes it to be.                                     *)
(***************************************************************************)
EXTENDS EnvClient, FiniteSetTheorems, SequenceTheorems, TLAPS

Owning == {c \in Clients : stage[c] \in {"created", "ready"}}

CallOK ==
  /\ Raised => wait = "idle"
  /\ wait # "answer" => answer = NoAnswer
  /\ answer.kind # "ok" => answer.id = None
  /\ wait # "idle" =>
       stage[call.of] = IF call.op = "create" THEN "new"
                        ELSE IF call.op \in {"reset", "reset_state"} THEN "created" ELSE "ready"
  /\ call.op = "reset" => call.arg = 0

\* Every environment has one owner at most; an answer is about the caller's
\* own, or about one that nobody knows yet.
OwnersOK ==
  /\ open \subseteq 1 .. issued
  /\ \A c \in Clients : envId[c] \in 0 .. issued
  /\ ~Raised => \A c \in Clients : envId[c] # None <=> c \in Owning
  /\ \A c, d \in Clients : envId[c] # None /\ envId[c] = envId[d] => c = d
  /\ answer.kind = "ok" =>
       IF call.op = "create"
         THEN /\ answer.id \in open
              /\ \A c \in Clients : envId[c] # answer.id
              /\ \A i \in DOMAIN abandoned : abandoned[i].env # answer.id
         ELSE answer.id = envId[call.of]
  /\ \A i \in DOMAIN abandoned : abandoned[i].env \in 0 .. issued

ClosingAgain(c) == wait # "idle" /\ call.of = c /\ call.op = "close" /\ call.attempt > 1

\* The environment of a client is there unless a close was sent, and the only
\* close that may still come is one that is being sent again.
OpenOK ==
  /\ answer.kind = "ok" /\ call.op = "close" => answer.id \notin open
  /\ ~Raised => \A c \in Owning :
       /\ \/ envId[c] \in open
          \/ ClosingAgain(c)
          \/ answer.kind = "ok" /\ call.of = c /\ call.op = "close"
       /\ \A i \in DOMAIN abandoned :
            abandoned[i].op = "close" /\ abandoned[i].env = envId[c] => ClosingAgain(c)

Orphans == open \ (Known \cup {answer.id})

OfKind(reqs, R) == {i \in DOMAIN reqs : reqs[i] \in R}
Creates(reqs) == {i \in DOMAIN reqs : reqs[i].op = "create"}

Paid == lost + (IF Raised THEN 1 ELSE 0)

\* Every attempt that was lost may leave one environment behind, now or when
\* it is served after all.
PaidOK == Cardinality(Orphans) + Cardinality(Creates(abandoned)) <= Paid

ClientIInv ==
  /\ TypeOK /\ CallOK /\ OwnersOK /\ OpenOK /\ PaidOK
  /\ MissingOnlyWhenClosingAgain

-----------------------------------------------------------------------------
(* Requests that were left behind.                                         *)

Requests == [op : Ops, env : Ids \cup {None}, arg : Nat]

LEMMA SomeIds ==
  /\ \E k \in Nat : Ids = 1 .. k
  /\ IsFiniteSet(Clients) /\ Cardinality(Clients) \in Nat
<1>1. IsFiniteSet(Clients)
  BY EnvClientAssumption, FS_AddElement, FS_Union, FS_Singleton DEF Clients
<1>2. Cardinality(Clients) \in Nat
  BY <1>1, FS_CardinalityType
<1>3. MaxRetries * Cardinality(Clients) \in Nat
  BY <1>2, EnvClientAssumption
<1> QED BY <1>1, <1>2, <1>3 DEF Ids

\* One more request is left behind, of one kind or another.
LEMMA LeftOfKind ==
  ASSUME NEW R, NEW reqs \in Seq(Requests), NEW r \in Requests
  PROVE  LET more == Append(reqs, r)
         IN  /\ more \in Seq(Requests)
             /\ \A j \in DOMAIN more : (j \in DOMAIN reqs /\ more[j] = reqs[j]) \/ more[j] = r
             /\ IsFiniteSet(OfKind(reqs, R)) /\ IsFiniteSet(OfKind(more, R))
             /\ Cardinality(OfKind(more, R)) <=
                  Cardinality(OfKind(reqs, R)) + (IF r \in R THEN 1 ELSE 0)
<1> DEFINE more == Append(reqs, r)
<1>1. /\ Len(reqs) \in Nat /\ DOMAIN reqs = 1 .. Len(reqs)
      /\ more \in Seq(Requests) /\ Len(more) = Len(reqs) + 1 /\ more[Len(reqs) + 1] = r
      /\ \A j \in 1 .. Len(reqs) : more[j] = reqs[j]
  BY AppendProperties, LenProperties
<1>2. DOMAIN more = 1 .. Len(more)
  BY <1>1, LenProperties
<1> HIDE DEF more
<1>3. \A j \in DOMAIN more : j \in 1 .. Len(reqs) \/ j = Len(reqs) + 1
  BY <1>1, <1>2
<1>4. IsFiniteSet(DOMAIN reqs)
  BY <1>1, FS_Interval
<1>5. IsFiniteSet(OfKind(reqs, R))
  BY <1>4, FS_Subset DEF OfKind
<1>6. OfKind(more, R) \subseteq OfKind(reqs, R) \cup (IF r \in R THEN {Len(reqs) + 1} ELSE {})
  BY <1>1, <1>3 DEF OfKind
<1>7. CASE r \in R
  <2>1. /\ IsFiniteSet(OfKind(reqs, R) \cup {Len(reqs) + 1})
        /\ Cardinality(OfKind(reqs, R) \cup {Len(reqs) + 1}) <= Cardinality(OfKind(reqs, R)) + 1
    <3>1. /\ IsFiniteSet(OfKind(reqs, R) \cup {Len(reqs) + 1})
          /\ \/ Cardinality(OfKind(reqs, R) \cup {Len(reqs) + 1}) = Cardinality(OfKind(reqs, R))
             \/ Cardinality(OfKind(reqs, R) \cup {Len(reqs) + 1}) = Cardinality(OfKind(reqs, R)) + 1
      BY <1>5, FS_AddElement
    <3>2. Cardinality(OfKind(reqs, R)) \in Nat
      BY <1>5, FS_CardinalityType
    <3> QED BY <3>1, <3>2
  <2>2. /\ IsFiniteSet(OfKind(more, R))
        /\ Cardinality(OfKind(more, R)) <= Cardinality(OfKind(reqs, R) \cup {Len(reqs) + 1})
    BY <1>6, <1>7, <2>1, FS_Subset
  <2>3. Cardinality(OfKind(more, R)) <= Cardinality(OfKind(reqs, R)) + 1
    BY <2>1, <2>2, <1>5, FS_CardinalityType
  <2> QED BY <1>1, <1>3, <1>5, <1>7, <2>2, <2>3 DEF more
<1>8. CASE r \notin R
  <2>1. /\ IsFiniteSet(OfKind(more, R))
        /\ Cardinality(OfKind(more, R)) <= Cardinality(OfKind(reqs, R))
    BY <1>5, <1>6, <1>8, FS_Subset
  <2>2. Cardinality(OfKind(reqs, R)) + 0 = Cardinality(OfKind(reqs, R))
    BY <1>5, FS_CardinalityType
  <2> QED BY <1>1, <1>3, <1>5, <1>8, <2>1, <2>2 DEF more
<1> QED BY <1>7, <1>8

\* One of them is served after all.
LEMMA ServedOfKind ==
  ASSUME NEW R, NEW reqs \in Seq(Requests), NEW i \in DOMAIN reqs
  PROVE  LET rest == RemoveAt(reqs, i)
         IN  /\ rest \in Seq(Requests)
             /\ \A j \in DOMAIN rest : \E k \in DOMAIN reqs : rest[j] = reqs[k]
             /\ IsFiniteSet(OfKind(reqs, R)) /\ IsFiniteSet(OfKind(rest, R))
             /\ Cardinality(OfKind(rest, R)) <=
                  Cardinality(OfKind(reqs, R)) - (IF reqs[i] \in R THEN 1 ELSE 0)
<1> DEFINE rest == RemoveAt(reqs, i)
           n == Len(reqs)
           s == SubSeq(reqs, 1, i - 1)
           t == SubSeq(reqs, i + 1, n)
<1>1. n \in Nat /\ DOMAIN reqs = 1 .. n /\ i \in 1 .. n
  BY LenProperties
<1>2. \A j \in 1 .. n : reqs[j] \in Requests
  BY <1>1, ElementOfSeq
<1>3. /\ s \in Seq(Requests) /\ Len(s) = i - 1 /\ \A j \in 1 .. i - 1 : s[j] = reqs[j]
  <2>1. \A j \in 1 .. i - 1 : reqs[j] \in Requests
    BY <1>1, <1>2
  <2>2. /\ s \in Seq(Requests) /\ Len(s) = IF 1 <= i - 1 THEN (i - 1) - 1 + 1 ELSE 0
        /\ \A j \in 1 .. (i - 1) - 1 + 1 : s[j] = reqs[1 + j - 1]
    BY <1>1, <2>1, SubSeqProperties
  <2> HIDE DEF s
  <2> QED BY <1>1, <2>2
<1>4. /\ t \in Seq(Requests) /\ Len(t) = n - i /\ \A j \in 1 .. n - i : t[j] = reqs[i + j]
  <2>1. \A j \in i + 1 .. n : reqs[j] \in Requests
    BY <1>1, <1>2
  <2>2. /\ t \in Seq(Requests) /\ Len(t) = IF i + 1 <= n THEN n - (i + 1) + 1 ELSE 0
        /\ \A j \in 1 .. n - (i + 1) + 1 : t[j] = reqs[(i + 1) + j - 1]
    BY <1>1, <2>1, SubSeqProperties
  <2> HIDE DEF t
  <2> QED BY <1>1, <2>2
<1>5. rest = s \o t
  BY DEF RemoveAt
<1> HIDE DEF s, t, rest
<1>6. /\ rest \in Seq(Requests) /\ Len(rest) = n - 1
      /\ \A j \in 1 .. n - 1 : rest[j] = IF j < i THEN reqs[j] ELSE reqs[j + 1]
  <2>1. /\ rest \in Seq(Requests) /\ Len(rest) = Len(s) + Len(t)
        /\ \A j \in 1 .. Len(s) + Len(t) : rest[j] = IF j <= Len(s) THEN s[j] ELSE t[j - Len(s)]
    BY <1>3, <1>4, <1>5, ConcatProperties
  <2>2. Len(s) + Len(t) = n - 1
    BY <1>1, <1>3, <1>4
  <2>3. ASSUME NEW j \in 1 .. n - 1
        PROVE  rest[j] = IF j < i THEN reqs[j] ELSE reqs[j + 1]
    <3>1. CASE j < i
      BY <1>1, <1>3, <2>1, <2>2, <3>1
    <3>2. CASE ~(j < i)
      <4>1. j - (i - 1) \in 1 .. n - i /\ i + (j - (i - 1)) = j + 1 /\ ~(j <= i - 1)
        BY <1>1, <3>2
      <4>2. rest[j] = t[j - (i - 1)]
        BY <1>3, <2>1, <2>2, <4>1
      <4> QED BY <1>4, <3>2, <4>1, <4>2
    <3> QED BY <3>1, <3>2
  <2> QED BY <2>1, <2>2, <2>3
<1>7. DOMAIN rest = 1 .. n - 1
  BY <1>6, LenProperties
<1> HIDE DEF n
<1>8. \A j \in DOMAIN rest : j \in DOMAIN reqs /\ j + 1 \in DOMAIN reqs
  BY <1>1, <1>7
<1>9. \A j \in DOMAIN rest : \E k \in DOMAIN reqs : rest[j] = reqs[k]
  BY <1>6, <1>7, <1>8
<1>10. IsFiniteSet(OfKind(reqs, R))
  <2>1. IsFiniteSet(DOMAIN reqs)
    BY <1>1, FS_Interval
  <2> QED BY <2>1, FS_Subset DEF OfKind
<1> DEFINE others == OfKind(reqs, R) \ {i}
           f == [j \in OfKind(rest, R) |-> IF j < i THEN j ELSE j + 1]
<1>11. IsFiniteSet(others) /\ Cardinality(others) =
         Cardinality(OfKind(reqs, R)) - (IF reqs[i] \in R THEN 1 ELSE 0)
  <2>1. i \in OfKind(reqs, R) <=> reqs[i] \in R
    BY DEF OfKind
  <2>2. IsFiniteSet(others) /\ Cardinality(others) =
         IF i \in OfKind(reqs, R) THEN Cardinality(OfKind(reqs, R)) - 1 ELSE Cardinality(OfKind(reqs, R))
    BY <1>10, FS_RemoveElement
  <2>3. Cardinality(OfKind(reqs, R)) \in Nat
    BY <1>10, FS_CardinalityType
  <2> QED BY <2>1, <2>2, <2>3
<1>12. f \in Injection(OfKind(rest, R), others)
  <2>1. ASSUME NEW j \in OfKind(rest, R)
        PROVE  f[j] \in others /\ j \in Nat
    <3>1. j \in 1 .. n - 1 /\ rest[j] \in R
      BY <1>7 DEF OfKind
    <3>2. f[j] \in DOMAIN reqs /\ f[j] # i /\ rest[j] = reqs[f[j]]
      BY <1>1, <1>6, <1>7, <1>8, <3>1
    <3> QED BY <3>1, <3>2 DEF OfKind
  <2>2. ASSUME NEW j \in OfKind(rest, R), NEW k \in OfKind(rest, R), f[j] = f[k]
        PROVE  j = k
    <3>1. j \in Nat /\ k \in Nat /\ i \in Nat
      BY <1>1, <2>1
    <3>2. (IF j < i THEN j ELSE j + 1) = (IF k < i THEN k ELSE k + 1)
      BY <2>2
    <3> QED BY <3>1, <3>2
  <2>3. f \in [OfKind(rest, R) -> others]
    BY <2>1
  <2> QED BY <2>2, <2>3 DEF Injection, IsInjective
<1>13. IsFiniteSet(OfKind(rest, R)) /\ Cardinality(OfKind(rest, R)) <= Cardinality(others)
  BY <1>11, <1>12, FS_Injection
<1> QED BY <1>6, <1>9, <1>10, <1>11, <1>13 DEF rest

CreateRequests == {r \in Requests : r.op = "create"}

LEMMA CreatesAre ==
  ASSUME NEW reqs \in Seq(Requests)
  PROVE  Creates(reqs) = OfKind(reqs, CreateRequests)
<1>1. \A j \in DOMAIN reqs : reqs[j] \in Requests
  BY ElementOfSeq, LenProperties
<1> QED BY <1>1 DEF Creates, OfKind, CreateRequests

LEMMA LeftOne ==
  ASSUME NEW reqs \in Seq(Requests), NEW r \in Requests
  PROVE  LET more == Append(reqs, r)
         IN  /\ more \in Seq(Requests)
             /\ \A j \in DOMAIN more : (j \in DOMAIN reqs /\ more[j] = reqs[j]) \/ more[j] = r
             /\ IsFiniteSet(Creates(reqs)) /\ IsFiniteSet(Creates(more))
             /\ Cardinality(Creates(more)) <=
                  Cardinality(Creates(reqs)) + (IF r.op = "create" THEN 1 ELSE 0)
<1> DEFINE more == Append(reqs, r)
           R == CreateRequests
<1> HIDE DEF R
<1>1. /\ more \in Seq(Requests)
      /\ \A j \in DOMAIN more : (j \in DOMAIN reqs /\ more[j] = reqs[j]) \/ more[j] = r
      /\ IsFiniteSet(OfKind(reqs, R)) /\ IsFiniteSet(OfKind(more, R))
      /\ Cardinality(OfKind(more, R)) <= Cardinality(OfKind(reqs, R)) + (IF r \in R THEN 1 ELSE 0)
  BY LeftOfKind
<1> HIDE DEF more
<1>2. Creates(reqs) = OfKind(reqs, R) /\ Creates(more) = OfKind(more, R)
  BY <1>1, CreatesAre DEF R
<1>3. r \in R <=> r.op = "create"
  BY DEF R, CreateRequests
<1>4. Cardinality(Creates(more)) <= Cardinality(Creates(reqs)) + (IF r.op = "create" THEN 1 ELSE 0)
  BY <1>1, <1>2, <1>3
<1> QED BY <1>1, <1>2, <1>4 DEF more

LEMMA ServedOne ==
  ASSUME NEW reqs \in Seq(Requests), NEW i \in DOMAIN reqs
  PROVE  LET rest == RemoveAt(reqs, i)
         IN  /\ rest \in Seq(Requests)
             /\ \A j \in DOMAIN rest : \E k \in DOMAIN reqs : rest[j] = reqs[k]
             /\ IsFiniteSet(Creates(reqs)) /\ IsFiniteSet(Creates(rest))
             /\ Cardinality(Creates(rest)) <=
                  Cardinality(Creates(reqs)) - (IF reqs[i].op = "create" THEN 1 ELSE 0)
<1> DEFINE rest == RemoveAt(reqs, i)
           R == CreateRequests
<1> HIDE DEF R
<1>1. /\ rest \in Seq(Requests)
      /\ \A j \in DOMAIN rest : \E k \in DOMAIN reqs : rest[j] = reqs[k]
      /\ IsFiniteSet(OfKind(reqs, R)) /\ IsFiniteSet(OfKind(rest, R))
      /\ Cardinality(OfKind(rest, R)) <=
           Cardinality(OfKind(reqs, R)) - (IF reqs[i] \in R THEN 1 ELSE 0)
  BY ServedOfKind
<1> HIDE DEF rest
<1>2. Creates(reqs) = OfKind(reqs, R) /\ Creates(rest) = OfKind(rest, R)
  BY <1>1, CreatesAre DEF R
<1>3. reqs[i] \in Requests
  BY ElementOfSeq, LenProperties
<1>4. reqs[i] \in R <=> reqs[i].op = "create"
  BY <1>3 DEF R, CreateRequests
<1>5. Cardinality(Creates(rest)) <=
        Cardinality(Creates(reqs)) - (IF reqs[i].op = "create" THEN 1 ELSE 0)
  BY <1>1, <1>2, <1>4
<1> QED BY <1>1, <1>2, <1>5 DEF rest

-----------------------------------------------------------------------------
(* What a step may leave without an owner.                                 *)

LEMMA OpenIsFinite ==
  ASSUME TypeOK, OwnersOK
  PROVE  IsFiniteSet(open) /\ IsFiniteSet(Orphans) /\ Cardinality(Orphans) \in Nat
<1>1. issued \in Nat
  BY SomeIds DEF TypeOK
<1>2. IsFiniteSet(1 .. issued)
  BY <1>1, FS_Interval
<1>3. IsFiniteSet(open)
  BY <1>2, FS_Subset DEF OwnersOK
<1> QED BY <1>3, FS_Subset, FS_CardinalityType DEF Orphans

\* A step leaves at most n more environments without an owner, and k more
\* creates behind.
LEMMA Pays ==
  ASSUME ClientIInv, TypeOK', OwnersOK', Paid' \in Nat,
         NEW x, NEW y, NEW n \in 0 .. 2, NEW k \in -1 .. 1,
         Orphans' \subseteq Orphans \cup (IF n = 0 THEN {} ELSE IF n = 1 THEN {x} ELSE {x, y}),
         Cardinality(Creates(abandoned')) <= Cardinality(Creates(abandoned)) + k,
         Cardinality(Creates(abandoned)) \in Nat, Cardinality(Creates(abandoned')) \in Nat,
         Paid + n + k <= Paid'
  PROVE  PaidOK'
<1>1. /\ IsFiniteSet(Orphans) /\ Cardinality(Orphans) \in Nat
      /\ Cardinality(Orphans)' \in Nat
  <2>1. OwnersOK /\ TypeOK
    BY DEF ClientIInv
  <2>2. IsFiniteSet(Orphans) /\ Cardinality(Orphans) \in Nat
    BY <2>1, OpenIsFinite
  <2>3. (IsFiniteSet(Orphans) /\ Cardinality(Orphans) \in Nat)'
    BY OpenIsFinite, PTL
  <2> QED BY <2>2, <2>3
<1> DEFINE more == IF n = 0 THEN {} ELSE IF n = 1 THEN {x} ELSE {x, y}
<1>2. IsFiniteSet(Orphans \cup more) /\ Cardinality(Orphans \cup more) <= Cardinality(Orphans) + n
  <2>1. CASE n = 0
    <3>1. Orphans \cup more = Orphans
      BY <2>1
    <3> QED BY <1>1, <2>1, <3>1
  <2>2. /\ IsFiniteSet(Orphans \cup {x}) /\ Cardinality(Orphans \cup {x}) \in Nat
        /\ Cardinality(Orphans \cup {x}) <= Cardinality(Orphans) + 1
    <3>1. /\ IsFiniteSet(Orphans \cup {x})
          /\ \/ Cardinality(Orphans \cup {x}) = Cardinality(Orphans)
             \/ Cardinality(Orphans \cup {x}) = Cardinality(Orphans) + 1
      BY <1>1, FS_AddElement
    <3> QED BY <1>1, <3>1
  <2>3. CASE n = 1
    <3>1. Orphans \cup more = Orphans \cup {x}
      BY <2>3
    <3> QED BY <2>2, <2>3, <3>1
  <2>4. CASE n = 2
    <3> DEFINE one == Orphans \cup {x}
               two == one \cup {y}
    <3>1. Orphans \cup more = two
      BY <2>4
    <3>2. IsFiniteSet(one) /\ Cardinality(one) \in Nat /\ Cardinality(one) <= Cardinality(Orphans) + 1
      BY <2>2
    <3> HIDE DEF one
    <3>3. /\ IsFiniteSet(two)
          /\ \/ Cardinality(two) = Cardinality(one)
             \/ Cardinality(two) = Cardinality(one) + 1
      BY <3>2, FS_AddElement
    <3> HIDE DEF two, more
    <3>4. Cardinality(two) <= Cardinality(Orphans) + 2
      BY <1>1, <3>2, <3>3
    <3> QED BY <2>4, <3>1, <3>3, <3>4
  <2>5. n = 0 \/ n = 1 \/ n = 2
    OBVIOUS
  <2> HIDE DEF more
  <2> QED BY <2>1, <2>3, <2>4, <2>5
<1>3. Cardinality(Orphans') <= Cardinality(Orphans \cup more) /\ Cardinality(Orphans \cup more) \in Nat
  BY <1>2, FS_Subset, FS_CardinalityType
<1>4. PaidOK /\ Paid \in Nat
  <2>1. PaidOK /\ lost \in Nat
    BY DEF ClientIInv, TypeOK
  <2> QED BY <2>1 DEF Paid
<1> HIDE DEF more
<1>5. Cardinality(Orphans)' + Cardinality(Creates(abandoned')) <= Paid'
  <2> DEFINE o == Cardinality(Orphans)
             p == Cardinality(Orphans')
             u == Cardinality(Orphans \cup more)
             a == Cardinality(Creates(abandoned))
             b == Cardinality(Creates(abandoned'))
             q == Paid
             r == Paid'
  <2>1. /\ o \in Nat /\ p \in Nat /\ u \in Nat /\ a \in Nat /\ b \in Nat /\ q \in Nat /\ r \in Nat
        /\ p <= u /\ u <= o + n /\ b <= a + k /\ q + n + k <= r /\ o + a <= q
    BY <1>1, <1>2, <1>3, <1>4 DEF PaidOK
  <2> HIDE DEF o, p, u, a, b, q, r
  <2>2. p + b <= r
    BY <2>1
  <2> QED BY <2>2 DEF p, b, r
<1> QED BY <1>5 DEF PaidOK, Creates

LEMMA PaysOne ==
  ASSUME ClientIInv, TypeOK', OwnersOK', Paid' \in Nat, NEW x, NEW k \in -1 .. 1,
         Orphans' \subseteq Orphans \cup {x},
         Cardinality(Creates(abandoned')) <= Cardinality(Creates(abandoned)) + k,
         Cardinality(Creates(abandoned)) \in Nat, Cardinality(Creates(abandoned')) \in Nat,
         Paid + 1 + k <= Paid'
  PROVE  PaidOK'
<1>1. PICK n \in 0 .. 2 : n = 1
  OBVIOUS
<1>2. Orphans' \subseteq Orphans \cup (IF n = 0 THEN {} ELSE IF n = 1 THEN {x} ELSE {x, x})
  BY <1>1
<1>3. Paid + n + k <= Paid'
  BY <1>1
<1> QED BY <1>2, <1>3, Pays

LEMMA PaysNone ==
  ASSUME ClientIInv, TypeOK', OwnersOK', Paid' \in Nat, NEW k \in -1 .. 1,
         Orphans' \subseteq Orphans,
         Cardinality(Creates(abandoned')) <= Cardinality(Creates(abandoned)) + k,
         Cardinality(Creates(abandoned)) \in Nat, Cardinality(Creates(abandoned')) \in Nat,
         Paid + k <= Paid'
  PROVE  PaidOK'
<1>1. PICK n \in 0 .. 2 : n = 0
  OBVIOUS
<1>2. Orphans' \subseteq Orphans \cup (IF n = 0 THEN {} ELSE IF n = 1 THEN {0} ELSE {0, 0})
  BY <1>1
<1>3. Paid \in Nat
  BY DEF Paid, ClientIInv, TypeOK
<1>4. Paid + n + k <= Paid'
  BY <1>1, <1>3
<1> QED BY <1>2, <1>4, Pays

-----------------------------------------------------------------------------
(* The steps.                                                              *)

LEMMA Parts ==
  ASSUME ClientIInv
  PROVE  /\ TypeOK /\ CallOK /\ OwnersOK /\ OpenOK /\ PaidOK
         /\ MissingOnlyWhenClosingAgain
         /\ issued \in Nat /\ 1 .. issued \subseteq Ids /\ None \notin 1 .. issued
         /\ abandoned \in Seq(Requests)
         /\ IsFiniteSet(Creates(abandoned)) /\ Cardinality(Creates(abandoned)) \in Nat
<1>1. /\ TypeOK /\ CallOK /\ OwnersOK /\ OpenOK /\ PaidOK
      /\ MissingOnlyWhenClosingAgain
  BY DEF ClientIInv
<1>2. issued \in Nat /\ 1 .. issued \subseteq Ids /\ None \notin 1 .. issued
  BY <1>1, SomeIds DEF TypeOK, None
<1>3. abandoned \in Seq(Requests) /\ Len(abandoned) \in Nat /\ DOMAIN abandoned = 1 .. Len(abandoned)
  BY <1>1, LenProperties DEF TypeOK, Requests
<1>4. IsFiniteSet(DOMAIN abandoned)
  BY <1>3, FS_Interval
<1>5. IsFiniteSet(Creates(abandoned)) /\ Cardinality(Creates(abandoned)) \in Nat
  BY <1>4, FS_Subset, FS_CardinalityType DEF Creates
<1> QED BY <1>1, <1>2, <1>3, <1>5

LEMMA LossTypes ==
  ASSUME TypeOK, LeaveBehind \/ UNCHANGED losses
  PROVE  (lost \in Nat /\ lostSteps \in [Clients -> Nat] /\ lostResets \subseteq Clients)'
  BY DEF TypeOK, LeaveBehind, losses

LEMMA ClientInitIInv == Init => ClientIInv
<1> SUFFICES ASSUME Init PROVE ClientIInv
  OBVIOUS
<1> USE DEF Init
<1>1. TypeOK
  <2>1. abandoned \in Seq([op : Ops, env : Ids \cup {None}, arg : Nat])
    BY EmptySeq
  <2>2. call \in [of : Clients, op : Ops, arg : Nat, attempt : 1 .. MaxRetries]
    BY EnvClientAssumption DEF Clients, Ops
  <2>3. answer \in [kind : {"none", "ok", "missing"}, id : Ids \cup {None}]
    BY DEF NoAnswer
  <2> QED BY <2>1, <2>2, <2>3 DEF TypeOK, None
<1>2. ~Raised /\ DOMAIN abandoned = {} /\ answer.kind = "none" /\ answer.id = None
  BY DEF Raised, NoAnswer
<1>3. CallOK /\ OwnersOK /\ OpenOK
  BY <1>2 DEF CallOK, OwnersOK, OpenOK, Owning, None
<1>4. MissingOnlyWhenClosingAgain
  BY <1>2 DEF MissingOnlyWhenClosingAgain
<1>5. PaidOK
  <2>1. Orphans = {} /\ Creates(abandoned) = {} /\ Cardinality({}) = 0
    BY <1>2, FS_EmptySet DEF Orphans, Creates
  <2>2. Paid = 0
    BY <1>2 DEF Paid
  <2>3. Cardinality(Orphans) = 0 /\ Cardinality(Creates(abandoned)) = 0
    BY <2>1
  <2> QED BY <2>2, <2>3 DEF PaidOK
<1> QED BY <1>1, <1>3, <1>4, <1>5 DEF ClientIInv

\* A call begins.
LEMMA BeginKeeps ==
  ASSUME ClientIInv, NEW c \in Clients, NEW op \in Ops, Begin(c, op)
  PROVE  ClientIInv'
<1>1. /\ TypeOK /\ CallOK /\ OwnersOK /\ OpenOK /\ PaidOK
      /\ MissingOnlyWhenClosingAgain
  BY Parts
<1>2. /\ wait = "idle" /\ ~Raised /\ wait' = "send" /\ answer = NoAnswer /\ answer' = answer
      /\ answer.kind = "none" /\ answer.id = None
      /\ open' = open /\ moves' = moves /\ issued' = issued
      /\ stage' = stage /\ envId' = envId /\ history' = history /\ played' = played
      /\ abandoned' = abandoned /\ lost' = lost /\ lostSteps' = lostSteps /\ lostResets' = lostResets
      /\ MayCall(c, op)
      /\ call' = [of |-> c, op |-> op, attempt |-> 1,
                  arg |-> IF op = "reset_state" THEN history[Game] ELSE 0]
  BY <1>1 DEF Begin, server, client, losses, CallOK, NoAnswer
<1>3. Raised' = Raised /\ Owning' = Owning /\ Orphans' = Orphans /\ Paid' = Paid
  BY <1>2 DEF Raised, Owning, Orphans, Known, Paid
<1>4. TypeOK'
  <2>1. call' \in [of : Clients, op : Ops, arg : Nat, attempt : 1 .. MaxRetries]
    <3>1. history[Game] \in Nat /\ 1 \in 1 .. MaxRetries
      BY <1>1, EnvClientAssumption DEF TypeOK, Clients
    <3> QED BY <1>2, <3>1
  <2> QED BY <1>1, <1>2, <2>1 DEF TypeOK
<1>5. CallOK'
  BY <1>2, <1>3 DEF CallOK, MayCall, Ops
<1>6. OwnersOK' /\ OpenOK'
  BY <1>1, <1>2, <1>3 DEF OwnersOK, OpenOK, ClosingAgain
<1>7. PaidOK' /\ MissingOnlyWhenClosingAgain'
  BY <1>1, <1>2, <1>3 DEF PaidOK, MissingOnlyWhenClosingAgain
<1> QED BY <1>4, <1>5, <1>6, <1>7 DEF ClientIInv

LEMMA SendKeeps ==
  ASSUME ClientIInv, Send
  PROVE  ClientIInv'
<1>1. /\ TypeOK /\ CallOK /\ OwnersOK /\ OpenOK /\ PaidOK
      /\ MissingOnlyWhenClosingAgain
  BY Parts
<1>2. /\ wait = "send" /\ wait' = "answer" /\ answer' = answer /\ call' = call
      /\ open' = open /\ moves' = moves /\ issued' = issued
      /\ stage' = stage /\ envId' = envId /\ history' = history /\ played' = played
      /\ abandoned' = abandoned /\ lost' = lost /\ lostSteps' = lostSteps /\ lostResets' = lostResets
  BY DEF Send, server, client, losses
<1>3. Raised' = Raised /\ Owning' = Owning /\ Orphans' = Orphans /\ Paid' = Paid
  BY <1>2 DEF Raised, Owning, Orphans, Known, Paid
<1>4. TypeOK' /\ CallOK'
  BY <1>1, <1>2, <1>3 DEF TypeOK, CallOK
<1>5. OwnersOK' /\ OpenOK'
  BY <1>1, <1>2, <1>3 DEF OwnersOK, OpenOK, ClosingAgain
<1>6. PaidOK' /\ MissingOnlyWhenClosingAgain'
  BY <1>1, <1>2, <1>3 DEF PaidOK, MissingOnlyWhenClosingAgain
<1> QED BY <1>4, <1>5, <1>6 DEF ClientIInv

\* The server serves a request that is waited for ...
LEMMA ServeCallKeeps ==
  ASSUME ClientIInv, ServeCall
  PROVE  ClientIInv'
<1>1. /\ TypeOK /\ CallOK /\ OwnersOK /\ OpenOK /\ PaidOK
      /\ issued \in Nat /\ 1 .. issued \subseteq Ids /\ None \notin 1 .. issued
      /\ abandoned \in Seq(Requests)
      /\ IsFiniteSet(Creates(abandoned)) /\ Cardinality(Creates(abandoned)) \in Nat
  BY Parts
<1>2. /\ wait = "answer" /\ answer = NoAnswer /\ answer.kind = "none" /\ answer.id = None
      /\ wait' = wait /\ call' = call
      /\ stage' = stage /\ envId' = envId /\ history' = history /\ played' = played
      /\ abandoned' = abandoned /\ lost' = lost /\ lostSteps' = lostSteps /\ lostResets' = lostResets
      /\ Serve(Request, answer')
      /\ answer' \in [kind : {"none", "ok", "missing"}, id : Ids \cup {None}]
  BY DEF ServeCall, client, losses, NoAnswer
<1>3. ~Raised /\ Raised' = Raised /\ Owning' = Owning /\ Known' = Known /\ Paid' = Paid /\ Paid \in Nat
  BY <1>1, <1>2 DEF Raised, Owning, Known, Paid, CallOK, TypeOK
<1>n. None \notin open
  BY <1>1 DEF OwnersOK
<1> DEFINE c == call.of
           e == envId[c]
<1>4. /\ c \in Clients /\ e \in 0 .. issued
      /\ call.op # "create" => c \in Owning /\ e # None /\ e \in 1 .. issued
      /\ stage[c] = IF call.op = "create" THEN "new"
                    ELSE IF call.op \in {"reset", "reset_state"} THEN "created" ELSE "ready"
      /\ Request = [op |-> call.op, env |-> e, arg |-> call.arg]
      /\ call.op \in Ops /\ call.arg \in Nat
  BY <1>1, <1>2, <1>3 DEF TypeOK, CallOK, OwnersOK, Owning, Request, None
<1>5. CASE /\ call.op = "create" /\ issued' = issued + 1 /\ open' = open \cup {issued'}
           /\ answer' = [kind |-> "ok", id |-> issued'] /\ moves' = moves
  <2>1. issued' \in Ids /\ issued' \in Nat /\ issued' # None /\ \A i \in 0 .. issued : i # issued' /\ i \in 0 .. issued'
    BY <1>1, <1>2, <1>5, SomeIds DEF None
  <2>2. TypeOK'
    BY <1>1, <1>2, <1>5, <2>1 DEF TypeOK
  <2>3. CallOK'
    BY <1>1, <1>2, <1>3, <1>5 DEF CallOK
  <2>4. OwnersOK'
    <3>0. \A i \in 1 .. issued : i \in 1 .. issued + 1
      BY <1>1
    <3>a. issued + 1 \in 1 .. issued + 1
      BY <1>1
    <3>1. open' \subseteq 1 .. issued'
      BY <1>1, <1>5, <3>0, <3>a DEF OwnersOK
    <3> QED BY <1>1, <1>2, <1>3, <1>5, <2>1, <3>1 DEF OwnersOK
  <2>5. OpenOK'
    BY <1>1, <1>2, <1>3, <1>5 DEF OpenOK, ClosingAgain
  <2>7. PaidOK'
    <3>1. Orphans' \subseteq Orphans \cup {}
      BY <1>2, <1>3, <1>5, <1>n DEF Orphans
    <3>2. Paid' \in Nat /\ Paid + 0 + 0 <= Paid'
      BY <1>3
    <3>3. Cardinality(Creates(abandoned')) <= Cardinality(Creates(abandoned)) + 0
      BY <1>1, <1>2
    <3> QED BY <1>1, <1>2, <2>2, <2>4, <3>1, <3>2, <3>3, Pays
  <2>8. MissingOnlyWhenClosingAgain'
    BY <1>5 DEF MissingOnlyWhenClosingAgain
  <2> QED BY <2>2, <2>3, <2>4, <2>5, <2>7, <2>8 DEF ClientIInv
<1>6. CASE /\ call.op # "create" /\ e \in open
           /\ answer' = [kind |-> "ok", id |-> e]
           /\ open' = IF call.op = "close" THEN open \ {e} ELSE open
           /\ moves' = IF call.op = "step" THEN [moves EXCEPT ![e] = @ + 1]
                       ELSE IF call.op = "reset" THEN [moves EXCEPT ![e] = 0]
                       ELSE IF call.op = "reset_state" THEN [moves EXCEPT ![e] = call.arg]
                       ELSE moves
           /\ issued' = issued
  <2>0. e \in Ids /\ e \in Known
    BY <1>1, <1>4, <1>6 DEF Known
  <2>1. moves' \in [Ids -> Nat] /\ \A i \in Ids : i # e => moves'[i] = moves[i]
    BY <1>1, <1>4, <1>6, <2>0 DEF TypeOK
  <2>2. TypeOK'
    BY <1>1, <1>2, <1>6, <2>0, <2>1 DEF TypeOK
  <2>3. CallOK'
    BY <1>1, <1>2, <1>3, <1>6 DEF CallOK
  <2>4. OwnersOK'
    BY <1>1, <1>2, <1>3, <1>6 DEF OwnersOK
  <2>5. OpenOK'
    <3>1. \A d \in Owning : d # c => envId[d] # e
      BY <1>1, <1>3, <1>4, <1>6 DEF OwnersOK, Owning
    <3> QED BY <1>1, <1>2, <1>3, <1>6, <3>1 DEF OpenOK, ClosingAgain
  <2>7. PaidOK'
    <3>1. Orphans' \subseteq Orphans \cup {}
      BY <1>2, <1>3, <1>6, <1>n, <2>0 DEF Orphans
    <3>2. Paid' \in Nat /\ Paid + 0 + 0 <= Paid'
      BY <1>3
    <3>3. Cardinality(Creates(abandoned')) <= Cardinality(Creates(abandoned)) + 0
      BY <1>1, <1>2
    <3> QED BY <1>1, <1>2, <2>2, <2>4, <3>1, <3>2, <3>3, Pays
  <2>8. MissingOnlyWhenClosingAgain'
    BY <1>6 DEF MissingOnlyWhenClosingAgain
  <2> QED BY <2>2, <2>3, <2>4, <2>5, <2>7, <2>8 DEF ClientIInv
<1>7. CASE /\ call.op # "create" /\ e \notin open
           /\ answer' = [kind |-> "missing", id |-> None]
           /\ open' = open /\ moves' = moves /\ issued' = issued
  <2>2. TypeOK'
    BY <1>1, <1>2, <1>7 DEF TypeOK
  <2>3. CallOK' /\ OwnersOK'
    BY <1>1, <1>2, <1>3, <1>7 DEF CallOK, OwnersOK
  <2>5. OpenOK'
    BY <1>1, <1>2, <1>3, <1>7 DEF OpenOK, ClosingAgain
  <2>7. PaidOK'
    BY <1>1, <1>2, <1>3, <1>7 DEF PaidOK, Orphans
  <2>8. MissingOnlyWhenClosingAgain'
    BY <1>1, <1>2, <1>3, <1>4, <1>7 DEF MissingOnlyWhenClosingAgain, OpenOK, ClosingAgain
  <2> QED BY <2>2, <2>3, <2>5, <2>7, <2>8 DEF ClientIInv
<1>8. Request.op = call.op /\ Request.env = e /\ Request.arg = call.arg
  BY <1>4
<1> QED BY <1>2, <1>5, <1>6, <1>7, <1>8 DEF Serve, server

\* ... or one that nobody waits for any more.
LEMMA ServeAbandonedKeeps ==
  ASSUME ClientIInv, ServeAbandoned
  PROVE  ClientIInv'
<1>1. /\ TypeOK /\ CallOK /\ OwnersOK /\ OpenOK /\ PaidOK
      /\ MissingOnlyWhenClosingAgain
      /\ issued \in Nat /\ 1 .. issued \subseteq Ids /\ None \notin 1 .. issued
      /\ abandoned \in Seq(Requests)
      /\ IsFiniteSet(Creates(abandoned)) /\ Cardinality(Creates(abandoned)) \in Nat
  BY Parts
<1>2. PICK i \in DOMAIN abandoned :
        /\ \E ans \in [kind : {"ok", "missing"}, id : Ids \cup {None}] : Serve(abandoned[i], ans)
        /\ abandoned' = RemoveAt(abandoned, i)
  BY DEF ServeAbandoned
<1>3. /\ wait' = wait /\ call' = call /\ answer' = answer
      /\ lost' = lost /\ lostSteps' = lostSteps /\ lostResets' = lostResets
      /\ stage' = stage /\ envId' = envId /\ history' = history /\ played' = played
  BY DEF ServeAbandoned, client, losses
<1> DEFINE r == abandoned[i]
<1>4. r \in Requests /\ r.env \in 0 .. issued /\ r.op \in Ops /\ r.arg \in Nat
  <2>1. r \in Requests
    BY <1>1, ElementOfSeq, LenProperties
  <2> HIDE DEF r
  <2>2. r.op \in Ops /\ r.arg \in Nat
    BY <2>1 DEF Requests
  <2> QED BY <1>1, <2>1, <2>2 DEF OwnersOK, r
<1>5. /\ abandoned' \in Seq(Requests)
      /\ \A j \in DOMAIN abandoned' : \E k \in DOMAIN abandoned : abandoned'[j] = abandoned[k]
      /\ IsFiniteSet(Creates(abandoned'))
      /\ Cardinality(Creates(abandoned')) <=
           Cardinality(Creates(abandoned)) - (IF r.op = "create" THEN 1 ELSE 0)
  BY <1>1, <1>2, ServedOne
<1>6. Cardinality(Creates(abandoned')) \in Nat
  BY <1>5, FS_CardinalityType
<1>7. Raised' = Raised /\ Owning' = Owning /\ Known' = Known /\ Paid' = Paid /\ Paid \in Nat
  BY <1>1, <1>3 DEF Raised, Owning, Known, Paid, TypeOK
<1> HIDE DEF r
<1>9. CASE /\ r.op = "create" /\ issued' = issued + 1 /\ open' = open \cup {issued'}
           /\ issued' \in Ids \cup {None} /\ moves' = moves
  <2>1. issued' \in Ids /\ issued' \in Nat /\ \A j \in 0 .. issued : j # issued' /\ j \in 0 .. issued'
    BY <1>1, <1>9, SomeIds DEF None
  <2>2. TypeOK'
    BY <1>1, <1>3, <1>5, <1>9, <2>1 DEF TypeOK, Requests
  <2>3. CallOK'
    BY <1>1, <1>3, <1>7 DEF CallOK
  <2>4. OwnersOK'
    <3>0. \A j \in 1 .. issued : j \in 1 .. issued + 1
      BY <1>1
    <3>a. issued + 1 \in 1 .. issued + 1
      BY <1>1
    <3>1. open' \subseteq 1 .. issued'
      BY <1>1, <1>9, <3>0, <3>a DEF OwnersOK
    <3>2. \A j \in DOMAIN abandoned' : abandoned'[j].env \in 0 .. issued'
      BY <1>1, <1>5, <2>1 DEF OwnersOK
    <3>3. \A c \in Clients : envId'[c] \in 0 .. issued'
      BY <1>1, <1>3, <2>1 DEF OwnersOK
    <3>4. answer.kind = "ok" =>
            IF call.op = "create"
              THEN /\ answer.id \in open'
                   /\ \A c \in Clients : envId[c] # answer.id
                   /\ \A j \in DOMAIN abandoned' : abandoned'[j].env # answer.id
              ELSE answer.id = envId[call.of]
      BY <1>1, <1>5, <1>9 DEF OwnersOK
    <3> QED BY <1>1, <1>3, <1>7, <3>1, <3>2, <3>3, <3>4 DEF OwnersOK
  <2>5. OpenOK'
    <3>1. answer.kind = "ok" /\ call.op = "close" => answer.id \notin open'
      <4>1. answer.kind = "ok" /\ call.op = "close" => answer.id # issued'
        BY <1>1, <2>1 DEF OwnersOK, TypeOK
      <4> QED BY <1>1, <1>9, <4>1 DEF OpenOK
    <3> QED BY <1>1, <1>3, <1>5, <1>7, <1>9, <3>1 DEF OpenOK, ClosingAgain
  <2>6. PaidOK'
    <3>1. Orphans' \subseteq Orphans \cup {issued'}
      BY <1>3, <1>7, <1>9 DEF Orphans
    <3>2. Paid' \in Nat /\ Paid + 1 + (-1) <= Paid'
      BY <1>7
    <3>3. Cardinality(Creates(abandoned')) <= Cardinality(Creates(abandoned)) + (-1)
      BY <1>1, <1>5, <1>6, <1>9
    <3>4. -1 \in -1 .. 1
      OBVIOUS
    <3> QED BY <1>1, <1>6, <2>2, <2>4, <3>1, <3>2, <3>3, <3>4, PaysOne
  <2>7. MissingOnlyWhenClosingAgain'
    BY <1>1, <1>3 DEF MissingOnlyWhenClosingAgain
  <2> QED BY <2>2, <2>3, <2>4, <2>5, <2>6, <2>7 DEF ClientIInv
<1>10. CASE /\ r.op # "create" /\ issued' = issued
            /\ open' = open \/ (r.op = "close" /\ open' = open \ {r.env})
            /\ moves' \in [Ids -> Nat]
  <2>1. open' \subseteq open
    BY <1>10
  <2>2. TypeOK'
    BY <1>1, <1>3, <1>5, <1>10, <2>1 DEF TypeOK, Requests
  <2>3. CallOK'
    BY <1>1, <1>3, <1>7 DEF CallOK
  <2>4. OwnersOK'
    <3>1. answer.kind = "ok" =>
            IF call.op = "create"
              THEN /\ answer.id \in open'
                   /\ \A c \in Clients : envId[c] # answer.id
                   /\ \A j \in DOMAIN abandoned' : abandoned'[j].env # answer.id
              ELSE answer.id = envId[call.of]
      <4>1. CASE answer.kind = "ok" /\ call.op = "create"
        <5>1. answer.id \in open /\ \A j \in DOMAIN abandoned : abandoned[j].env # answer.id
          BY <1>1, <4>1 DEF OwnersOK
        <5>2. r.env # answer.id
          BY <1>2, <5>1 DEF r
        <5>3. \A c \in Clients : envId[c] # answer.id
          BY <1>1, <4>1 DEF OwnersOK
        <5> QED BY <1>5, <1>10, <4>1, <5>1, <5>2, <5>3
      <4>2. CASE answer.kind = "ok" /\ call.op # "create"
        BY <1>1, <4>2 DEF OwnersOK
      <4> QED BY <4>1, <4>2
    <3>2. \A j \in DOMAIN abandoned' : abandoned'[j].env \in 0 .. issued'
      BY <1>1, <1>5, <1>10 DEF OwnersOK
    <3> QED BY <1>1, <1>3, <1>7, <1>10, <2>1, <3>1, <3>2 DEF OwnersOK
  <2>5. OpenOK'
    <3>1. ASSUME ~Raised, NEW c \in Owning, envId[c] \in open
          PROVE  envId[c] \in open' \/ ClosingAgain(c)
      BY <1>1, <1>2, <1>10, <3>1 DEF OpenOK, r
    <3>2. \A c \in Owning : ClosingAgain(c)' <=> ClosingAgain(c)
      BY <1>3 DEF ClosingAgain
    <3> QED BY <1>1, <1>3, <1>5, <1>7, <2>1, <3>1, <3>2 DEF OpenOK
  <2>6. PaidOK'
    <3>1. Orphans' \subseteq Orphans \cup {}
      BY <1>3, <1>7, <2>1 DEF Orphans
    <3>2. Paid' \in Nat /\ Paid + 0 + 0 <= Paid'
      BY <1>7
    <3>3. Cardinality(Creates(abandoned')) <= Cardinality(Creates(abandoned)) + 0
      BY <1>1, <1>5, <1>6, <1>10
    <3> QED BY <1>1, <1>6, <2>2, <2>4, <3>1, <3>2, <3>3, Pays
  <2>7. MissingOnlyWhenClosingAgain'
    BY <1>1, <1>3 DEF MissingOnlyWhenClosingAgain
  <2> QED BY <2>2, <2>3, <2>4, <2>5, <2>6, <2>7 DEF ClientIInv
<1>11. moves \in [Ids -> Nat]
  BY <1>1 DEF TypeOK
<1>12. PICK ans \in [kind : {"ok", "missing"}, id : Ids \cup {None}] : Serve(r, ans)
  BY <1>2 DEF r
<1>13. CASE r.op = "create"
  BY <1>9, <1>12, <1>13 DEF Serve
<1>14. CASE r.op # "create" /\ r.env \in open
  <2>1. open' = IF r.op = "close" THEN open \ {r.env} ELSE open
    BY <1>12, <1>14 DEF Serve
  <2>2. moves' \in [Ids -> Nat] /\ issued' = issued
    BY <1>4, <1>11, <1>12, <1>14 DEF Serve
  <2> QED BY <1>10, <1>14, <2>1, <2>2
<1>15. CASE r.op # "create" /\ r.env \notin open
  BY <1>10, <1>11, <1>12, <1>15 DEF Serve, server
<1> QED BY <1>13, <1>14, <1>15

\* An exception leaves the call.
LEMMA RaiseKeeps ==
  ASSUME ClientIInv, wait # "idle", RaiseCall, UNCHANGED server,
         \/ abandoned' = abandoned /\ UNCHANGED losses /\ answer.kind # "ok"
         \/ LeaveBehind
  PROVE  ClientIInv'
<1>1. /\ TypeOK /\ CallOK /\ OwnersOK /\ OpenOK /\ PaidOK
      /\ issued \in Nat /\ None \notin 1 .. issued
      /\ abandoned \in Seq(Requests)
      /\ IsFiniteSet(Creates(abandoned)) /\ Cardinality(Creates(abandoned)) \in Nat
  BY Parts
<1> DEFINE c == call.of
<1>2. /\ stage' = [stage EXCEPT ![c] = "raised"]
      /\ envId' = [envId EXCEPT ![c] = IF call.op = "close" THEN None ELSE @]
      /\ wait' = "idle" /\ answer' = NoAnswer /\ answer'.kind = "none" /\ answer'.id = None
      /\ history' = history /\ played' = played /\ call' = call
      /\ open' = open /\ moves' = moves /\ issued' = issued
  BY DEF RaiseCall, server, NoAnswer
<1>3. /\ c \in Clients /\ stage \in [Clients -> {"new", "created", "ready", "closed", "raised"}]
      /\ envId \in [Clients -> Ids \cup {None}] /\ lost \in Nat
      /\ call.op \in Ops /\ call.arg \in Nat
  BY <1>1 DEF TypeOK
<1>4. ~Raised /\ Raised' /\ stage'[c] = "raised"
  BY <1>1, <1>2, <1>3 DEF CallOK, Raised
<1>5. \A d \in Clients : d # c => stage'[d] = stage[d] /\ envId'[d] = envId[d]
  BY <1>2, <1>3
<1>6. envId'[c] = None \/ (call.op # "close" /\ envId'[c] = envId[c])
  BY <1>2, <1>3
<1>7. Request \in Requests /\ Request.env = envId[c]
  BY <1>1, <1>3 DEF Request, Requests, TypeOK
<1>8. /\ abandoned' \in Seq(Requests)
      /\ \A j \in DOMAIN abandoned' :
           (j \in DOMAIN abandoned /\ abandoned'[j] = abandoned[j]) \/ abandoned'[j] = Request
      /\ IsFiniteSet(Creates(abandoned'))
      /\ Cardinality(Creates(abandoned')) <=
           Cardinality(Creates(abandoned)) + (IF lost' = lost THEN 0 ELSE 1)
      /\ lost' \in {lost, lost + 1}
      /\ lost' = lost => abandoned' = abandoned /\ answer.kind # "ok"
  <2>1. CASE abandoned' = abandoned /\ UNCHANGED losses /\ answer.kind # "ok"
    BY <1>1, <2>1 DEF losses
  <2>2. CASE LeaveBehind
    <3>1. lost' = lost + 1 /\ lost' # lost
      BY <1>3, <2>2 DEF LeaveBehind
    <3>2. CASE abandoned' = abandoned
      BY <1>1, <3>1, <3>2
    <3>3. CASE abandoned' = Append(abandoned, Request)
      <4>1. Cardinality(Creates(abandoned')) \in Nat
        BY <1>1, <1>7, <3>3, LeftOne, FS_CardinalityType
      <4>2. Cardinality(Creates(abandoned')) <=
              Cardinality(Creates(abandoned)) + (IF Request.op = "create" THEN 1 ELSE 0)
        BY <1>1, <1>7, <3>3, LeftOne
      <4>3. Cardinality(Creates(abandoned')) <= Cardinality(Creates(abandoned)) + 1
        BY <1>1, <4>1, <4>2
      <4> QED BY <1>1, <1>7, <3>1, <3>3, <4>3, LeftOne
    <3> QED BY <2>2, <3>2, <3>3 DEF LeaveBehind
  <2> QED BY <2>1, <2>2
<1>9. TypeOK'
  <2>1. stage' \in [Clients -> {"new", "created", "ready", "closed", "raised"}]
    BY <1>2, <1>3
  <2>2. envId' \in [Clients -> Ids \cup {None}]
    BY <1>2, <1>3
  <2>3. (lost \in Nat /\ lostSteps \in [Clients -> Nat] /\ lostResets \subseteq Clients)'
    BY <1>1, LossTypes
  <2>4. /\ (open \subseteq Ids /\ issued \in Ids \cup {0} /\ moves \in [Ids -> Nat])'
        /\ (history \in [Clients -> Nat] /\ played \in [Clients -> Nat])'
    BY <1>1, <1>2 DEF TypeOK
  <2>5. /\ call' \in [of : Clients, op : Ops, arg : Nat, attempt : 1 .. MaxRetries]
        /\ wait' \in {"idle", "send", "answer"}
        /\ answer' \in [kind : {"none", "ok", "missing"}, id : Ids \cup {None}]
    BY <1>1, <1>2 DEF TypeOK, NoAnswer
  <2> QED BY <1>8, <2>1, <2>2, <2>3, <2>4, <2>5 DEF TypeOK, Requests
<1>10. CallOK'
  BY <1>1, <1>2 DEF CallOK
<1>11. OwnersOK'
  <2>1. \A d \in Clients : envId'[d] = None \/ envId'[d] = envId[d]
    BY <1>5, <1>6
  <2>2. \A d \in Clients : envId'[d] \in 0 .. issued
    BY <1>1, <2>1 DEF OwnersOK, None
  <2>3. \A d, e \in Clients : envId'[d] # None /\ envId'[d] = envId'[e] => d = e
    BY <1>1, <2>1 DEF OwnersOK
  <2>4. \A j \in DOMAIN abandoned' : abandoned'[j].env \in 0 .. issued
    BY <1>1, <1>3, <1>7, <1>8 DEF OwnersOK
  <2> QED BY <1>1, <1>2, <1>4, <2>2, <2>3, <2>4 DEF OwnersOK
<1>12. OpenOK'
  BY <1>2, <1>4 DEF OpenOK
<1>14. PaidOK'
  <2>1. None \notin open
    BY <1>1 DEF OwnersOK
  <2>2. \A x \in Known : x \in Known' \/ (call.op = "close" /\ x = envId[c])
    BY <1>3, <1>5, <1>2 DEF Known
  <2>3. call.op = "close" => answer.id \notin open
    BY <1>1, <2>1 DEF OpenOK, CallOK
  <2>4. PICK x : x = IF call.op = "close" THEN envId[c] ELSE answer.id
    OBVIOUS
  <2>5. Orphans' \subseteq Orphans \cup {x}
    BY <1>2, <2>2, <2>3, <2>4 DEF Orphans
  <2>6. Paid = lost /\ Paid' = lost' + 1
    <3>1. Paid = lost + 0
      BY <1>4 DEF Paid
    <3>2. Paid' = lost' + 1
      BY <1>4 DEF Paid
    <3> QED BY <1>3, <3>1, <3>2
  <2>7. PICK k \in -1 .. 1 : k = IF lost' = lost THEN 0 ELSE 1
    OBVIOUS
  <2>8. Paid' \in Nat /\ Paid + 1 + k <= Paid'
    <3>1. CASE lost' = lost
      BY <1>3, <2>6, <2>7, <3>1
    <3>2. CASE lost' # lost
      <4>1. lost' = lost + 1 /\ k = 1
        BY <1>8, <2>7, <3>2
      <4> QED BY <1>3, <2>6, <4>1
    <3> QED BY <3>1, <3>2
  <2>9. /\ Cardinality(Creates(abandoned')) \in Nat
        /\ Cardinality(Creates(abandoned')) <= Cardinality(Creates(abandoned)) + k
    BY <1>8, <2>7, FS_CardinalityType
  <2> QED BY <1>1, <1>9, <1>11, <2>5, <2>8, <2>9, PaysOne
<1>15. MissingOnlyWhenClosingAgain'
  BY <1>2 DEF MissingOnlyWhenClosingAgain
<1> QED BY <1>9, <1>10, <1>11, <1>12, <1>14, <1>15 DEF ClientIInv

\* The call is sent again.
LEMMA RetryKeeps ==
  ASSUME ClientIInv, wait # "idle", call.attempt < MaxRetries,
         call' = [call EXCEPT !.attempt = @ + 1],
         wait' = "send", answer' = NoAnswer, UNCHANGED client, UNCHANGED server,
         \/ abandoned' = abandoned /\ UNCHANGED losses /\ answer = NoAnswer
         \/ LeaveBehind
  PROVE  ClientIInv'
<1>1. /\ TypeOK /\ CallOK /\ OwnersOK /\ OpenOK /\ PaidOK
      /\ issued \in Nat /\ None \notin 1 .. issued
      /\ abandoned \in Seq(Requests)
      /\ IsFiniteSet(Creates(abandoned)) /\ Cardinality(Creates(abandoned)) \in Nat
  BY Parts
<1> DEFINE c == call.of
<1>2. /\ stage' = stage /\ envId' = envId /\ history' = history /\ played' = played
      /\ open' = open /\ moves' = moves /\ issued' = issued
      /\ answer'.kind = "none" /\ answer'.id = None
  BY DEF client, server, NoAnswer
<1>3. /\ c \in Clients /\ lost \in Nat /\ call.op \in Ops /\ call.arg \in Nat
      /\ call \in [of : Clients, op : Ops, arg : Nat, attempt : 1 .. MaxRetries]
      /\ envId \in [Clients -> Ids \cup {None}]
  BY <1>1 DEF TypeOK
<1>4. /\ call'.of = c /\ call'.op = call.op /\ call'.arg = call.arg
      /\ call'.attempt = call.attempt + 1 /\ call'.attempt \in 1 .. MaxRetries
      /\ call'.attempt > 1
      /\ call' \in [of : Clients, op : Ops, arg : Nat, attempt : 1 .. MaxRetries]
  BY <1>3, EnvClientAssumption
<1>5. ~Raised /\ Raised' = Raised /\ Owning' = Owning /\ Known' = Known
  BY <1>1, <1>2 DEF CallOK, Raised, Owning, Known
<1>7. Request \in Requests /\ Request.env = envId[c] /\ Request.op = call.op
  BY <1>1, <1>3 DEF Request, Requests, TypeOK
<1>8. /\ abandoned' \in Seq(Requests)
      /\ \A j \in DOMAIN abandoned' :
           (j \in DOMAIN abandoned /\ abandoned'[j] = abandoned[j]) \/ abandoned'[j] = Request
      /\ IsFiniteSet(Creates(abandoned')) /\ Cardinality(Creates(abandoned')) \in Nat
      /\ \/ lost' = lost /\ answer = NoAnswer /\ abandoned' = abandoned
         \/ lost' = lost + 1 /\ answer = NoAnswer
              /\ Cardinality(Creates(abandoned')) <= Cardinality(Creates(abandoned)) + 1
         \/ lost' = lost + 1 /\ abandoned' = abandoned
  <2>1. CASE abandoned' = abandoned /\ UNCHANGED losses /\ answer = NoAnswer
    BY <1>1, <2>1 DEF losses
  <2>2. CASE LeaveBehind /\ answer # NoAnswer
    BY <1>1, <2>2 DEF LeaveBehind
  <2>3. CASE LeaveBehind /\ answer = NoAnswer
    <3>1. lost' = lost + 1 /\ abandoned' = Append(abandoned, Request)
      BY <2>3 DEF LeaveBehind
    <3>2. Cardinality(Creates(abandoned')) \in Nat
      BY <1>1, <1>7, <3>1, LeftOne, FS_CardinalityType
    <3>3. Cardinality(Creates(abandoned')) <=
            Cardinality(Creates(abandoned)) + (IF Request.op = "create" THEN 1 ELSE 0)
      BY <1>1, <1>7, <3>1, LeftOne
    <3>4. Cardinality(Creates(abandoned')) <= Cardinality(Creates(abandoned)) + 1
      BY <1>1, <3>2, <3>3
    <3> QED BY <1>1, <1>7, <2>3, <3>1, <3>2, <3>4, LeftOne
  <2> QED BY <2>1, <2>2, <2>3
<1>9. TypeOK'
  <2>1. (lost \in Nat /\ lostSteps \in [Clients -> Nat] /\ lostResets \subseteq Clients)'
    BY <1>1, LossTypes
  <2>2. answer' \in [kind : {"none", "ok", "missing"}, id : Ids \cup {None}]
    BY DEF NoAnswer
  <2> QED BY <1>1, <1>2, <1>4, <1>8, <2>1, <2>2 DEF TypeOK, Requests
<1>10. CallOK'
  BY <1>1, <1>2, <1>4, <1>5 DEF CallOK
<1>11. OwnersOK'
  <2>1. \A j \in DOMAIN abandoned' : abandoned'[j].env \in 0 .. issued
    BY <1>1, <1>3, <1>7, <1>8 DEF OwnersOK
  <2> QED BY <1>1, <1>2, <1>5, <2>1 DEF OwnersOK
<1>12. OpenOK'
  <2> SUFFICES ASSUME NEW d \in Owning
               PROVE  /\ envId[d] \in open \/ ClosingAgain(d)'
                      /\ \A i \in DOMAIN abandoned' :
                           abandoned'[i].op = "close" /\ abandoned'[i].env = envId[d]
                             => ClosingAgain(d)'
    BY <1>2, <1>5 DEF OpenOK
  <2>0. d \in Clients
    BY DEF Owning
  <2>1. d = c /\ call.op = "close" => ClosingAgain(d)'
    BY <1>4 DEF ClosingAgain
  <2>2. ClosingAgain(d) => ClosingAgain(d)'
    BY <2>1 DEF ClosingAgain
  <2>3. envId[d] \in open \/ ClosingAgain(d)'
    BY <1>1, <1>5, <2>1, <2>2 DEF OpenOK
  <2>4. ASSUME NEW i \in DOMAIN abandoned', abandoned'[i].op = "close", abandoned'[i].env = envId[d]
        PROVE  ClosingAgain(d)'
    <3>1. CASE i \in DOMAIN abandoned /\ abandoned'[i] = abandoned[i]
      BY <1>1, <1>5, <2>2, <2>4, <3>1 DEF OpenOK
    <3>2. CASE abandoned'[i] = Request
      <4>1. envId[d] = envId[c] /\ envId[d] # None /\ call.op = "close"
        BY <1>1, <1>5, <1>7, <2>0, <2>4, <3>2 DEF OwnersOK
      <4>2. d = c
        BY <1>1, <1>3, <2>0, <4>1 DEF OwnersOK
      <4> QED BY <2>1, <4>1, <4>2
    <3> QED BY <1>8, <3>1, <3>2
  <2> QED BY <2>3, <2>4
<1>14. PaidOK'
  <2>1. Paid' = Paid + (lost' - lost) /\ Paid = lost /\ Paid' = lost'
    <3>1. Paid = lost + 0 /\ Paid' = lost' + 0
      BY <1>5 DEF Paid
    <3>2. lost' \in Nat
      BY <1>3, <1>8
    <3> QED BY <1>3, <3>1, <3>2
  <2>2. Orphans' \subseteq Orphans \cup {answer.id}
    BY <1>2, <1>5 DEF Orphans
  <2>3. answer = NoAnswer => Orphans' \subseteq Orphans
    BY <1>2, <1>5 DEF Orphans, NoAnswer
  <2>4. CASE lost' = lost /\ answer = NoAnswer /\ abandoned' = abandoned
    <3>1. Paid' \in Nat /\ Paid + 0 <= Paid'
      BY <1>3, <2>1, <2>4
    <3>2. Cardinality(Creates(abandoned')) <= Cardinality(Creates(abandoned)) + 0
      BY <1>1, <2>4
    <3> QED BY <1>1, <1>8, <1>9, <1>11, <2>3, <2>4, <3>1, <3>2, PaysNone
  <2>5. CASE /\ lost' = lost + 1 /\ answer = NoAnswer
             /\ Cardinality(Creates(abandoned')) <= Cardinality(Creates(abandoned)) + 1
    <3>1. Paid' \in Nat /\ Paid + 1 <= Paid'
      BY <1>3, <2>1, <2>5
    <3>2. 1 \in -1 .. 1
      OBVIOUS
    <3> QED BY <1>1, <1>8, <1>9, <1>11, <2>3, <2>5, <3>1, <3>2, PaysNone
  <2>6. CASE lost' = lost + 1 /\ abandoned' = abandoned
    <3> PICK k \in -1 .. 1 : k = 0
      OBVIOUS
    <3>1. Paid' \in Nat /\ Paid + 1 + k <= Paid'
      BY <1>3, <2>1, <2>6
    <3>2. Cardinality(Creates(abandoned')) <= Cardinality(Creates(abandoned)) + k
      BY <1>1, <2>6
    <3> QED BY <1>1, <1>8, <1>9, <1>11, <2>2, <3>1, <3>2, PaysOne
  <2> QED BY <1>8, <2>4, <2>5, <2>6
<1>15. MissingOnlyWhenClosingAgain'
  BY <1>2 DEF MissingOnlyWhenClosingAgain
<1> QED BY <1>9, <1>10, <1>11, <1>12, <1>14, <1>15 DEF ClientIInv

\* The caller gets its answer.
LEMMA ReceiveKeeps ==
  ASSUME ClientIInv, Receive
  PROVE  ClientIInv'
<1>1. /\ TypeOK /\ CallOK /\ OwnersOK /\ OpenOK /\ PaidOK
      /\ issued \in Nat /\ None \notin 1 .. issued
      /\ abandoned \in Seq(Requests)
      /\ IsFiniteSet(Creates(abandoned)) /\ Cardinality(Creates(abandoned)) \in Nat
  BY Parts
<1> DEFINE c == call.of
           id == answer.id
<1>2. /\ wait = "answer" /\ answer.kind = "ok"
      /\ wait' = "idle" /\ answer'.kind = "none" /\ answer'.id = None /\ answer' = NoAnswer
      /\ open' = open /\ moves' = moves /\ issued' = issued
      /\ call' = call /\ abandoned' = abandoned /\ lost' = lost
      /\ lostSteps' = lostSteps /\ lostResets' = lostResets
      /\ stage' = [stage EXCEPT ![c] = IF call.op = "create" THEN "created"
                                       ELSE IF call.op = "close" THEN "closed" ELSE "ready"]
      /\ envId' = [envId EXCEPT ![c] = IF call.op = "close" THEN None ELSE id]
      /\ history' = [history EXCEPT ![c] = IF call.op \in {"reset", "reset_state"} THEN 0 ELSE @]
      /\ played' = [played EXCEPT ![c] = IF call.op = "step" THEN @ + 1 ELSE call.arg]
  BY DEF Receive, server, losses, NoAnswer
<1>3. /\ c \in Clients /\ stage \in [Clients -> {"new", "created", "ready", "closed", "raised"}]
      /\ envId \in [Clients -> Ids \cup {None}] /\ lost \in Nat
      /\ call.op \in Ops /\ call.arg \in Nat /\ id \in Ids \cup {None}
      /\ history \in [Clients -> Nat] /\ played \in [Clients -> Nat]
  BY <1>1 DEF TypeOK
<1>4. /\ \A d \in Clients : d # c => /\ stage'[d] = stage[d] /\ envId'[d] = envId[d]
                                     /\ played'[d] = played[d]
      /\ stage'[c] = IF call.op = "create" THEN "created"
                     ELSE IF call.op = "close" THEN "closed" ELSE "ready"
      /\ envId'[c] = IF call.op = "close" THEN None ELSE id
      /\ played'[c] = IF call.op = "step" THEN played[c] + 1 ELSE call.arg
  BY <1>2, <1>3
<1>5. ~Raised /\ ~Raised' /\ Paid' = Paid /\ Paid \in Nat
  <2>1. ~Raised
    BY <1>1, <1>2 DEF CallOK
  <2>2. ~Raised'
    BY <1>4, <2>1 DEF Raised
  <2> QED BY <1>2, <1>3, <2>1, <2>2 DEF Paid
<1>6. None \notin open /\ open \subseteq 1 .. issued
  BY <1>1 DEF OwnersOK
<1>7. /\ call.op = "create" => id \in open /\ envId[c] = None
      /\ call.op # "create" => id = envId[c] /\ id # None /\ c \in Owning
      /\ call.op = "close" => id \notin open
      /\ \A d \in Clients : d # c => envId[d] # id
  <2>1. stage[c] = IF call.op = "create" THEN "new"
                   ELSE IF call.op \in {"reset", "reset_state"} THEN "created" ELSE "ready"
    BY <1>1, <1>2 DEF CallOK
  <2>2. call.op = "create" <=> c \notin Owning
    BY <1>3, <2>1 DEF Owning
  <2>3. call.op = "create" => id \in open /\ envId[c] = None /\ \A d \in Clients : envId[d] # id
    BY <1>1, <1>2, <1>3, <1>5, <2>2 DEF OwnersOK
  <2>4. call.op # "create" => id = envId[c] /\ id # None /\ c \in Owning
    BY <1>1, <1>2, <1>3, <1>5, <2>2 DEF OwnersOK
  <2>5. call.op # "create" => \A d \in Clients : d # c => envId[d] # id
    BY <1>1, <1>3, <2>4 DEF OwnersOK
  <2> QED BY <1>1, <1>2, <2>3, <2>4, <2>5 DEF OpenOK
<1>8. \A d \in Clients : d \in Owning' <=> (d # c /\ d \in Owning) \/ (d = c /\ call.op # "close")
  BY <1>4 DEF Owning
<1>9. TypeOK'
  <2>1. stage' \in [Clients -> {"new", "created", "ready", "closed", "raised"}]
    BY <1>2, <1>3
  <2>2. envId' \in [Clients -> Ids \cup {None}]
    BY <1>2, <1>3
  <2>3. history' \in [Clients -> Nat] /\ played' \in [Clients -> Nat]
    BY <1>2, <1>3
  <2>4. (open \subseteq Ids /\ issued \in Ids \cup {0} /\ moves \in [Ids -> Nat])'
        /\ (lost \in Nat /\ lostSteps \in [Clients -> Nat] /\ lostResets \subseteq Clients)'
    BY <1>1, <1>2 DEF TypeOK
  <2>5. /\ call' \in [of : Clients, op : Ops, arg : Nat, attempt : 1 .. MaxRetries]
        /\ wait' \in {"idle", "send", "answer"}
        /\ answer' \in [kind : {"none", "ok", "missing"}, id : Ids \cup {None}]
    BY <1>1, <1>2 DEF TypeOK, NoAnswer
  <2>6. abandoned' \in Seq([op : Ops, env : Ids \cup {None}, arg : Nat])
    BY <1>1, <1>2 DEF TypeOK
  <2> QED BY <2>1, <2>2, <2>3, <2>4, <2>5, <2>6 DEF TypeOK
<1>10. CallOK'
  BY <1>1, <1>2, <1>5 DEF CallOK
<1>11. OwnersOK'
  <2>1. \A d \in Clients : envId'[d] \in 0 .. issued
    <3>1. id \in 0 .. issued
      <4>1. id \in open \/ id = envId[c]
        BY <1>7
      <4>2. envId[c] \in 0 .. issued /\ \A x \in 1 .. issued : x \in 0 .. issued
        BY <1>1, <1>3 DEF OwnersOK
      <4> QED BY <1>6, <4>1, <4>2
    <3>2. None \in 0 .. issued
      BY <1>1 DEF None
    <3> QED BY <1>1, <1>4, <3>1, <3>2 DEF OwnersOK
  <2>2. \A d \in Clients : envId'[d] # None <=> d \in Owning'
    <3>1. id # None
      BY <1>6, <1>7
    <3> QED BY <1>1, <1>4, <1>5, <1>8, <3>1 DEF OwnersOK
  <2>3. \A d, e \in Clients : envId'[d] # None /\ envId'[d] = envId'[e] => d = e
    BY <1>1, <1>4, <1>7 DEF OwnersOK
  <2>4. \A j \in DOMAIN abandoned : abandoned[j].env \in 0 .. issued
    BY <1>1 DEF OwnersOK
  <2> QED BY <1>2, <1>6, <2>1, <2>2, <2>3, <2>4 DEF OwnersOK
<1>12. OpenOK'
  <2> SUFFICES ASSUME NEW d \in Owning'
               PROVE  /\ envId'[d] \in open
                      /\ \A j \in DOMAIN abandoned :
                           ~(abandoned[j].op = "close" /\ abandoned[j].env = envId'[d])
    BY <1>2 DEF OpenOK
  <2>0. d \in Clients
    BY DEF Owning
  <2>1. CASE d # c
    <3>1. d \in Owning /\ envId'[d] = envId[d] /\ ~ClosingAgain(d)
      BY <1>4, <1>8, <2>0, <2>1 DEF ClosingAgain
    <3> QED BY <1>1, <1>5, <2>1, <3>1 DEF OpenOK
  <2>2. CASE d = c /\ call.op = "create"
    <3>1. envId'[d] = id
      BY <1>4, <2>2
    <3>2. \A j \in DOMAIN abandoned : abandoned[j].env # id
      BY <1>1, <1>2, <2>2 DEF OwnersOK
    <3> QED BY <1>7, <2>2, <3>1, <3>2
  <2>3. CASE d = c /\ call.op # "create"
    <3>1. call.op # "close"
      BY <1>8, <2>0, <2>3
    <3>2. c \in Owning /\ envId'[d] = envId[c] /\ ~ClosingAgain(c)
      BY <1>4, <1>7, <2>3, <3>1 DEF ClosingAgain
    <3> QED BY <1>1, <1>5, <3>1, <3>2 DEF OpenOK
  <2> QED BY <2>1, <2>2, <2>3
<1>14. PaidOK'
  <2>1. \A x \in Known : x = None \/ x \in Known' \/ (call.op = "close" /\ x = id)
    BY <1>4, <1>7, <1>2, <1>3 DEF Known
  <2>2. call.op # "close" => id \in Known'
    BY <1>3, <1>4 DEF Known
  <2>3. Orphans' \subseteq Orphans
    BY <1>2, <1>6, <1>7, <2>1, <2>2 DEF Orphans
  <2>4. PICK k \in -1 .. 1 : k = 0
    OBVIOUS
  <2>5. Paid' \in Nat /\ Paid + k <= Paid'
    BY <1>5, <2>4
  <2>6. Cardinality(Creates(abandoned')) <= Cardinality(Creates(abandoned)) + k
    BY <1>1, <1>2, <2>4
  <2> QED BY <1>1, <1>2, <1>9, <1>11, <2>3, <2>5, <2>6, PaysNone
<1>15. MissingOnlyWhenClosingAgain'
  BY <1>2 DEF MissingOnlyWhenClosingAgain
<1> QED BY <1>9, <1>10, <1>11, <1>12, <1>14, <1>15 DEF ClientIInv

-----------------------------------------------------------------------------
LEMMA ClientStepKeeps ==
  ASSUME ClientIInv, [Next]_vars
  PROVE  ClientIInv'
<1>1. CASE \E c \in Clients, op \in Ops : Begin(c, op)
  BY <1>1, BeginKeeps
<1>2. CASE Send \/ Receive \/ ServeCall \/ ServeAbandoned
  BY <1>2, SendKeeps, ReceiveKeeps, ServeCallKeeps, ServeAbandonedKeeps
<1>3. CASE ReceiveError
  BY <1>3, RaiseKeeps DEF ReceiveError
<1>4. CASE Refuse
  <2>1. wait = "send" /\ answer = NoAnswer /\ answer.kind # "ok"
    BY <1>4, Parts DEF Refuse, CallOK, NoAnswer
  <2>2. UNCHANGED server /\ abandoned' = abandoned /\ UNCHANGED losses /\ TryAgain
    BY <1>4 DEF Refuse
  <2> QED BY <2>1, <2>2, RaiseKeeps, RetryKeeps DEF TryAgain
<1>5. CASE Break
  <2>1. wait = "answer" /\ LeaveBehind /\ TryAgain /\ UNCHANGED server
    BY <1>5 DEF Break
  <2> QED BY <2>1, RaiseKeeps, RetryKeeps DEF TryAgain
<1>6. CASE Timeout
  BY <1>6, RaiseKeeps DEF Timeout
<1>7. CASE UNCHANGED vars
  <2>1. /\ stage' = stage /\ envId' = envId /\ history' = history /\ played' = played
        /\ open' = open /\ moves' = moves /\ issued' = issued
        /\ wait' = wait /\ call' = call /\ answer' = answer
        /\ abandoned' = abandoned
        /\ lost' = lost /\ lostSteps' = lostSteps /\ lostResets' = lostResets
    BY <1>7 DEF vars, server, client, losses
  <2>2. Raised' = Raised /\ Owning' = Owning /\ Orphans' = Orphans /\ Paid' = Paid
    BY <2>1 DEF Raised, Owning, Orphans, Known, Paid
  <2>3. (TypeOK /\ CallOK /\ OwnersOK)'
    BY Parts, <2>1, <2>2 DEF TypeOK, CallOK, OwnersOK
  <2>4. OpenOK'
    BY Parts, <2>1, <2>2 DEF OpenOK, ClosingAgain
  <2>5. (PaidOK /\ MissingOnlyWhenClosingAgain)'
    BY Parts, <2>1, <2>2 DEF PaidOK, MissingOnlyWhenClosingAgain
  <2> QED BY <2>3, <2>4, <2>5 DEF ClientIInv
<1> QED BY <1>1, <1>2, <1>3, <1>4, <1>5, <1>6, <1>7 DEF Next

LEMMA ClientInvariant == Spec => []ClientIInv
<1>1. Init => ClientIInv
  BY ClientInitIInv
<1>2. ClientIInv /\ [Next]_vars => ClientIInv'
  BY ClientStepKeeps
<1> QED BY <1>1, <1>2, PTL DEF Spec

\* A client and its game always have their types (AsyncScienceWorldEnvClient).
THEOREM ClientTypeCorrect == Spec => []TypeOK
<1>1. ClientIInv => TypeOK
  BY DEF ClientIInv
<1> QED BY <1>1, ClientInvariant, PTL

\* A slot that no close can free any more (the except branches of _request and
\* close) has been paid for by one attempt that was lost or one exception.
THEOREM EveryOrphanIsPaid == Spec => []OrphansPaid
<1>1. ClientIInv => OrphansPaid
  <2> SUFFICES ASSUME ClientIInv
               PROVE  Cardinality(Orphans) <= Paid
    BY DEF OrphansPaid, Orphans, Paid
  <2>1. /\ Cardinality(Orphans) \in Nat /\ Cardinality(Creates(abandoned)) \in Nat /\ Paid \in Nat
    BY Parts, OpenIsFinite DEF Paid, TypeOK
  <2>2. Cardinality(Orphans) + Cardinality(Creates(abandoned)) <= Paid
    BY Parts DEF PaidOK
  <2> DEFINE o == Cardinality(Orphans)
             a == Cardinality(Creates(abandoned))
             p == Paid
  <2> HIDE DEF o, a, p
  <2>3. o \in Nat /\ a \in Nat /\ p \in Nat /\ o + a <= p
    BY <2>1, <2>2 DEF o, a, p
  <2>4. o <= p
    BY <2>3
  <2> QED BY <2>4 DEF o, p
<1> QED BY <1>1, ClientInvariant, PTL

\* "Environment not found" answers nothing but a close that was sent again: the
\* first attempt did it.
THEOREM MissingMeansClosed == Spec => []MissingOnlyWhenClosingAgain
<1>1. ClientIInv => MissingOnlyWhenClosingAgain
  BY DEF ClientIInv
<1> QED BY <1>1, ClientInvariant, PTL

-----------------------------------------------------------------------------
(* Where simulators start.                                                 *)

\* The client's copy of the history stays empty, so nothing is replayed, and a
\* simulator is only there while its game is.
ReplayOK ==
  /\ \A c \in Clients : history[c] = 0
  /\ call.arg = 0
  /\ ~Raised =>
       /\ \A s \in Sims : Closed(s) \/ stage[Game] = "ready"
       /\ wait # "idle" /\ call.of # Game => stage[Game] = "ready"
       /\ wait # "idle" /\ call.of = Game /\ call.op = "close" => \A s \in Sims : Closed(s)

LEMMA ReplayKeeps ==
  ASSUME ClientIInv, ReplayOK, Next
  PROVE  ReplayOK'
<1>0. /\ TypeOK /\ CallOK /\ Game \in Clients /\ Sims \subseteq Clients
      /\ call.of \in Clients /\ call.op \in Ops
      /\ stage \in [Clients -> {"new", "created", "ready", "closed", "raised"}]
      /\ history \in [Clients -> Nat]
  BY Parts DEF TypeOK, Clients
<1>1. ASSUME NEW c \in Clients, NEW op \in Ops, Begin(c, op)  PROVE ReplayOK'
  <2>1. /\ ~Raised /\ MayCall(c, op) /\ stage' = stage /\ history' = history
        /\ call' = [of |-> c, op |-> op, attempt |-> 1,
                    arg |-> IF op = "reset_state" THEN history[Game] ELSE 0]
    BY <1>1 DEF Begin, client
  <2>2. Raised' = Raised /\ \A s : Closed(s)' = Closed(s)
    BY <2>1 DEF Raised, Closed
  <2>3. call'.of = c /\ call'.op = op /\ call'.arg = 0
    BY <1>0, <2>1 DEF ReplayOK
  <2>4. c # Game => stage[Game] = "ready"
    <3>1. CASE op = "create"
      BY <2>1, <3>1 DEF MayCall
    <3>2. CASE op # "create"
      <4>1. c # Game => stage[c] \in {"created", "ready"}
        BY <2>1, <3>2 DEF MayCall
      <4> QED BY <2>1, <4>1 DEF ReplayOK, Closed, Clients
    <3> QED BY <3>1, <3>2
  <2>5. c = Game /\ op = "close" => \A s \in Sims : Closed(s)
    BY <2>1 DEF MayCall
  <2> QED BY <2>1, <2>2, <2>3, <2>4, <2>5 DEF ReplayOK
<1>2. CASE Send \/ ServeCall \/ ServeAbandoned
  <2>1. stage' = stage /\ history' = history /\ call' = call /\ (wait' # "idle" => wait # "idle")
    BY <1>2 DEF Send, ServeCall, ServeAbandoned, client
  <2>2. Raised' = Raised /\ \A s : Closed(s)' = Closed(s)
    BY <2>1 DEF Raised, Closed
  <2> QED BY <2>1, <2>2 DEF ReplayOK
<1>3. CASE Receive
  <2>1. /\ wait # "idle" /\ wait' = "idle" /\ call' = call
        /\ stage' = [stage EXCEPT ![call.of] =
             IF call.op = "create" THEN "created" ELSE IF call.op = "close" THEN "closed" ELSE "ready"]
        /\ history' = [history EXCEPT ![call.of] =
             IF call.op \in {"reset", "reset_state"} THEN 0 ELSE @]
    BY <1>3 DEF Receive
  <2>2. ~Raised
    BY <1>0, <2>1 DEF CallOK
  <2>3. \A c \in Clients : history'[c] = 0
    BY <1>0, <2>1 DEF ReplayOK
  <2>4. ASSUME NEW s \in Sims  PROVE Closed(s)' \/ stage'[Game] = "ready"
    <3>1. CASE call.of # Game
      BY <1>0, <2>1, <2>2, <3>1 DEF ReplayOK
    <3>2. CASE call.of = Game
      <4>1. s # Game /\ stage'[s] = stage[s]
        BY <1>0, <2>1, <3>2, EnvClientAssumption
      <4>2. CASE call.op = "create"
        <5>1. stage[Game] = "new"
          BY <1>0, <2>1, <3>2, <4>2 DEF CallOK
        <5> QED BY <2>2, <4>1, <5>1 DEF ReplayOK, Closed
      <4>3. CASE call.op = "close"
        BY <2>1, <2>2, <3>2, <4>1, <4>3 DEF ReplayOK, Closed
      <4>4. CASE call.op \notin {"create", "close"}
        BY <1>0, <2>1, <3>2, <4>4
      <4> QED BY <4>2, <4>3, <4>4
    <3> QED BY <3>1, <3>2
  <2> QED BY <2>1, <2>3, <2>4 DEF ReplayOK
<1>4. ASSUME RaiseCall  PROVE ReplayOK'
  <2>1. history' = history /\ call' = call /\ stage' = [stage EXCEPT ![call.of] = "raised"]
    BY <1>4 DEF RaiseCall
  <2>2. Raised'
    BY <1>0, <2>1 DEF Raised
  <2> QED BY <2>1, <2>2 DEF ReplayOK
<1>5. ASSUME TryAgain, wait # "idle"  PROVE ReplayOK'
  <2>1. CASE RaiseCall
    BY <1>4, <2>1
  <2>2. CASE call' = [call EXCEPT !.attempt = @ + 1] /\ UNCHANGED client
    <3>1. /\ call'.of = call.of /\ call'.op = call.op /\ call'.arg = call.arg
          /\ stage' = stage /\ history' = history
      BY <1>0, <2>2 DEF TypeOK, client
    <3>2. Raised' = Raised /\ \A s : Closed(s)' = Closed(s)
      BY <3>1 DEF Raised, Closed
    <3> QED BY <1>5, <3>1, <3>2 DEF ReplayOK
  <2> QED BY <1>5, <2>1, <2>2 DEF TryAgain
<1>6. CASE ReceiveError \/ Timeout
  BY <1>4, <1>6 DEF ReceiveError, Timeout
<1>7. CASE Refuse \/ Break
  BY <1>5, <1>7 DEF Refuse, Break
<1> QED BY <1>1, <1>2, <1>3, <1>6, <1>7 DEF Next

LEMMA Replays == Spec => []ReplayOK
<1>1. Init => ReplayOK
  BY EnvClientAssumption DEF Init, ReplayOK, Closed, Clients
<1>2. ClientIInv /\ ReplayOK /\ [Next]_vars => ReplayOK'
  <2> SUFFICES ASSUME ClientIInv, ReplayOK, [Next]_vars  PROVE ReplayOK'
    OBVIOUS
  <2>1. CASE Next
    BY <2>1, ReplayKeeps
  <2>2. CASE UNCHANGED vars
    <3>1. stage' = stage /\ history' = history /\ call' = call /\ wait' = wait
      BY <2>2 DEF vars, client
    <3>2. Raised' = Raised /\ \A s : Closed(s)' = Closed(s)
      BY <3>1 DEF Raised, Closed
    <3> QED BY <3>1, <3>2 DEF ReplayOK
  <2> QED BY <2>1, <2>2
<1> QED BY <1>1, <1>2, ClientInvariant, PTL DEF Spec

-----------------------------------------------------------------------------
(* How far a game may be from where its client believes it to be.          *)

Resets == {"reset", "reset_state"}

\* Steps in environment e that were left behind and are yet to be served.
StepsIn(e) == [op : {"step"}, env : {e}, arg : Nat]
LateIn(reqs, e) == Cardinality(OfKind(reqs, StepsIn(e)))

\* A step that was served and is about to be answered.
Ahead(c) == IF answer.kind = "ok" /\ call.of = c /\ call.op = "step" THEN 1 ELSE 0

\* Every step that was lost is still to come, has been served, or never will be.
AtMost(c) == moves[envId[c]] + LateIn(abandoned, envId[c]) <= played[c] + lostSteps[c] + Ahead(c)

\* Without a reset that was lost nothing takes a move back.
AtLeast(c) ==
  c \notin lostResets =>
    /\ moves[envId[c]] >= played[c] + Ahead(c)
    /\ \A k \in DOMAIN abandoned : abandoned[k].op \in Resets => abandoned[k].env # envId[c]

DriftOK ==
  /\ \A i \in Ids : i > issued => moves[i] = 0
  /\ \A k \in DOMAIN abandoned : abandoned[k].arg = 0
  /\ answer.kind = "ok" /\ call.op = "create" => moves[answer.id] = 0
  /\ \A c \in Clients : stage[c] \in {"new", "created"} => played[c] = 0 /\ lostSteps[c] = 0
  /\ ~Raised => \A c \in Owning : AtMost(c) /\ AtLeast(c)

LEMMA LateTypes ==
  ASSUME NEW reqs \in Seq(Requests), NEW e
  PROVE  LateIn(reqs, e) \in Nat
<1>1. Len(reqs) \in Nat /\ DOMAIN reqs = 1 .. Len(reqs)
  BY LenProperties
<1>2. IsFiniteSet(DOMAIN reqs)
  BY <1>1, FS_Interval
<1>3. IsFiniteSet(OfKind(reqs, StepsIn(e)))
  BY <1>2, FS_Subset DEF OfKind
<1> QED BY <1>3, FS_CardinalityType DEF LateIn

LEMMA NoneLate ==
  ASSUME NEW reqs, NEW e, \A k \in DOMAIN reqs : reqs[k].env # e
  PROVE  LateIn(reqs, e) = 0
<1>1. OfKind(reqs, StepsIn(e)) = {}
  BY DEF OfKind, StepsIn
<1> QED BY <1>1, FS_EmptySet DEF LateIn

LEMMA LateServed ==
  ASSUME NEW reqs \in Seq(Requests), NEW i \in DOMAIN reqs, NEW e
  PROVE  /\ LateIn(RemoveAt(reqs, i), e) \in Nat /\ LateIn(reqs, e) \in Nat
         /\ LateIn(RemoveAt(reqs, i), e) <= LateIn(reqs, e)
         /\ reqs[i] \in StepsIn(e) => LateIn(RemoveAt(reqs, i), e) <= LateIn(reqs, e) - 1
<1> DEFINE R == StepsIn(e)
           rest == RemoveAt(reqs, i)
<1> HIDE DEF R
<1>1. /\ rest \in Seq(Requests)
      /\ Cardinality(OfKind(rest, R)) <=
           Cardinality(OfKind(reqs, R)) - (IF reqs[i] \in R THEN 1 ELSE 0)
  BY ServedOfKind
<1> HIDE DEF rest
<1>2. LateIn(rest, e) \in Nat /\ LateIn(reqs, e) \in Nat
  BY <1>1, LateTypes
<1>3. LateIn(rest, e) <= LateIn(reqs, e) - (IF reqs[i] \in R THEN 1 ELSE 0)
  BY <1>1 DEF LateIn, R
<1>4. LateIn(rest, e) <= LateIn(reqs, e)
  BY <1>2, <1>3
<1> QED BY <1>2, <1>3, <1>4 DEF rest, R

LEMMA LateLeft ==
  ASSUME NEW reqs \in Seq(Requests), NEW r \in Requests, NEW e
  PROVE  /\ LateIn(Append(reqs, r), e) \in Nat /\ LateIn(reqs, e) \in Nat
         /\ LateIn(Append(reqs, r), e) <= LateIn(reqs, e) + 1
         /\ r \notin StepsIn(e) => LateIn(Append(reqs, r), e) <= LateIn(reqs, e)
<1> DEFINE R == StepsIn(e)
           more == Append(reqs, r)
<1> HIDE DEF R
<1>1. /\ more \in Seq(Requests)
      /\ Cardinality(OfKind(more, R)) <=
           Cardinality(OfKind(reqs, R)) + (IF r \in R THEN 1 ELSE 0)
  BY LeftOfKind
<1> HIDE DEF more
<1>2. LateIn(more, e) \in Nat /\ LateIn(reqs, e) \in Nat
  BY <1>1, LateTypes
<1>3. LateIn(more, e) <= LateIn(reqs, e) + (IF r \in R THEN 1 ELSE 0)
  BY <1>1 DEF LateIn, R
<1>4. LateIn(more, e) <= LateIn(reqs, e) + 1
  BY <1>2, <1>3
<1>5. r \notin R => LateIn(more, e) <= LateIn(reqs, e)
  BY <1>2, <1>3
<1> QED BY <1>2, <1>4, <1>5 DEF more, R

\* What the numbers of one client are.
LEMMA DriftTypes ==
  ASSUME ClientIInv
  PROVE  /\ abandoned \in Seq(Requests) /\ issued \in Nat /\ moves \in [Ids -> Nat]
         /\ call.of \in Clients /\ call.op \in Ops /\ call.arg \in Nat
         /\ stage \in [Clients -> {"new", "created", "ready", "closed", "raised"}]
         /\ played \in [Clients -> Nat] /\ lostSteps \in [Clients -> Nat]
         /\ \A c \in Clients : Ahead(c) \in {0, 1}
         /\ ~Raised => \A c \in Owning :
              /\ c \in Clients /\ envId[c] \in Ids /\ envId[c] <= issued /\ envId[c] # None
              /\ moves[envId[c]] \in Nat /\ LateIn(abandoned, envId[c]) \in Nat
              /\ played[c] \in Nat /\ lostSteps[c] \in Nat
<1>1. /\ TypeOK /\ OwnersOK /\ abandoned \in Seq(Requests) /\ issued \in Nat
      /\ 1 .. issued \subseteq Ids
  BY Parts
<1>2. ASSUME ~Raised, NEW c \in Owning
      PROVE  /\ c \in Clients /\ envId[c] \in Ids /\ envId[c] <= issued /\ envId[c] # None
  <2>1. c \in Clients /\ envId[c] # None
    BY <1>1, <1>2 DEF Owning, OwnersOK
  <2>2. envId[c] \in 0 .. issued
    BY <1>1, <2>1 DEF OwnersOK
  <2>3. envId[c] \in 1 .. issued
    BY <1>1, <2>1, <2>2 DEF None
  <2> QED BY <1>1, <2>1, <2>3
<1>3. \A c \in Clients : Ahead(c) \in {0, 1}
  BY DEF Ahead
<1> QED BY <1>1, <1>2, <1>3, LateTypes DEF TypeOK

Counted ==
  ~Raised => \A c \in Owning :
    /\ moves[envId[c]] \in Nat /\ LateIn(abandoned, envId[c]) \in Nat
    /\ played[c] \in Nat /\ lostSteps[c] \in Nat

LEMMA CountsTyped == ASSUME ClientIInv PROVE Counted
  BY DriftTypes DEF Counted

-----------------------------------------------------------------------------
\* Nothing happens to any game.
LEMMA DriftRests ==
  ASSUME ClientIInv, DriftOK, issued' \in Nat, issued <= issued',
         UNCHANGED <<moves, stage, envId, played, lostSteps, lostResets, abandoned>>,
         \A c \in Clients : Ahead(c)' = Ahead(c),
         answer'.kind = "ok" /\ call'.op = "create" => moves[answer'.id] = 0
  PROVE  DriftOK'
<1>1. Raised' = Raised /\ Owning' = Owning /\ issued \in Nat /\ Owning \subseteq Clients
  BY Parts DEF Raised, Owning
<1>2. \A i \in Ids : i > issued' => i > issued
  <2>1. Ids \subseteq Nat
    BY SomeIds
  <2> QED BY <1>1, <2>1
<1>3. \A c \in Owning : AtMost(c) /\ AtLeast(c) => AtMost(c)' /\ AtLeast(c)'
  BY <1>1 DEF AtMost, AtLeast
<1> QED BY <1>1, <1>2, <1>3 DEF DriftOK

\* The game of the client that calls makes a move, or starts, and an answer is
\* under way; the other games rest.
LEMMA ServeCallDrift ==
  ASSUME ClientIInv, ReplayOK, DriftOK, ServeCall
  PROVE  DriftOK'
<1>1. /\ TypeOK /\ CallOK /\ OwnersOK /\ call.of \in Clients /\ moves \in [Ids -> Nat]
      /\ issued \in Nat
  BY Parts, DriftTypes
<1>2. /\ wait = "answer" /\ answer = NoAnswer /\ answer.kind = "none" /\ call' = call
      /\ stage' = stage /\ envId' = envId /\ played' = played
      /\ abandoned' = abandoned /\ lostSteps' = lostSteps /\ lostResets' = lostResets
      /\ Serve(Request, answer')
  BY DEF ServeCall, client, losses, NoAnswer
<1>3. ~Raised /\ Raised' = Raised /\ Owning' = Owning /\ Owning \subseteq Clients
  BY <1>1, <1>2 DEF CallOK, Raised, Owning
<1>4. \A d \in Clients : Ahead(d) = 0
  BY <1>2 DEF Ahead
<1> DEFINE c == call.of
           e == envId[c]
<1>5. Request.op = call.op /\ Request.env = e /\ Request.arg = 0
  BY DEF Request, ReplayOK
<1>6. CASE call.op = "create"
  <2>1. issued' = issued + 1 /\ answer'.id = issued' /\ moves' = moves
    BY <1>2, <1>5, <1>6 DEF Serve
  <2>2. \A d \in Clients : Ahead(d)' = 0
    BY <1>2, <1>6 DEF Ahead
  <2>3. answer' \in [kind : {"ok", "missing"}, id : Ids \cup {None}]
    BY DEF ServeCall
  <2>4. answer'.id \in Ids /\ answer'.id > issued
    BY <1>1, <2>1, <2>3, SomeIds DEF None
  <2>5. moves[answer'.id] = 0
    BY <2>4 DEF DriftOK
  <2>6. issued' \in Nat /\ issued <= issued'
    BY <1>1, <2>1
  <2> QED BY <1>2, <1>4, <2>1, <2>2, <2>5, <2>6, DriftRests
<1>7. CASE call.op \in {"step", "reset", "reset_state"} /\ e \in open
  <2>1. /\ issued' = issued /\ answer'.kind = "ok" /\ answer'.id = e
        /\ moves' = [moves EXCEPT ![e] = IF call.op = "step" THEN @ + 1 ELSE 0]
    BY <1>2, <1>5, <1>7 DEF Serve
  <2>2. /\ c \in Owning /\ (call.op # "step" => stage[c] = "created")
        /\ e \in Ids /\ moves[e] \in Nat /\ e <= issued
    <3>1. c \in Owning /\ (call.op # "step" => stage[c] = "created")
      BY <1>1, <1>2, <1>7 DEF CallOK, Owning
    <3> QED BY <1>3, <3>1, DriftTypes
  <2>3. moves'[e] = IF call.op = "step" THEN moves[e] + 1 ELSE 0
    BY <1>1, <2>1, <2>2
  <2>4. \A i \in Ids : i # e => moves'[i] = moves[i]
    BY <1>1, <2>1
  <2>5. Ahead(c)' = (IF call.op = "step" THEN 1 ELSE 0) /\ \A d \in Clients : d # c => Ahead(d)' = 0
    BY <1>2, <2>1 DEF Ahead
  <2>6. \A i \in Ids : i > issued' => moves'[i] = 0
    <3>1. \A i \in Ids : i > issued => i # e
      <4>1. Ids \subseteq Nat
        BY SomeIds
      <4> QED BY <1>1, <2>2, <4>1
    <3> QED BY <2>1, <2>4, <3>1 DEF DriftOK
  <2>7. ASSUME NEW d \in Owning  PROVE (AtMost(d) /\ AtLeast(d))'
    <3>0. /\ d \in Clients /\ AtMost(d) /\ AtLeast(d) /\ envId[d] \in Ids
          /\ moves[envId[d]] \in Nat /\ LateIn(abandoned, envId[d]) \in Nat
          /\ played[d] \in Nat /\ lostSteps[d] \in Nat /\ Ahead(d) = 0
      BY <1>3, <1>4, <2>7, DriftTypes DEF DriftOK
    <3>1. CASE d # c
      <4>1. envId[d] # e
        BY <1>1, <1>3, <2>2, <2>7, <3>0, <3>1, DriftTypes DEF OwnersOK
      <4>2. moves'[envId'[d]] = moves[envId[d]] /\ Ahead(d)' = Ahead(d)
        BY <1>2, <2>4, <2>5, <3>0, <3>1, <4>1
      <4> QED BY <1>2, <3>0, <4>2 DEF AtMost, AtLeast
    <3>2. CASE d = c /\ call.op = "step"
      <4>1. moves'[envId'[d]] = moves[envId[d]] + 1 /\ Ahead(d)' = 1
        BY <1>2, <2>3, <2>5, <3>2
      <4> HIDE DEF c, e
      <4>2. AtMost(d)'
        BY <1>2, <3>0, <4>1 DEF AtMost
      <4>3. AtLeast(d)'
        BY <1>2, <3>0, <4>1 DEF AtLeast
      <4> QED BY <4>2, <4>3
    <3>3. CASE d = c /\ call.op # "step"
      <4>1. moves'[envId'[d]] = 0 /\ Ahead(d)' = 0 /\ played[d] = 0
        BY <1>2, <2>2, <2>3, <2>5, <3>0, <3>3 DEF DriftOK
      <4> HIDE DEF c, e
      <4>2. AtMost(d)'
        BY <1>2, <3>0, <4>1 DEF AtMost
      <4>3. AtLeast(d)'
        BY <1>2, <3>0, <4>1 DEF AtLeast
      <4> QED BY <4>2, <4>3
    <3> QED BY <3>1, <3>2, <3>3
  <2> QED BY <1>2, <1>3, <1>7, <2>6, <2>7 DEF DriftOK
<1>8. CASE call.op = "close" \/ (call.op # "create" /\ e \notin open)
  <2>1. moves' = moves /\ issued' = issued
    BY <1>2, <1>5, <1>8 DEF Serve, server
  <2>2. call.op # "create" /\ (answer'.kind = "ok" => call.op = "close")
    BY <1>2, <1>5, <1>8 DEF Serve
  <2>3. \A d \in Clients : Ahead(d)' = 0
    BY <1>2, <2>2 DEF Ahead
  <2> QED BY <1>1, <1>2, <1>4, <2>1, <2>2, <2>3, DriftRests
<1> QED BY <1>1, <1>6, <1>7, <1>8 DEF TypeOK, Ops

\* What was left behind is served: a step is no longer to come, and a reset
\* only takes moves back from a client that lost one.
LEMMA ServeAbandonedDrift ==
  ASSUME ClientIInv, DriftOK, ServeAbandoned
  PROVE  DriftOK'
<1>1. /\ TypeOK /\ OwnersOK /\ abandoned \in Seq(Requests) /\ moves \in [Ids -> Nat]
      /\ issued \in Nat /\ None \notin 1 .. issued /\ Ids \subseteq Nat
  BY Parts, DriftTypes, SomeIds
<1>2. PICK i \in DOMAIN abandoned :
        /\ \E ans \in [kind : {"ok", "missing"}, id : Ids \cup {None}] : Serve(abandoned[i], ans)
        /\ abandoned' = RemoveAt(abandoned, i)
  BY DEF ServeAbandoned
<1>3. /\ call' = call /\ answer' = answer /\ stage' = stage /\ envId' = envId /\ played' = played
      /\ lostSteps' = lostSteps /\ lostResets' = lostResets
  BY DEF ServeAbandoned, client, losses
<1>4. Raised' = Raised /\ Owning' = Owning /\ Owning \subseteq Clients
  BY <1>3 DEF Raised, Owning
<1> DEFINE r == abandoned[i]
<1>5. r \in Requests /\ r.env \in 0 .. issued /\ r.arg = 0 /\ r = [op |-> r.op, env |-> r.env, arg |-> 0]
  <2>1. r \in Requests
    BY <1>1, ElementOfSeq, LenProperties
  <2>2. r.env \in 0 .. issued /\ r.arg = 0
    BY <1>1 DEF OwnersOK, DriftOK
  <2> HIDE DEF r
  <2> QED BY <2>1, <2>2 DEF Requests
<1>6. PICK ans \in [kind : {"ok", "missing"}, id : Ids \cup {None}] : Serve(r, ans)
  BY <1>2
<1>7. \A j \in DOMAIN abandoned' : \E k \in DOMAIN abandoned : abandoned'[j] = abandoned[k]
  BY <1>1, <1>2, ServedOne
<1>8. \A e : /\ LateIn(abandoned', e) \in Nat /\ LateIn(abandoned, e) \in Nat
             /\ LateIn(abandoned', e) <= LateIn(abandoned, e)
             /\ r \in StepsIn(e) => LateIn(abandoned', e) <= LateIn(abandoned, e) - 1
  BY <1>1, <1>2, LateServed
<1>9. answer.kind = "ok" /\ call.op = "create" => answer.id # r.env
  BY <1>1 DEF OwnersOK
<1>10. ASSUME NEW c \in Owning, ~Raised, r.op \in Resets, r.env = envId[c]
       PROVE  c \in lostResets
  BY <1>10 DEF DriftOK, AtLeast
<1>11. \A c \in Clients : Ahead(c)' = Ahead(c)
  BY <1>3 DEF Ahead
<1> HIDE DEF r
\* How the moves change.
<1>12. /\ issued' \in Nat /\ issued <= issued'
       /\ \A e \in Ids :
            \/ moves'[e] = moves[e]
            \/ e = r.env /\ r \in StepsIn(e) /\ moves'[e] = moves[e] + 1
            \/ e = r.env /\ r.op \in Resets /\ moves'[e] = 0
  <2>1. CASE r.op = "create"
    <3>1. issued' = issued + 1 /\ moves' = moves
      BY <1>6, <2>1 DEF Serve
    <3> QED BY <1>1, <3>1
  <2>2. CASE r.op # "create" /\ r.env \in open
    <3>1. /\ issued' = issued
          /\ moves' = IF r.op = "step" THEN [moves EXCEPT ![r.env] = @ + 1]
                      ELSE IF r.op = "reset" THEN [moves EXCEPT ![r.env] = 0]
                      ELSE IF r.op = "reset_state" THEN [moves EXCEPT ![r.env] = 0]
                      ELSE moves
      BY <1>5, <1>6, <2>2 DEF Serve
    <3>2. r.op = "step" => r \in StepsIn(r.env)
      BY <1>5 DEF StepsIn
    <3>3. r.op = "step" => \A e \in Ids : moves'[e] = IF e = r.env THEN moves[e] + 1 ELSE moves[e]
      BY <1>1, <3>1
    <3>4. r.op \in Resets => \A e \in Ids : moves'[e] = IF e = r.env THEN 0 ELSE moves[e]
      BY <1>1, <3>1 DEF Resets
    <3>5. r.op \notin Resets /\ r.op # "step" => moves' = moves
      BY <3>1 DEF Resets
    <3> QED BY <1>1, <3>1, <3>2, <3>3, <3>4, <3>5
  <2>3. CASE r.op # "create" /\ r.env \notin open
    <3>1. moves' = moves /\ issued' = issued
      BY <1>6, <2>3 DEF Serve, server
    <3> QED BY <1>1, <3>1
  <2> QED BY <2>1, <2>2, <2>3
<1>13. \A e \in Ids : e > issued' => moves'[e] = 0
  <2>1. \A e \in Ids : e > issued' => e > issued /\ e # r.env
    BY <1>1, <1>5, <1>12
  <2> QED BY <1>12, <2>1 DEF DriftOK
<1>14. answer.kind = "ok" /\ call.op = "create" => moves'[answer.id] = 0
  <2>1. answer.kind = "ok" /\ call.op = "create" => answer.id \in Ids
    BY <1>1 DEF OwnersOK, TypeOK
  <2> QED BY <1>9, <1>12, <2>1 DEF DriftOK
<1>15. ASSUME ~Raised, NEW c \in Owning  PROVE (AtMost(c) /\ AtLeast(c))'
  <2> DEFINE e == envId[c]
  <2>0. /\ c \in Clients /\ AtMost(c) /\ AtLeast(c) /\ e \in Ids
        /\ moves[e] \in Nat /\ LateIn(abandoned, e) \in Nat /\ LateIn(abandoned', e) \in Nat
        /\ played[c] \in Nat /\ lostSteps[c] \in Nat /\ Ahead(c) \in {0, 1} /\ Ahead(c)' = Ahead(c)
    BY <1>8, <1>11, <1>15, DriftTypes DEF DriftOK
  <2>1. moves'[e] + LateIn(abandoned', e) <= moves[e] + LateIn(abandoned, e)
    <3>1. CASE moves'[e] = moves[e]
      BY <1>8, <2>0, <3>1
    <3>2. CASE r \in StepsIn(e) /\ moves'[e] = moves[e] + 1
      <4>1. LateIn(abandoned', e) <= LateIn(abandoned, e) - 1
        BY <1>8, <3>2
      <4> QED BY <2>0, <3>2, <4>1
    <3>3. CASE moves'[e] = 0
      <4>1. LateIn(abandoned', e) <= LateIn(abandoned, e)
        BY <1>8
      <4> QED BY <2>0, <3>3, <4>1
    <3> QED BY <1>12, <2>0, <3>1, <3>2, <3>3
  <2>2. c \notin lostResets => moves'[e] >= moves[e]
    <3>1. c \notin lostResets => ~(r.op \in Resets /\ r.env = e)
      BY <1>10, <1>15
    <3> QED BY <1>12, <2>0, <3>1
  <2>3. moves'[e] \in Nat
    BY <1>12, <2>0
  <2>4. AtMost(c)'
    <3> HIDE DEF e
    <3>1. moves[e] + LateIn(abandoned, e) <= played[c] + lostSteps[c] + Ahead(c)
      BY <2>0 DEF AtMost, e
    <3>2. moves'[e] + LateIn(abandoned', e) <= played[c] + lostSteps[c] + Ahead(c)
      BY <2>0, <2>1, <2>3, <3>1
    <3> QED BY <1>3, <2>0, <3>2 DEF AtMost, e
  <2>5. AtLeast(c)'
    <3> SUFFICES ASSUME c \notin lostResets
                 PROVE  /\ moves'[e] >= played[c] + Ahead(c)
                        /\ \A k \in DOMAIN abandoned' :
                             abandoned'[k].op \in Resets => abandoned'[k].env # e
      BY <1>3, <2>0 DEF AtLeast
    <3> HIDE DEF e
    <3>1. moves[e] >= played[c] + Ahead(c)
      BY <2>0 DEF AtLeast, e
    <3>2. moves'[e] >= played[c] + Ahead(c)
      BY <2>0, <2>2, <2>3, <3>1
    <3>3. \A k \in DOMAIN abandoned : abandoned[k].op \in Resets => abandoned[k].env # e
      BY <2>0 DEF AtLeast, e
    <3> QED BY <1>7, <3>2, <3>3
  <2> QED BY <2>4, <2>5
<1>16. \A k \in DOMAIN abandoned' : abandoned'[k].arg = 0
  BY <1>7 DEF DriftOK
<1> QED BY <1>3, <1>4, <1>13, <1>14, <1>15, <1>16 DEF DriftOK

\* An attempt that is lost is one of the client that calls.
LEMMA LossDrift ==
  ASSUME ClientIInv, ReplayOK, LeaveBehind
  PROVE  LET c == call.of IN
         /\ \A k \in DOMAIN abandoned' : abandoned'[k].op \in Resets /\ abandoned'[k].env = envId[c]
              => c \in lostResets' \/ \E j \in DOMAIN abandoned : abandoned'[k] = abandoned[j]
         /\ \A k \in DOMAIN abandoned' : abandoned'[k].env # envId[c]
              => \E j \in DOMAIN abandoned : abandoned'[k] = abandoned[j]
         /\ \A k \in DOMAIN abandoned' : abandoned'[k].arg # 0
              => \E j \in DOMAIN abandoned : abandoned'[k] = abandoned[j]
         /\ lostResets \subseteq lostResets' /\ lostResets' \subseteq lostResets \cup {c}
         /\ \A d \in Clients : d # c => lostSteps'[d] = lostSteps[d]
         /\ lostSteps'[c] = IF call.op = "step" THEN lostSteps[c] + 1 ELSE lostSteps[c]
         /\ \A e : /\ LateIn(abandoned, e) \in Nat /\ LateIn(abandoned', e) \in Nat
                   /\ e # envId[c] \/ call.op # "step" \/ answer # NoAnswer
                        => LateIn(abandoned', e) <= LateIn(abandoned, e)
                   /\ LateIn(abandoned', e) <= LateIn(abandoned, e) + 1
<1> DEFINE c == call.of
<1>1. /\ abandoned \in Seq(Requests) /\ c \in Clients /\ call.op \in Ops /\ call.arg = 0
      /\ lostSteps \in [Clients -> Nat] /\ TypeOK
  BY Parts, DriftTypes DEF ReplayOK
<1>2. Request \in Requests /\ Request.op = call.op /\ Request.env = envId[c] /\ Request.arg = 0
  BY <1>1 DEF Request, Requests, TypeOK
<1>3. \A e : Request \in StepsIn(e) => call.op = "step" /\ e = envId[c]
  BY <1>2 DEF StepsIn
<1>4. /\ lostSteps' = IF call.op = "step" THEN [lostSteps EXCEPT ![c] = @ + 1] ELSE lostSteps
      /\ lostResets' = IF call.op \in Resets THEN lostResets \cup {c} ELSE lostResets
      /\ abandoned' = IF answer = NoAnswer THEN Append(abandoned, Request) ELSE abandoned
  BY DEF LeaveBehind, Resets
<1> HIDE DEF c
<1>5. \A k \in DOMAIN abandoned' :
        abandoned'[k] = Request \/ \E j \in DOMAIN abandoned : abandoned'[k] = abandoned[j]
  <2>1. CASE answer = NoAnswer
    BY <1>1, <1>2, <1>4, <2>1, LeftOne
  <2>2. CASE answer # NoAnswer
    BY <1>4, <2>2
  <2> QED BY <2>1, <2>2
<1>6. ASSUME NEW e
      PROVE  /\ LateIn(abandoned, e) \in Nat /\ LateIn(abandoned', e) \in Nat
             /\ e # envId[c] \/ call.op # "step" \/ answer # NoAnswer
                  => LateIn(abandoned', e) <= LateIn(abandoned, e)
             /\ LateIn(abandoned', e) <= LateIn(abandoned, e) + 1
  <2>1. CASE answer = NoAnswer
    <3>1. abandoned' = Append(abandoned, Request)
      BY <1>4, <2>1
    <3> QED BY <1>1, <1>2, <1>3, <2>1, <3>1, LateLeft
  <2>2. CASE answer # NoAnswer
    <3>1. abandoned' = abandoned
      BY <1>4, <2>2
    <3>2. LateIn(abandoned, e) \in Nat
      BY <1>1, LateTypes
    <3> QED BY <3>1, <3>2
  <2> QED BY <2>1, <2>2
<1>7. \A k \in DOMAIN abandoned' : abandoned'[k].op \in Resets /\ abandoned'[k].env = envId[c]
        => c \in lostResets' \/ \E j \in DOMAIN abandoned : abandoned'[k] = abandoned[j]
  BY <1>2, <1>4, <1>5
<1>8. /\ \A d \in Clients : d # c => lostSteps'[d] = lostSteps[d]
      /\ lostSteps'[c] = IF call.op = "step" THEN lostSteps[c] + 1 ELSE lostSteps[c]
  BY <1>1, <1>4
<1> QED BY <1>2, <1>4, <1>5, <1>6, <1>7, <1>8 DEF c

\* An exception leaves the call: of what the others know nothing changes.
LEMMA RaiseDrift ==
  ASSUME ClientIInv, ReplayOK, DriftOK, wait # "idle", RaiseCall, UNCHANGED server,
         \/ abandoned' = abandoned /\ UNCHANGED losses
         \/ LeaveBehind
  PROVE  DriftOK'
<1>1. /\ call.of \in Clients /\ lostSteps \in [Clients -> Nat]
      /\ stage \in [Clients -> {"new", "created", "ready", "closed", "raised"}]
  BY DriftTypes
<1>2. /\ stage' = [stage EXCEPT ![call.of] = "raised"] /\ played' = played /\ call' = call
      /\ answer'.kind = "none" /\ moves' = moves /\ issued' = issued
  BY DEF RaiseCall, server, NoAnswer
<1>3. Raised'
  BY <1>1, <1>2 DEF Raised
<1>4. \A d \in Clients : d # call.of => lostSteps'[d] = lostSteps[d] /\ stage'[d] = stage[d]
  <2>1. CASE UNCHANGED losses
    BY <1>1, <1>2, <2>1 DEF losses
  <2>2. CASE LeaveBehind
    BY <1>1, <1>2, <2>2, LossDrift
  <2> QED BY <2>1, <2>2
<1>5. \A d \in Clients : stage'[d] \in {"new", "created"} => played'[d] = 0 /\ lostSteps'[d] = 0
  <2>1. stage'[call.of] = "raised"
    BY <1>1, <1>2
  <2> QED BY <1>2, <1>4, <2>1 DEF DriftOK
<1>6. \A k \in DOMAIN abandoned' : abandoned'[k].arg = 0
  <2>1. CASE abandoned' = abandoned
    BY <2>1 DEF DriftOK
  <2>2. CASE LeaveBehind
    BY <2>2, LossDrift DEF DriftOK
  <2> QED BY <2>1, <2>2
<1> QED BY <1>2, <1>3, <1>5, <1>6 DEF DriftOK

\* The call is sent again, as it was not sent or as it was lost.
LEMMA RetryDrift ==
  ASSUME ClientIInv, ReplayOK, DriftOK, wait # "idle",
         call' = [call EXCEPT !.attempt = @ + 1], answer' = NoAnswer,
         UNCHANGED client, UNCHANGED server,
         \/ abandoned' = abandoned /\ UNCHANGED losses /\ answer = NoAnswer
         \/ LeaveBehind
  PROVE  DriftOK'
<1>1. /\ TypeOK /\ CallOK /\ OwnersOK /\ issued \in Nat /\ call.of \in Clients /\ call.op \in Ops
      /\ lostSteps \in [Clients -> Nat]
  BY Parts, DriftTypes
<1>2. /\ stage' = stage /\ envId' = envId /\ played' = played /\ moves' = moves
      /\ issued' = issued /\ answer'.kind = "none" /\ call'.of = call.of /\ call'.op = call.op
  BY <1>1 DEF client, server, NoAnswer, TypeOK
<1>3. ~Raised /\ Raised' = Raised /\ Owning' = Owning /\ Owning \subseteq Clients
  BY <1>1, <1>2 DEF CallOK, Raised, Owning
<1>4. \A d \in Clients : Ahead(d)' = 0
  BY <1>2 DEF Ahead
<1>5. CASE abandoned' = abandoned /\ UNCHANGED losses /\ answer = NoAnswer
  <2>1. \A d \in Clients : Ahead(d) = 0
    BY <1>5 DEF Ahead, NoAnswer
  <2> QED BY <1>1, <1>2, <1>4, <1>5, <2>1, DriftRests DEF losses
<1>6. CASE LeaveBehind
  <2> DEFINE c == call.of
  <2>1. \A k \in DOMAIN abandoned' : abandoned'[k].arg = 0
    BY <1>6, LossDrift DEF DriftOK
  <2>2. \A d \in Clients : stage[d] \in {"new", "created"} => played[d] = 0 /\ lostSteps'[d] = 0
    <3>1. call.op = "step" => stage[c] = "ready"
      BY <1>1 DEF CallOK
    <3> QED BY <1>1, <1>6, <3>1, LossDrift DEF DriftOK
  <2>3. ASSUME NEW d \in Owning  PROVE (AtMost(d) /\ AtLeast(d))'
    <3> DEFINE e == envId[d]
    <3>0. /\ d \in Clients /\ AtMost(d) /\ AtLeast(d) /\ e \in Ids /\ e # None
          /\ moves[e] \in Nat /\ played[d] \in Nat /\ lostSteps[d] \in Nat /\ Ahead(d) \in {0, 1}
      BY <1>3, <2>3, DriftTypes DEF DriftOK
    <3>1. /\ LateIn(abandoned, e) \in Nat /\ LateIn(abandoned', e) \in Nat
          /\ LateIn(abandoned', e) <= LateIn(abandoned, e) + 1
          /\ e # envId[c] \/ call.op # "step" \/ answer # NoAnswer
               => LateIn(abandoned', e) <= LateIn(abandoned, e)
      BY <1>6, LossDrift
    <3>2. d # c => e # envId[c]
      BY <1>1, <3>0 DEF OwnersOK
    <3>3. Ahead(d) = 1 => d = c /\ call.op = "step" /\ answer # NoAnswer
      BY DEF Ahead, NoAnswer
    <3>4. lostSteps'[d] = IF d = c /\ call.op = "step" THEN lostSteps[d] + 1 ELSE lostSteps[d]
      BY <1>6, <3>0, LossDrift
    <3>5. LateIn(abandoned', e) + Ahead(d) + lostSteps[d] <= LateIn(abandoned, e) + lostSteps'[d]
      <4>1. CASE d = c /\ call.op = "step" /\ answer # NoAnswer
        BY <3>0, <3>1, <3>4, <4>1
      <4>2. CASE d = c /\ call.op = "step" /\ answer = NoAnswer
        <5>1. Ahead(d) = 0
          BY <3>0, <3>3, <4>2
        <5> QED BY <3>0, <3>1, <3>4, <4>2, <5>1
      <4>3. CASE d # c \/ call.op # "step"
        <5>1. Ahead(d) = 0 /\ lostSteps'[d] = lostSteps[d]
          BY <3>0, <3>3, <3>4, <4>3
        <5>2. LateIn(abandoned', e) <= LateIn(abandoned, e)
          BY <3>1, <3>2, <4>3
        <5> QED BY <3>0, <3>1, <5>1, <5>2
      <4> QED BY <4>1, <4>2, <4>3
    <3>6. lostSteps'[d] \in Nat
      BY <3>0, <3>4
    <3>7. AtMost(d)'
      <4> HIDE DEF e
      <4>1. moves[e] + LateIn(abandoned, e) <= played[d] + lostSteps[d] + Ahead(d)
        BY <3>0 DEF AtMost, e
      <4>2. moves[e] + LateIn(abandoned', e) <= played[d] + lostSteps'[d] + 0
        BY <3>0, <3>1, <3>5, <3>6, <4>1
      <4> QED BY <1>2, <1>4, <3>0, <4>2 DEF AtMost, e
    <3>8. AtLeast(d)'
      <4> SUFFICES ASSUME d \notin lostResets'
                   PROVE  /\ moves[e] >= played[d] + 0
                          /\ \A k \in DOMAIN abandoned' :
                               abandoned'[k].op \in Resets => abandoned'[k].env # e
        BY <1>2, <1>4, <3>0 DEF AtLeast
      <4>1. d \notin lostResets
        BY <1>6, LossDrift
      <4>2. /\ moves[e] >= played[d] + Ahead(d)
            /\ \A k \in DOMAIN abandoned : abandoned[k].op \in Resets => abandoned[k].env # e
        BY <3>0, <4>1 DEF AtLeast
      <4>3. ASSUME NEW k \in DOMAIN abandoned', abandoned'[k].op \in Resets, abandoned'[k].env = e
            PROVE  FALSE
        <5>1. d = c => \E j \in DOMAIN abandoned : abandoned'[k] = abandoned[j]
          BY <1>6, <4>3, LossDrift
        <5>2. d # c => \E j \in DOMAIN abandoned : abandoned'[k] = abandoned[j]
          BY <1>6, <3>2, <4>3, LossDrift
        <5> QED BY <4>2, <4>3, <5>1, <5>2
      <4> HIDE DEF e
      <4>4. moves[e] >= played[d] + 0
        BY <3>0, <4>2 DEF e
      <4> QED BY <4>3, <4>4
    <3> QED BY <3>7, <3>8
  <2> QED BY <1>2, <1>3, <2>1, <2>2, <2>3 DEF DriftOK
<1> QED BY <1>5, <1>6

\* The caller counts the move that the game is ahead.
LEMMA ReceiveDrift ==
  ASSUME ClientIInv, ClientIInv', ReplayOK, DriftOK, Receive
  PROVE  DriftOK'
<1> DEFINE c == call.of
<1>1. /\ TypeOK /\ CallOK /\ OwnersOK /\ c \in Clients /\ call.op \in Ops /\ call.arg = 0
      /\ stage \in [Clients -> {"new", "created", "ready", "closed", "raised"}]
      /\ envId \in [Clients -> Ids \cup {None}] /\ played \in [Clients -> Nat]
      /\ issued \in Nat
  BY Parts, DriftTypes DEF ReplayOK, TypeOK
<1>2. /\ wait = "answer" /\ answer.kind = "ok" /\ answer'.kind = "none"
      /\ moves' = moves /\ issued' = issued /\ call' = call /\ abandoned' = abandoned
      /\ lostSteps' = lostSteps /\ lostResets' = lostResets
      /\ stage' = [stage EXCEPT ![c] = IF call.op = "create" THEN "created"
                                       ELSE IF call.op = "close" THEN "closed" ELSE "ready"]
      /\ envId' = [envId EXCEPT ![c] = IF call.op = "close" THEN None ELSE answer.id]
      /\ played' = [played EXCEPT ![c] = IF call.op = "step" THEN @ + 1 ELSE 0]
  BY <1>1 DEF Receive, server, losses, NoAnswer
<1>3. /\ \A d \in Clients : d # c => /\ stage'[d] = stage[d] /\ envId'[d] = envId[d]
                                     /\ played'[d] = played[d]
      /\ stage'[c] = IF call.op = "create" THEN "created"
                     ELSE IF call.op = "close" THEN "closed" ELSE "ready"
      /\ envId'[c] = IF call.op = "close" THEN None ELSE answer.id
      /\ played'[c] = IF call.op = "step" THEN played[c] + 1 ELSE 0
  BY <1>1, <1>2
<1>4. ~Raised
  BY <1>1, <1>2 DEF CallOK
<1>5. stage[c] = IF call.op = "create" THEN "new"
                 ELSE IF call.op \in Resets THEN "created" ELSE "ready"
  BY <1>1, <1>2 DEF CallOK, Resets
<1>6. \A d \in Clients : stage'[d] \in {"new", "created"} => played'[d] = 0 /\ lostSteps[d] = 0
  <2>1. stage'[c] \in {"new", "created"} => call.op = "create"
    BY <1>3
  <2> QED BY <1>1, <1>3, <1>5, <2>1 DEF DriftOK
<1>7. \A d \in Clients : Ahead(d)' = 0
  BY <1>2 DEF Ahead
<1>8. ASSUME NEW d \in Owning'  PROVE (AtMost(d) /\ AtLeast(d))'
  <2>0. d \in Clients
    BY DEF Owning
  <2>1. CASE d # c
    <3>1. d \in Owning /\ Ahead(d) = 0
      BY <1>3, <2>0, <2>1 DEF Owning, Ahead
    <3>2. AtMost(d) /\ AtLeast(d)
      BY <1>4, <3>1 DEF DriftOK
    <3> QED BY <1>2, <1>3, <1>7, <2>0, <2>1, <3>1, <3>2 DEF AtMost, AtLeast
  <2>2. CASE d = c /\ call.op = "create"
    <3> DEFINE e == answer.id
    <3>1. envId'[d] = e /\ played'[d] = 0 /\ lostSteps'[d] = 0 /\ moves[e] = 0
      BY <1>1, <1>2, <1>3, <1>5, <2>2 DEF DriftOK
    <3>2. \A k \in DOMAIN abandoned : abandoned[k].env # e
      BY <1>1, <1>2, <2>2 DEF OwnersOK
    <3>3. LateIn(abandoned, e) = 0
      BY <3>2, NoneLate
    <3> HIDE DEF e
    <3>4. AtMost(d)'
      BY <1>2, <1>7, <2>0, <3>1, <3>3 DEF AtMost
    <3>5. AtLeast(d)'
      BY <1>2, <1>7, <2>0, <3>1, <3>2 DEF AtLeast
    <3> QED BY <3>4, <3>5
  <2>3. CASE d = c /\ call.op # "create"
    <3>1. call.op \in {"step"} \cup Resets
      BY <1>1, <1>3, <2>3 DEF Owning, Ops, Resets
    <3>2. d \in Owning /\ answer.id = envId[d] /\ envId'[d] = envId[d]
      <4>1. d \in Owning
        BY <1>1, <1>5, <2>3, <3>1 DEF Owning, Resets
      <4>2. answer.id = envId[d]
        BY <1>1, <1>2, <2>3 DEF OwnersOK
      <4>3. call.op # "close"
        BY <3>1 DEF Resets
      <4> QED BY <1>3, <2>3, <4>1, <4>2, <4>3
    <3>3. /\ AtMost(d) /\ AtLeast(d) /\ moves[envId[d]] \in Nat
          /\ LateIn(abandoned, envId[d]) \in Nat /\ played[d] \in Nat /\ lostSteps[d] \in Nat
      BY <1>4, <3>2, DriftTypes DEF DriftOK
    <3>4. played'[d] = played[d] + Ahead(d) /\ Ahead(d) \in {0, 1}
      <4>1. CASE call.op = "step"
        BY <1>2, <1>3, <2>3, <4>1 DEF Ahead
      <4>2. CASE call.op \in Resets
        <5>1. played[d] = 0 /\ played'[d] = 0 /\ Ahead(d) = 0
          BY <1>1, <1>3, <1>5, <2>3, <4>2 DEF DriftOK, Ahead, Resets
        <5> QED BY <5>1
      <4> QED BY <3>1, <4>1, <4>2
    <3> HIDE DEF c
    <3>5. AtMost(d)'
      BY <1>2, <1>7, <2>0, <3>2, <3>3, <3>4 DEF AtMost
    <3>6. AtLeast(d)'
      BY <1>2, <1>7, <2>0, <3>2, <3>3, <3>4 DEF AtLeast
    <3> QED BY <3>5, <3>6
  <2> QED BY <2>1, <2>2, <2>3
<1> QED BY <1>2, <1>6, <1>8 DEF DriftOK

LEMMA DriftKeeps ==
  ASSUME ClientIInv, ClientIInv', ReplayOK, DriftOK, Next
  PROVE  DriftOK'
<1>0. CallOK /\ issued \in Nat
  BY Parts
<1>1. CASE (\E c \in Clients, op \in Ops : Begin(c, op)) \/ Send
  <2>1. /\ UNCHANGED <<moves, stage, envId, played, lostSteps, lostResets, abandoned>>
        /\ issued' = issued /\ answer' = answer /\ wait # "answer"
    BY <1>1 DEF Begin, Send, server, client, losses
  <2>2. answer.kind = "none"
    BY <1>0, <2>1 DEF CallOK, NoAnswer
  <2>3. \A c \in Clients : Ahead(c)' = Ahead(c)
    BY <2>1, <2>2 DEF Ahead
  <2> QED BY <1>0, <2>1, <2>2, <2>3, DriftRests
<1>2. CASE ServeCall \/ ServeAbandoned \/ Receive
  BY <1>2, ServeCallDrift, ServeAbandonedDrift, ReceiveDrift
<1>3. CASE ReceiveError \/ Timeout
  <2>1. wait = "answer" /\ RaiseCall /\ UNCHANGED server
    BY <1>3 DEF ReceiveError, Timeout
  <2>2. (abandoned' = abandoned /\ UNCHANGED losses) \/ LeaveBehind
    BY <1>3 DEF ReceiveError, Timeout
  <2> QED BY <2>1, <2>2, RaiseDrift
<1>4. CASE Refuse \/ Break
  <2>1. /\ wait # "idle" /\ TryAgain /\ UNCHANGED server
        /\ \/ abandoned' = abandoned /\ UNCHANGED losses /\ answer = NoAnswer
           \/ LeaveBehind
    BY <1>0, <1>4 DEF Refuse, Break, CallOK
  <2>2. CASE RaiseCall
    BY <2>1, <2>2, RaiseDrift
  <2>3. CASE ~RaiseCall
    <3>1. call' = [call EXCEPT !.attempt = @ + 1] /\ answer' = NoAnswer /\ UNCHANGED client
      BY <2>1, <2>3 DEF TryAgain
    <3> QED BY <2>1, <3>1, RetryDrift
  <2> QED BY <2>2, <2>3
<1> QED BY <1>1, <1>2, <1>3, <1>4 DEF Next

LEMMA DriftInvariant == Spec => []DriftOK
<1>1. Init => DriftOK
  <2> SUFFICES ASSUME Init PROVE DriftOK
    OBVIOUS
  <2>1. DOMAIN abandoned = {} /\ answer.kind = "none" /\ Owning = {}
    BY DEF Init, NoAnswer, Owning
  <2> QED BY <2>1 DEF Init, DriftOK
<1>2. ClientIInv /\ ClientIInv' /\ ReplayOK /\ DriftOK /\ [Next]_vars => DriftOK'
  <2> SUFFICES ASSUME ClientIInv, ClientIInv', ReplayOK, DriftOK, [Next]_vars  PROVE DriftOK'
    OBVIOUS
  <2>1. CASE Next
    BY <2>1, DriftKeeps
  <2>2. CASE UNCHANGED vars
    <3>1. /\ UNCHANGED <<moves, stage, envId, played, lostSteps, lostResets, abandoned>>
          /\ issued' = issued /\ answer' = answer /\ call' = call
      BY <2>2 DEF vars, server, client, losses
    <3>2. \A c \in Clients : Ahead(c)' = Ahead(c)
      BY <3>1 DEF Ahead
    <3>3. issued \in Nat /\ (answer.kind = "ok" /\ call.op = "create" => moves[answer.id] = 0)
      BY Parts DEF DriftOK
    <3> QED BY <3>1, <3>2, <3>3, DriftRests
  <2> QED BY <2>1, <2>2
<1> QED BY <1>1, <1>2, ClientInvariant, Replays, PTL DEF Spec

\* However often _request sends a call again, and whenever the server serves
\* what was lost: a game is ahead of its client by no more than the steps lost,
\* and behind it only after a reset was lost.
THEOREM OneMovePerLoss == Spec => []GameInStep
<1>1. ClientIInv /\ DriftOK => GameInStep
  <2> SUFFICES ASSUME ClientIInv, DriftOK, wait = "idle", ~Raised,
                      NEW c \in Clients, stage[c] = "ready"
               PROVE  /\ moves[envId[c]] <= played[c] + lostSteps[c]
                      /\ c \notin lostResets => moves[envId[c]] >= played[c]
    BY DEF GameInStep
  <2>1. c \in Owning /\ Ahead(c) = 0
    BY Parts DEF CallOK, NoAnswer, Owning, Ahead
  <2>2. /\ AtMost(c) /\ AtLeast(c) /\ moves[envId[c]] \in Nat
        /\ LateIn(abandoned, envId[c]) \in Nat /\ played[c] \in Nat /\ lostSteps[c] \in Nat
    BY <2>1, DriftTypes DEF DriftOK
  <2>3. moves[envId[c]] <= played[c] + lostSteps[c]
    BY <2>1, <2>2 DEF AtMost
  <2>4. c \notin lostResets => moves[envId[c]] >= played[c]
    BY <2>1, <2>2 DEF AtLeast
  <2> QED BY <2>3, <2>4
<1> QED BY <1>1, ClientInvariant, DriftInvariant, PTL

\* What SimulatorsStartAtGame, which a run refutes, claims is true before the
\* first move of a game and never after: get_key_stats answers an empty
\* history, and what reset_state replays of it is nothing.
THEOREM NothingIsReplayed == Spec => SimulatorsStartAgain
<1>1. ASSUME ClientIInv, ClientIInv', ReplayOK, DriftOK, DriftOK', Next,
             NEW s \in Sims, stage[s] = "created", stage'[s] = "ready"
      PROVE  /\ moves'[envId'[s]] = 0
             /\ moves'[envId'[Game]] <= played[Game] + lostSteps[Game]
             /\ Game \notin lostResets => moves'[envId'[Game]] >= played[Game]
  <2>0. /\ TypeOK /\ CallOK /\ Game \in Clients /\ s \in Clients /\ s # Game
        /\ call.of \in Clients
        /\ stage \in [Clients -> {"new", "created", "ready", "closed", "raised"}]
        /\ played \in [Clients -> Nat]
    BY <1>1, EnvClientAssumption DEF ClientIInv, TypeOK, Clients
  <2>1. Receive
    <3>1. ASSUME RaiseCall  PROVE stage'[s] # "ready"
      BY <1>1, <2>0, <3>1 DEF RaiseCall
    <3>2. ASSUME TryAgain  PROVE stage'[s] # "ready"
      BY <1>1, <3>1, <3>2 DEF TryAgain, client
    <3>3. ~(\E c \in Clients, op \in Ops : Begin(c, op)) /\ ~Send /\ ~ServeCall /\ ~ServeAbandoned
      BY <1>1 DEF Begin, Send, ServeCall, ServeAbandoned, client
    <3>4. ~ReceiveError /\ ~Timeout /\ ~Refuse /\ ~Break
      BY <1>1, <3>1, <3>2 DEF ReceiveError, Timeout, Refuse, Break
    <3> QED BY <1>1, <3>3, <3>4 DEF Next
  <2>2. /\ wait # "idle" /\ answer'.kind = "none"
        /\ lostSteps' = lostSteps /\ lostResets' = lostResets
        /\ stage' = [stage EXCEPT ![call.of] =
             IF call.op = "create" THEN "created" ELSE IF call.op = "close" THEN "closed" ELSE "ready"]
        /\ played' = [played EXCEPT ![call.of] =
             IF call.op = "step" THEN @ + 1 ELSE call.arg]
    BY <2>1 DEF Receive, losses, NoAnswer
  <2>3. call.of = s
    BY <1>1, <2>0, <2>2
  <2>4. call.op \in {"reset", "reset_state"}
    BY <1>1, <2>0, <2>2, <2>3 DEF CallOK
  <2>5. call.arg = 0 /\ stage[Game] = "ready" /\ ~Raised
    <3>1. ~Raised
      BY <2>0, <2>2 DEF CallOK
    <3> QED BY <1>1, <2>0, <2>2, <2>3, <3>1 DEF ReplayOK
  <2>6. played'[s] = 0 /\ played'[Game] = played[Game] /\ stage'[Game] = "ready" /\ lostSteps[s] = 0
    BY <1>1, <2>0, <2>2, <2>3, <2>4, <2>5 DEF DriftOK
  <2>7. ~Raised' /\ s \in Owning' /\ Game \in Owning' /\ Ahead(s)' = 0 /\ Ahead(Game)' = 0
    <3>1. ~Raised'
      BY <1>1, <2>0, <2>2, <2>3, <2>4, <2>5 DEF Raised
    <3> QED BY <1>1, <2>0, <2>2, <2>6, <3>1 DEF Owning, Ahead
  <2>8. \A c \in Owning' : /\ AtMost(c)' /\ AtLeast(c)' /\ moves'[envId'[c]] \in Nat
                           /\ LateIn(abandoned', envId'[c]) \in Nat
                           /\ played'[c] \in Nat /\ lostSteps'[c] \in Nat
    <3>1. Counted'
      BY <1>1, CountsTyped, PTL
    <3> QED BY <1>1, <2>7, <3>1 DEF DriftOK, Counted
  <2>9. moves'[envId'[s]] = 0
    <3>1. moves'[envId'[s]] + LateIn(abandoned', envId'[s])
            <= played'[s] + lostSteps'[s] + Ahead(s)'
      BY <2>7, <2>8 DEF AtMost
    <3>2. played'[s] + lostSteps'[s] + Ahead(s)' = 0
      BY <2>2, <2>6, <2>7
    <3>3. moves'[envId'[s]] \in Nat /\ LateIn(abandoned', envId'[s]) \in Nat
      BY <2>7, <2>8
    <3> QED BY <3>1, <3>2, <3>3
  <2>10. moves'[envId'[Game]] <= played[Game] + lostSteps[Game]
    BY <2>2, <2>6, <2>7, <2>8 DEF AtMost
  <2>11. Game \notin lostResets => moves'[envId'[Game]] >= played[Game]
    BY <2>2, <2>6, <2>7, <2>8 DEF AtLeast
  <2> QED BY <2>9, <2>10, <2>11
<1>2. ClientIInv /\ ClientIInv' /\ ReplayOK /\ DriftOK /\ DriftOK' /\ [Next]_vars
        => [\A s \in Sims : stage[s] = "created" /\ stage'[s] = "ready" =>
              /\ moves'[envId'[s]] = 0
              /\ moves'[envId'[Game]] <= played[Game] + lostSteps[Game]
              /\ Game \notin lostResets => moves'[envId'[Game]] >= played[Game]]_vars
  BY <1>1
<1> QED BY <1>2, ClientInvariant, Replays, DriftInvariant, PTL DEF Spec, SimulatorsStartAgain
=============================================================================
