--------------------------- MODULE LoopProofs -----------------------------
(***************************************************************************)
(* Theorems about the lists the agent loops keep of one episode, for any   *)
(* configuration and any length of its texts: the local planner, the       *)
(* policy-centric planner and the inference loop.                          *)
(***************************************************************************)
EXTENDS LocalPlanner, PolicyStreams, InferLoops, ListProofs

-----------------------------------------------------------------------------
(* The local planner: messages and their texts.                            *)

LEMMA SplitLast ==
  ASSUME NEW U, NEW s \in Seq(U), Len(s) > 0
  PROVE  /\ Front(s) \in Seq(U) /\ Last(s) \in U /\ s = Append(Front(s), Last(s))
         /\ Len(Front(s)) = Len(s) - 1 /\ \A i \in 1 .. Len(s) - 1 : Front(s)[i] = s[i]
<1>1. PICK n \in Nat \ {0} : n = Len(s)
  BY LenProperties
<1>2. \A i \in 1 .. n : s[i] \in U
  BY <1>1, ElementOfSeq
<1>3. /\ Front(s) \in Seq(U) /\ Len(Front(s)) = n - 1
      /\ \A i \in 1 .. n - 1 : Front(s)[i] = s[i]
  <2>1. \A i \in 1 .. n - 1 : s[i] \in U
    BY <1>2
  <2>2. /\ SubSeq(s, 1, n - 1) \in Seq(U)
        /\ Len(SubSeq(s, 1, n - 1)) = IF 1 <= n - 1 THEN (n - 1) - 1 + 1 ELSE 0
        /\ \A i \in 1 .. (n - 1) - 1 + 1 : SubSeq(s, 1, n - 1)[i] = s[1 + i - 1]
    BY <2>1, SubSeqProperties
  <2>3. Front(s) = SubSeq(s, 1, n - 1)
    BY <1>1 DEF Front
  <2> QED BY <2>2, <2>3
<1>4. Last(s) = s[n] /\ Last(s) \in U
  BY <1>1, <1>2 DEF Last
<1>5. /\ Append(Front(s), Last(s)) \in Seq(U) /\ Len(Append(Front(s), Last(s))) = Len(Front(s)) + 1
      /\ \A i \in 1 .. Len(Front(s)) : Append(Front(s), Last(s))[i] = Front(s)[i]
      /\ Append(Front(s), Last(s))[Len(Front(s)) + 1] = Last(s)
  BY <1>3, <1>4, AppendProperties
<1>6. s = Append(Front(s), Last(s))
  <2>1. Len(Append(Front(s), Last(s))) = n
    BY <1>3, <1>5
  <2>2. \A i \in 1 .. n : s[i] = Append(Front(s), Last(s))[i]
    <3> TAKE i \in 1 .. n
    <3>1. CASE i = n
      BY <1>3, <1>4, <1>5, <3>1
    <3>2. CASE i # n
      BY <1>3, <1>5, <3>2
    <3> QED BY <3>1, <3>2
  <2> QED BY <1>1, <1>5, <2>1, <2>2, SeqEqual
<1> QED BY <1>1, <1>3, <1>4, <1>6

LEMMA FrontOfAppend ==
  ASSUME NEW U, NEW s \in Seq(U), NEW e \in U
  PROVE  Front(Append(s, e)) = s /\ Last(Append(s, e)) = e
<1>1. /\ Append(s, e) \in Seq(U) /\ Len(Append(s, e)) = Len(s) + 1 /\ Len(s) \in Nat
      /\ \A i \in 1 .. Len(s) : Append(s, e)[i] = s[i]
      /\ Append(s, e)[Len(s) + 1] = e
  BY AppendProperties, LenProperties
<1>2. /\ Front(Append(s, e)) \in Seq(U) /\ Last(Append(s, e)) = e
      /\ Len(Front(Append(s, e))) = Len(s)
      /\ \A i \in 1 .. Len(s) : Front(Append(s, e))[i] = s[i]
  <2>1. /\ Front(Append(s, e)) \in Seq(U)
        /\ Len(Front(Append(s, e))) = Len(Append(s, e)) - 1
        /\ \A i \in 1 .. Len(Append(s, e)) - 1 : Front(Append(s, e))[i] = Append(s, e)[i]
    <3>1. Len(Append(s, e)) > 0
      BY <1>1
    <3> DEFINE a == Append(s, e)
    <3> HIDE DEF a
    <3>2. a \in Seq(U) /\ Len(a) > 0
      BY <1>1, <3>1 DEF a
    <3>3. /\ Front(a) \in Seq(U) /\ Len(Front(a)) = Len(a) - 1
          /\ \A i \in 1 .. Len(a) - 1 : Front(a)[i] = a[i]
      BY <3>2, SplitLast
    <3> QED BY <3>3 DEF a
  <2>2. Last(Append(s, e)) = e
    BY <1>1 DEF Last
  <2> QED BY <1>1, <2>1, <2>2
<1> QED BY <1>2, SeqEqual

LEMMA TokensAre ==
  /\ TextToken \subseteq Token
  /\ \A t \in TextToken : t.what \notin Roles
  /\ \A t \in Token : t.what \in Roles => t \notin TextToken
BY DEF TextToken, Token, TokenOf, TextOfLoop, WrittenByModel, Roles

LEMMA RoleTokenIs ==
  ASSUME NEW role \in Roles
  PROVE  /\ RoleToken(role) \in Token /\ RoleToken(role).what = role
         /\ role \notin WrittenByModel /\ RoleToken(role) \notin TextToken
<1>1. RoleToken(role) \in Token /\ RoleToken(role).what = role
  BY DEF RoleToken, Token, TokenOf
<1> QED BY <1>1, TokensAre DEF Roles, WrittenByModel

LEMMA TextsAre ==
  ASSUME NEW said \in Seq(Message)
  PROVE  /\ [i \in 1 .. Len(said) |-> said[i].texts] \in Seq(Seq(TextToken))
         /\ Texts(said) \in Seq(TextToken)
<1>0. Len(said) \in Nat /\ \A i \in 1 .. Len(said) : said[i] \in Message
  BY LenProperties, ElementOfSeq
<1>1. \A i \in 1 .. Len(said) : said[i].texts \in Seq(TextToken)
  BY <1>0 DEF Message
<1>2. [i \in 1 .. Len(said) |-> said[i].texts] \in Seq(Seq(TextToken))
  BY <1>0, <1>1, IsASeq
<1> QED BY <1>2, JoinedType DEF Texts

LEMMA TextsAppend ==
  ASSUME NEW said \in Seq(Message), NEW m \in Message
  PROVE  Texts(Append(said, m)) = Texts(said) \o m.texts
<1> DEFINE n == Len(said)  x == Append(said, m)
           a == [i \in 1 .. n |-> said[i].texts]  b == [i \in 1 .. Len(x) |-> x[i].texts]
<1>1. /\ n \in Nat /\ x \in Seq(Message) /\ Len(x) = n + 1
      /\ \A i \in 1 .. n : x[i] = said[i]
      /\ x[n + 1] = m
  BY AppendProperties, LenProperties
<1>2. a \in Seq(Seq(TextToken)) /\ m.texts \in Seq(TextToken) /\ Len(a) = n
  <2>1. a \in Seq(Seq(TextToken))
    BY TextsAre
  <2>2. m.texts \in Seq(TextToken)
    BY DEF Message
  <2> QED BY <1>1, <2>1, <2>2
<1>3. b \in Seq(Seq(TextToken)) /\ Len(b) = n + 1
  <2> HIDE DEF x
  <2>1. b \in Seq(Seq(TextToken))
    BY <1>1, TextsAre
  <2> QED BY <1>1, <2>1
<1>4. b = Append(a, m.texts)
  <2>1. /\ Append(a, m.texts) \in Seq(Seq(TextToken)) /\ Len(Append(a, m.texts)) = n + 1
        /\ \A i \in 1 .. n : Append(a, m.texts)[i] = a[i]
        /\ Append(a, m.texts)[n + 1] = m.texts
    <3> HIDE DEF a
    <3>1. /\ Append(a, m.texts) \in Seq(Seq(TextToken)) /\ Len(Append(a, m.texts)) = Len(a) + 1
          /\ \A i \in 1 .. Len(a) : Append(a, m.texts)[i] = a[i]
          /\ Append(a, m.texts)[Len(a) + 1] = m.texts
      BY <1>2, AppendProperties
    <3> QED BY <1>2, <3>1
  <2>2. \A i \in 1 .. n + 1 : b[i] = Append(a, m.texts)[i]
    <3> TAKE i \in 1 .. n + 1
    <3>1. b[i] = x[i].texts
      BY <1>1
    <3>2. CASE i = n + 1
      <4> HIDE DEF b, a, x
      <4> QED BY <1>1, <2>1, <3>1, <3>2
    <3>3. CASE i \in 1 .. n
      <4>1. a[i] = said[i].texts
        BY <3>3
      <4> HIDE DEF b, a, x
      <4> QED BY <1>1, <2>1, <3>1, <3>3, <4>1
    <3> QED BY <1>1, <3>2, <3>3
  <2> HIDE DEF a, b
  <2> QED BY <1>3, <2>1, <2>2, SeqEqual
<1>5. Joined(b) = Joined(a) \o m.texts
  <2> HIDE DEF a, b
  <2> QED BY <1>2, <1>4, JoinedAppend
<1> QED BY <1>5 DEF Texts

LEMMA TextsSplit ==
  ASSUME NEW said \in Seq(Message), Len(said) > 0
  PROVE  Texts(said) = Texts(Front(said)) \o Last(said).texts
<1>1. Front(said) \in Seq(Message) /\ Last(said) \in Message /\ said = Append(Front(said), Last(said))
  BY SplitLast
<1> QED BY <1>1, TextsAppend

\* No text that the model is told is one that it wrote.
Quiet(said) ==
  \A i \in 1 .. Len(said) : said[i].role # "assistant" =>
    \A j \in 1 .. Len(said[i].texts) : said[i].texts[j].what \notin WrittenByModel

LEMMA QuietAppend ==
  ASSUME NEW said \in Seq(Message), Quiet(said), NEW m \in Message,
         m.role = "assistant" \/ \A j \in 1 .. Len(m.texts) : m.texts[j].what \notin WrittenByModel
  PROVE  Quiet(Append(said, m))
<1>1. /\ Len(said) \in Nat /\ Len(Append(said, m)) = Len(said) + 1
      /\ \A i \in 1 .. Len(said) : Append(said, m)[i] = said[i]
      /\ Append(said, m)[Len(said) + 1] = m
  BY AppendProperties, LenProperties
<1>2. \A i \in 1 .. Len(said) + 1 : i \in 1 .. Len(said) \/ i = Len(said) + 1
  BY <1>1
<1> QED BY <1>1, <1>2 DEF Quiet

LEMMA AddUserIs ==
  ASSUME NEW said \in Seq(Message), Len(said) > 0, NEW text \in TextToken
  PROVE  /\ AddUser(said, text) \in Seq(Message) /\ Len(AddUser(said, text)) >= Len(said)
         /\ Last(AddUser(said, text)).role = "user"
         /\ Texts(AddUser(said, text)) = Append(Texts(said), text)
         /\ Last(said).role = "user" => /\ Front(AddUser(said, text)) = Front(said)
                                        /\ Len(AddUser(said, text)) = Len(said)
         /\ Last(said).role # "user" => /\ Front(AddUser(said, text)) = said
                                        /\ Len(AddUser(said, text)) = Len(said) + 1
         /\ Quiet(said) /\ text.what \notin WrittenByModel => Quiet(AddUser(said, text))
<1> DEFINE x == AddUser(said, text)
<1>1. /\ Front(said) \in Seq(Message) /\ Last(said) \in Message /\ said = Append(Front(said), Last(said))
      /\ Len(Front(said)) = Len(said) - 1 /\ \A i \in 1 .. Len(said) - 1 : Front(said)[i] = said[i]
  BY SplitLast
<1>2. PICK n \in Nat \ {0} : n = Len(said)
  BY LenProperties
<1>3. Texts(said) \in Seq(TextToken) /\ Texts(Front(said)) \in Seq(TextToken)
      /\ Append(Texts(said), text) = Texts(said) \o <<text>> /\ <<text>> \in Seq(TextToken)
  <2>1. Texts(said) \in Seq(TextToken) /\ Texts(Front(said)) \in Seq(TextToken)
    BY <1>1, TextsAre
  <2> QED BY <2>1, AppendIsConcat
<1>4. CASE Last(said).role = "user"
  <2> DEFINE m == [Last(said) EXCEPT !.texts = Append(@, text)]
  <2>1. /\ Last(said).texts \in Seq(TextToken) /\ m \in Message /\ m.role = "user"
        /\ m.texts = Append(Last(said).texts, text)
        /\ Append(Last(said).texts, text) = Last(said).texts \o <<text>>
    <3>1. Last(said).texts \in Seq(TextToken) /\ Append(Last(said).texts, text) \in Seq(TextToken)
      BY <1>1, AppendProperties DEF Message
    <3>2. m \in Message /\ m.role = "user" /\ m.texts = Append(Last(said).texts, text)
      BY <1>1, <1>4, <3>1 DEF Message
    <3> QED BY <3>1, <3>2, AppendIsConcat
  <2>2. x = [said EXCEPT ![n] = m]
    BY <1>2, <1>4 DEF AddUser, Last
  <2> HIDE DEF m
  <2>3. /\ x \in Seq(Message) /\ Len(x) = n /\ x[n] = m
        /\ \A i \in 1 .. n - 1 : x[i] = said[i]
    <3>1. n \in 1 .. Len(said)
      BY <1>2
    <3>2. /\ [said EXCEPT ![n] = m] \in Seq(Message) /\ Len([said EXCEPT ![n] = m]) = Len(said)
          /\ \A j \in 1 .. Len(said) : [said EXCEPT ![n] = m][j] = IF j = n THEN m ELSE said[j]
      BY <2>1, <3>1, ExceptSeq
    <3> HIDE DEF x
    <3> QED BY <1>2, <2>2, <3>2
  <2> HIDE DEF x
  <2>4. /\ Front(x) \in Seq(Message) /\ Last(x) = m /\ x = Append(Front(x), Last(x))
        /\ Len(Front(x)) = n - 1 /\ \A i \in 1 .. n - 1 : Front(x)[i] = said[i]
    <3>1. /\ Front(x) \in Seq(Message) /\ x = Append(Front(x), Last(x))
          /\ Len(Front(x)) = Len(x) - 1 /\ \A i \in 1 .. Len(x) - 1 : Front(x)[i] = x[i]
      BY <1>2, <2>3, SplitLast
    <3>2. Last(x) = m
      BY <2>3 DEF Last
    <3> QED BY <2>3, <3>1, <3>2
  <2>5. Front(x) = Front(said)
    BY <1>1, <1>2, <2>4, SeqEqual
  <2>6. Texts(x) = Texts(said) \o <<text>>
    <3>1. Texts(x) = Texts(Front(said)) \o (Last(said).texts \o <<text>>)
      BY <2>1, <2>4, <2>5, TextsAppend
    <3>2. Texts(said) = Texts(Front(said)) \o Last(said).texts
      BY TextsSplit
    <3>3. Texts(Front(said)) \o (Last(said).texts \o <<text>>)
            = (Texts(Front(said)) \o Last(said).texts) \o <<text>>
      <4> DEFINE a == Texts(Front(said))  b == Last(said).texts  c == <<text>>
      <4>1. a \in Seq(TextToken) /\ b \in Seq(TextToken) /\ c \in Seq(TextToken)
        BY <1>3, <2>1
      <4> HIDE DEF a, b, c
      <4>2. Regroups(a, b, c)
        BY ONLY <4>1, Regrouping, Zenon
      <4> QED BY ONLY <4>2 DEF Regroups, a, b, c
    <3> QED BY <3>1, <3>2, <3>3
  <2>7. ASSUME Quiet(said), text.what \notin WrittenByModel PROVE Quiet(x)
    <3>1. Quiet(Front(said))
      BY <1>1, <1>2, <2>7 DEF Quiet
    <3>2. \A j \in 1 .. Len(Last(said).texts) : Last(said).texts[j].what \notin WrittenByModel
      BY <1>2, <1>4, <2>7 DEF Quiet, Last
    <3>3. \A j \in 1 .. Len(m.texts) : m.texts[j].what \notin WrittenByModel
      <4>1. /\ Len(Last(said).texts) \in Nat /\ Len(m.texts) = Len(Last(said).texts) + 1
            /\ \A j \in 1 .. Len(Last(said).texts) : m.texts[j] = Last(said).texts[j]
            /\ m.texts[Len(Last(said).texts) + 1] = text
        BY <2>1, AppendProperties, LenProperties
      <4>2. \A j \in 1 .. Len(m.texts) : j \in 1 .. Len(Last(said).texts) \/ j = Len(Last(said).texts) + 1
        BY <4>1
      <4> QED BY <2>7, <3>2, <4>1, <4>2
    <3> QED BY <1>1, <2>1, <2>4, <2>5, <3>1, <3>3, QuietAppend
  <2> QED BY <1>2, <1>3, <1>4, <2>1, <2>3, <2>4, <2>5, <2>6, <2>7 DEF x
<1>5. CASE Last(said).role # "user"
  <2> DEFINE m == [role |-> "user", texts |-> <<text>>]
  <2>1. m \in Message /\ m.role = "user" /\ m.texts = <<text>>
    BY <1>3 DEF Message, Roles
  <2>2. x = Append(said, m)
    BY <1>5 DEF AddUser
  <2> HIDE DEF m, x
  <2>3. x \in Seq(Message) /\ Len(x) = n + 1 /\ Front(x) = said /\ Last(x) = m
    BY <1>2, <2>1, <2>2, AppendProperties, FrontOfAppend
  <2>4. Texts(x) = Texts(said) \o <<text>>
    BY <2>1, <2>2, TextsAppend
  <2>5. text.what \notin WrittenByModel => \A j \in 1 .. Len(m.texts) : m.texts[j].what \notin WrittenByModel
    BY <2>1
  <2>6. Quiet(said) /\ text.what \notin WrittenByModel => Quiet(x)
    BY <2>1, <2>2, <2>5, QuietAppend
  <2> QED BY <1>2, <1>3, <1>5, <2>1, <2>3, <2>4, <2>6 DEF x
<1> QED BY <1>4, <1>5

-----------------------------------------------------------------------------
\* What the lists of tokens are after each kind of addition.
LEMMA ZerosAre ==
  ASSUME NEW n \in Nat
  PROVE  /\ Zeros(n) \in Seq(Marks) /\ Zeros(n) \in Seq(Int) /\ Len(Zeros(n)) = n
         /\ \A i \in 1 .. n : Zeros(n)[i] = 0
BY DEF Zeros, Marks

\* Lists that fit, put behind lists that fit.
Extended(x, t, text, marks, gains) ==
  x.ids = t.ids \o text /\ x.mask = t.mask \o marks /\ x.rewards = t.rewards \o gains

SameMarks(text, marks) ==
  /\ Len(marks) = Len(text)
  /\ \A i \in 1 .. Len(text) : (text[i].what \in WrittenByModel) <=> (marks[i] = 1)

LEMMA FitsJoined ==
  ASSUME NEW k \in Nat, NEW t, Fits(t, k), NEW text \in Seq(Token), NEW marks \in Seq(Marks),
         NEW gains \in Seq(Int), SameMarks(text, marks), Len(gains) = Len(text),
         NEW x, Extended(x, t, text, marks, gains)
  PROVE  /\ Fits(x, k) /\ Len(x.mask) = Len(t.mask) + Len(text)
         /\ Sum(x.rewards) = Sum(t.rewards) + Sum(gains)
<1>0. /\ x.ids = t.ids \o text /\ x.mask = t.mask \o marks /\ x.rewards = t.rewards \o gains
      /\ Len(marks) = Len(text)
      /\ \A i \in 1 .. Len(text) : (text[i].what \in WrittenByModel) <=> (marks[i] = 1)
  BY DEF Extended, SameMarks
<1>1. PICK l \in Nat : l = Len(text)
  BY LenProperties
<1>2. PICK n \in Nat : n = Len(t.mask)
  BY LenProperties DEF Fits
<1>3. /\ t.ids \in Seq(Token) /\ t.mask \in Seq(Marks) /\ t.rewards \in Seq(Int)
      /\ Len(t.ids) = n + k /\ Len(t.rewards) = n
      /\ \A i \in 1 .. n : (t.ids[i + k].what \in WrittenByModel) <=> (t.mask[i] = 1)
  BY <1>2 DEF Fits
<1>5. /\ x.ids \in Seq(Token) /\ Len(x.ids) = (n + k) + l
      /\ \A i \in 1 .. (n + k) + l : x.ids[i] = IF i <= n + k THEN t.ids[i] ELSE text[i - (n + k)]
  <2>1. /\ t.ids \o text \in Seq(Token) /\ Len(t.ids \o text) = Len(t.ids) + Len(text)
        /\ \A i \in 1 .. Len(t.ids) + Len(text) :
             (t.ids \o text)[i] = IF i <= Len(t.ids) THEN t.ids[i] ELSE text[i - Len(t.ids)]
    BY <1>3, ConcatProperties
  <2> QED BY <1>0, <1>1, <1>3, <2>1
<1>6. /\ x.mask \in Seq(Marks) /\ Len(x.mask) = n + l
      /\ \A i \in 1 .. n + l : x.mask[i] = IF i <= n THEN t.mask[i] ELSE marks[i - n]
  <2>1. t.mask \in Seq(Marks)
    BY <1>3
  <2>2. /\ t.mask \o marks \in Seq(Marks) /\ Len(t.mask \o marks) = Len(t.mask) + Len(marks)
        /\ \A i \in 1 .. Len(t.mask) + Len(marks) :
             (t.mask \o marks)[i] = IF i <= Len(t.mask) THEN t.mask[i] ELSE marks[i - Len(t.mask)]
    BY ONLY <2>1, marks \in Seq(Marks), ConcatProperties
  <2> QED BY <1>0, <1>1, <1>2, <2>2
<1>7. x.rewards \in Seq(Int) /\ Len(x.rewards) = n + l
  <2>1. /\ t.rewards \o gains \in Seq(Int)
        /\ Len(t.rewards \o gains) = Len(t.rewards) + Len(gains)
    BY <1>3, ConcatProperties
  <2> QED BY <1>0, <1>1, <1>3, <2>1
<1>8. Sum(x.rewards) = Sum(t.rewards) + Sum(gains)
  <2>1. t.rewards \in Seq(Int) /\ x.rewards = t.rewards \o gains
    BY <1>0, <1>3
  <2> QED BY <2>1, SumJoined
<1>9. ASSUME NEW i \in 1 .. n + l
      PROVE  (x.ids[i + k].what \in WrittenByModel) <=> (x.mask[i] = 1)
  <2>1. CASE i <= n
    <3>1. i + k \in 1 .. (n + k) + l /\ i + k <= n + k /\ i \in 1 .. n
      BY <2>1
    <3>2. x.ids[i + k] = t.ids[i + k] /\ x.mask[i] = t.mask[i]
      BY <1>5, <1>6, <2>1, <3>1
    <3>3. (t.ids[i + k].what \in WrittenByModel) <=> (t.mask[i] = 1)
      BY <1>3, <3>1
    <3> QED BY <3>2, <3>3
  <2>2. CASE ~(i <= n)
    <3>1. i + k \in 1 .. (n + k) + l /\ ~(i + k <= n + k) /\ (i + k) - (n + k) = i - n /\ i - n \in 1 .. l
      BY <2>2
    <3>2. x.ids[i + k] = text[i - n] /\ x.mask[i] = marks[i - n]
      BY <1>5, <1>6, <2>2, <3>1
    <3>3. (text[i - n].what \in WrittenByModel) <=> (marks[i - n] = 1)
      BY <1>0, <1>1, <3>1
    <3> QED BY <3>2, <3>3
  <2> QED BY <2>1, <2>2
<1>10. \A i \in 1 .. n + l : (x.ids[i + k].what \in WrittenByModel) <=> (x.mask[i] = 1)
  BY <1>9
<1>11. Fits(x, k)
  <2>1. /\ x.ids \in Seq(Token) /\ x.mask \in Seq(Marks) /\ x.rewards \in Seq(Int)
        /\ Len(x.ids) = Len(x.mask) + k /\ Len(x.rewards) = Len(x.mask)
    BY <1>5, <1>6, <1>7
  <2>2. \A i \in 1 .. Len(x.mask) : (x.ids[i + k].what \in WrittenByModel) <=> (x.mask[i] = 1)
    BY <1>6, <1>10
  <2> QED BY <2>1, <2>2 DEF Fits
<1> QED BY <1>1, <1>2, <1>6, <1>8, <1>11

LEMMA FitsUnmasked ==
  ASSUME NEW k \in Nat, NEW t, Fits(t, k), NEW text \in Seq(Token),
         \A i \in 1 .. Len(text) : text[i].what \notin WrittenByModel,
         NEW x, x.ids = t.ids \o text, x.mask = t.mask \o Zeros(Len(text)),
         x.rewards = t.rewards \o Zeros(Len(text))
  PROVE  /\ Fits(x, k) /\ Len(x.mask) = Len(t.mask) + Len(text)
         /\ Sum(x.rewards) = Sum(t.rewards)
<1>1. PICK l \in Nat : l = Len(text)
  BY LenProperties
<1>2. PICK zeros : zeros = Zeros(l)
  OBVIOUS
<1>3. /\ zeros \in Seq(Marks) /\ zeros \in Seq(Int) /\ Len(zeros) = l
      /\ \A i \in 1 .. l : zeros[i] = 0
  BY <1>1, <1>2, ZerosAre
<1>4. Sum(zeros) = 0 /\ Sum(t.rewards) \in Int
  <2>1. t.rewards \in Seq(Int)
    BY DEF Fits
  <2> QED BY <1>1, <1>2, <2>1, SumZeros, SumJoined
<1>5. SameMarks(text, zeros)
  BY <1>1, <1>3 DEF SameMarks
<1>6. Extended(x, t, text, zeros, zeros)
  BY <1>1, <1>2 DEF Extended
<1>7. Len(zeros) = Len(text)
  BY <1>1, <1>3
<1>8. /\ Fits(x, k) /\ Len(x.mask) = Len(t.mask) + Len(text)
      /\ Sum(x.rewards) = Sum(t.rewards) + Sum(zeros)
  <2>1. /\ Fits(t, k) /\ k \in Nat /\ text \in Seq(Token)
        /\ zeros \in Seq(Marks) /\ zeros \in Seq(Int)
    BY <1>3
  <2> QED BY ONLY <1>5, <1>6, <1>7, <2>1, FitsJoined
<1> QED BY <1>4, <1>8

LEMMA FitsWritten ==
  ASSUME NEW k \in Nat, NEW t, Fits(t, k), NEW text \in Token, text.what \in WrittenByModel,
         NEW x, x.ids = Append(t.ids, text), x.mask = Append(t.mask, 1),
         x.rewards = Append(t.rewards, 0)
  PROVE  Fits(x, k) /\ Len(x.mask) = Len(t.mask) + 1 /\ Sum(x.rewards) = Sum(t.rewards)
<1>2. PICK n \in Nat : n = Len(t.mask)
  BY LenProperties DEF Fits
<1>3. /\ t.ids \in Seq(Token) /\ t.mask \in Seq(Marks) /\ t.rewards \in Seq(Int)
      /\ Len(t.ids) = n + k /\ Len(t.rewards) = n
      /\ \A i \in 1 .. n : (t.ids[i + k].what \in WrittenByModel) <=> (t.mask[i] = 1)
  BY <1>2 DEF Fits
<1>4. /\ x.ids \in Seq(Token) /\ Len(x.ids) = (n + k) + 1
      /\ \A i \in 1 .. n + k : x.ids[i] = t.ids[i]
      /\ x.ids[(n + k) + 1] = text
  BY <1>3, AppendProperties
<1>5. /\ x.mask \in Seq(Marks) /\ Len(x.mask) = n + 1
      /\ \A i \in 1 .. n : x.mask[i] = t.mask[i]
      /\ x.mask[n + 1] = 1
  <2>1. 1 \in Marks /\ t.mask \in Seq(Marks)
    BY <1>3 DEF Marks
  <2>2. /\ Append(t.mask, 1) \in Seq(Marks) /\ Len(Append(t.mask, 1)) = Len(t.mask) + 1
        /\ \A i \in 1 .. Len(t.mask) : Append(t.mask, 1)[i] = t.mask[i]
        /\ Append(t.mask, 1)[Len(t.mask) + 1] = 1
    BY <2>1, AppendProperties
  <2> QED BY <1>2, <2>2
<1>6. x.rewards \in Seq(Int) /\ Len(x.rewards) = n + 1 /\ x.rewards = t.rewards \o <<0>>
  <2>1. 0 \in Int
    OBVIOUS
  <2>2. Append(t.rewards, 0) = t.rewards \o <<0>>
    BY <1>3, <2>1, AppendIsConcat
  <2>3. Append(t.rewards, 0) \in Seq(Int) /\ Len(Append(t.rewards, 0)) = n + 1
    BY <1>3, <2>1, AppendProperties
  <2> QED BY <2>2, <2>3
<1>7. Sum(x.rewards) = Sum(t.rewards)
  <2>0. <<0>> \in Seq(Int)
    OBVIOUS
  <2>1. Sum(x.rewards) = Sum(t.rewards) + Sum(<<0>>) /\ Sum(t.rewards) \in Int
    BY <1>3, <1>6, <2>0, SumJoined
  <2>2. Sum(<<0>>) = 0
    BY SumOne
  <2> QED BY <2>1, <2>2
<1>8. ASSUME NEW i \in 1 .. n + 1
      PROVE  (x.ids[i + k].what \in WrittenByModel) <=> (x.mask[i] = 1)
  <2>1. CASE i <= n
    <3>1. i + k \in 1 .. n + k /\ i \in 1 .. n
      BY <2>1
    <3> QED BY <1>3, <1>4, <1>5, <3>1
  <2>2. CASE i = n + 1
    <3>1. i + k = (n + k) + 1
      BY <2>2
    <3>2. x.ids[i + k] = text /\ x.mask[i] = 1
      BY <1>4, <1>5, <2>2, <3>1
    <3> QED BY <3>2
  <2>3. i <= n \/ i = n + 1
    BY <1>2
  <2> QED BY <2>1, <2>2, <2>3
<1>9. \A i \in 1 .. n + 1 : (x.ids[i + k].what \in WrittenByModel) <=> (x.mask[i] = 1)
  BY <1>8
<1>10. Fits(x, k)
  <2>1. /\ x.ids \in Seq(Token) /\ x.mask \in Seq(Marks) /\ x.rewards \in Seq(Int)
        /\ Len(x.ids) = Len(x.mask) + k /\ Len(x.rewards) = Len(x.mask)
    BY <1>2, <1>4, <1>5, <1>6
  <2>2. \A i \in 1 .. Len(x.mask) : (x.ids[i + k].what \in WrittenByModel) <=> (x.mask[i] = 1)
    BY <1>5, <1>9
  <2> QED BY <2>1, <2>2 DEF Fits
<1> QED BY <1>2, <1>5, <1>7, <1>10

LEMMA FitsPaid ==
  ASSUME NEW k \in Nat, NEW t, Fits(t, k), Len(t.mask) > 0, NEW r \in Int,
         NEW x, x.ids = t.ids, x.mask = t.mask, x.rewards = AddToLast(t.rewards, r)
  PROVE  Fits(x, k) /\ Len(x.mask) = Len(t.mask) /\ Sum(x.rewards) = Sum(t.rewards) + r
<1>1. t.rewards \in Seq(Int) /\ Len(t.rewards) > 0
  BY DEF Fits
<1>2. /\ x.rewards \in Seq(Int) /\ Len(x.rewards) = Len(t.rewards)
      /\ Sum(x.rewards) = Sum(t.rewards) + r
  BY <1>1, SumAddToLast
<1> QED BY <1>2 DEF Fits

\* A message in tokens: its role and its texts.
LEMMA TemplateIs ==
  ASSUME NEW m \in Message
  PROVE  /\ Template(m) \in Seq(Token) /\ Among(Template(m), TextToken) = m.texts
         /\ Len(Template(m)) = Len(m.texts) + 1
         /\ (\A j \in 1 .. Len(m.texts) : m.texts[j].what \notin WrittenByModel)
              => \A i \in 1 .. Len(Template(m)) : Template(m)[i].what \notin WrittenByModel
<1> DEFINE a == <<RoleToken(m.role)>>
<1>1. /\ RoleToken(m.role) \in Token /\ RoleToken(m.role) \notin TextToken
      /\ RoleToken(m.role).what \notin WrittenByModel
  BY RoleTokenIs DEF Message
<1>2. a \in Seq(Token) /\ Len(a) = 1 /\ a[1] = RoleToken(m.role)
  BY <1>1
<1>3. m.texts \in Seq(TextToken) /\ TextToken \subseteq Token
  BY TokensAre DEF Message
<1>4. m.texts \in Seq(Token)
  BY <1>3, SeqMonotonic
<1> HIDE DEF a
<1>5. Template(m) = a \o m.texts
  BY DEF Template, a
<1>6. /\ a \o m.texts \in Seq(Token) /\ Len(a \o m.texts) = Len(a) + Len(m.texts)
      /\ \A i \in 1 .. Len(a) + Len(m.texts) :
           (a \o m.texts)[i] = IF i <= Len(a) THEN a[i] ELSE m.texts[i - Len(a)]
  BY <1>2, <1>4, ConcatProperties
<1>7. Among(a \o m.texts, TextToken) = Among(a, TextToken) \o Among(m.texts, TextToken)
  BY <1>2, <1>4, AmongJoined
<1>8. Among(a, TextToken) = <<>>
  <2>1. \A i \in 1 .. Len(a) : a[i] \notin TextToken
    BY <1>1, <1>2
  <2> QED BY <1>2, <2>1, AmongNone
<1>9. Among(m.texts, TextToken) = m.texts
  <2>1. \A i \in 1 .. Len(m.texts) : m.texts[i] \in TextToken
    BY <1>3, ElementOfSeq
  <2> QED BY <1>4, <2>1, AmongAll
<1>10. PICK l \in Nat : l = Len(m.texts)
  BY <1>4, LenProperties
<1>11. ASSUME \A j \in 1 .. l : m.texts[j].what \notin WrittenByModel, NEW i \in 1 .. l + 1
       PROVE  Template(m)[i].what \notin WrittenByModel
  <2>1. CASE i = 1
    <3>1. Template(m)[i] = RoleToken(m.role)
      BY <1>2, <1>5, <1>6, <1>10, <2>1
    <3> QED BY <1>1, <3>1
  <2>2. CASE i > 1
    <3>1. i - 1 \in 1 .. l /\ ~(i <= 1) /\ i \in 1 .. 1 + l
      BY <2>2
    <3>2. Template(m)[i] = m.texts[i - 1]
      BY <1>2, <1>5, <1>6, <1>10, <3>1
    <3> QED BY <1>11, <3>1, <3>2
  <2> QED BY <2>1, <2>2
<1>12. <<>> \o m.texts = m.texts
  BY <1>4, ConcatEmptySeq
<1> QED BY <1>2, <1>5, <1>6, <1>7, <1>8, <1>9, <1>10, <1>11, <1>12

LEMMA GenerateIs ==
  /\ Generate \in Seq(Token) /\ Len(Generate) = 1
  /\ Among(Generate, TextToken) = <<>>
  /\ \A i \in 1 .. Len(Generate) : Generate[i].what \notin WrittenByModel
<1>1. /\ RoleToken("assistant") \in Token /\ RoleToken("assistant") \notin TextToken
      /\ RoleToken("assistant").what \notin WrittenByModel
  BY RoleTokenIs DEF Roles
<1>2. Generate \in Seq(Token) /\ Len(Generate) = 1 /\ Generate[1] = RoleToken("assistant")
  BY <1>1 DEF Generate
<1>3. \A i \in 1 .. Len(Generate) : Generate[i] = RoleToken("assistant")
  BY <1>2
<1>4. Among(Generate, TextToken) = <<>>
  BY <1>1, <1>2, <1>3, AmongNone
<1> QED BY <1>1, <1>2, <1>3, <1>4

-----------------------------------------------------------------------------
\* A talk, as it is kept.
TalkType == [said : Seq(Message), ids : Seq(Token), mask : Seq(Marks), rewards : Seq(Int)]

Talked(x, said, ids, bits, worth) ==
  x = [said |-> said, ids |-> ids, mask |-> bits, rewards |-> worth]

LEMMA TalkParts ==
  ASSUME NEW t
  PROVE  TalkFits(t) <=> /\ t \in TalkType /\ Fits(t, 3) /\ Len(t.mask) > 0
                         /\ Len(t.said) > 1 /\ Quiet(t.said)
BY DEF TalkFits, TalkType, Quiet

\* All that was said was told.
AllTold(t) == Among(t.ids, TextToken) = Texts(t.said)

Pending(t) ==
  Among(t.ids, TextToken) = Texts(IF Len(t.said) > 2 THEN Front(t.said) ELSE t.said)

\* The last message is told.
LEMMA LastTold ==
  ASSUME NEW t, TalkFits(t), Last(t.said).role = "user",
         NEW more \in {<<>>, Generate}
  PROVE  LET text == Template(Last(t.said)) \o more
         IN  /\ text \in Seq(Token) /\ Among(text, TextToken) = Last(t.said).texts
             /\ \A i \in 1 .. Len(text) : text[i].what \notin WrittenByModel
<1> DEFINE m == Last(t.said)  a == Template(m)
<1>1. /\ t.said \in Seq(Message) /\ Len(t.said) \in Nat /\ Len(t.said) > 1 /\ Quiet(t.said)
      /\ m = t.said[Len(t.said)]
  BY TalkParts, LenProperties DEF TalkType, Last
<1>2. m \in Message
  <2>1. Len(t.said) \in 1 .. Len(t.said)
    BY <1>1
  <2> QED BY <1>1, <2>1, ElementOfSeq
<1>3. \A j \in 1 .. Len(m.texts) : m.texts[j].what \notin WrittenByModel
  BY <1>1 DEF Quiet
<1> HIDE DEF m
<1>4. /\ a \in Seq(Token) /\ Among(a, TextToken) = m.texts
      /\ \A i \in 1 .. Len(a) : a[i].what \notin WrittenByModel
  BY <1>2, <1>3, TemplateIs
<1>5. /\ more \in Seq(Token) /\ Among(more, TextToken) = <<>>
      /\ \A i \in 1 .. Len(more) : more[i].what \notin WrittenByModel
  <2>1. CASE more = <<>>
    BY <2>1, EmptySeq, AmongEmpty
  <2>2. CASE more = Generate
    BY <2>2, GenerateIs
  <2> QED BY <2>1, <2>2
<1> HIDE DEF a
<1>6. /\ a \o more \in Seq(Token) /\ Len(a \o more) = Len(a) + Len(more)
      /\ \A i \in 1 .. Len(a) + Len(more) :
           (a \o more)[i] = IF i <= Len(a) THEN a[i] ELSE more[i - Len(a)]
  BY <1>4, <1>5, ConcatProperties
<1>7. Among(a \o more, TextToken) = m.texts
  <2>0. a \in Seq(Token) /\ more \in Seq(Token)
    BY <1>4, <1>5
  <2>1. Among(a \o more, TextToken) = m.texts \o <<>>
    <3>1. Among(a \o more, TextToken) = Among(a, TextToken) \o Among(more, TextToken)
      BY <2>0, AmongJoined
    <3> QED BY <1>4, <1>5, <3>1
  <2>2. m.texts \in Seq(TextToken)
    BY <1>2 DEF Message
  <2>3. m.texts \o <<>> = m.texts
    BY <2>2, ConcatEmptySeq
  <2> QED BY <2>1, <2>3
<1>8. \A i \in 1 .. Len(a) + Len(more) : (a \o more)[i].what \notin WrittenByModel
  <2> TAKE i \in 1 .. Len(a) + Len(more)
  <2>0. Len(a) \in Nat /\ Len(more) \in Nat
    BY <1>4, <1>5, LenProperties
  <2>1. CASE i <= Len(a)
    <3>1. i \in 1 .. Len(a) /\ (a \o more)[i] = a[i]
      BY <1>6, <2>0, <2>1
    <3> QED BY <1>4, <3>1
  <2>2. CASE ~(i <= Len(a))
    <3>1. i - Len(a) \in 1 .. Len(more) /\ (a \o more)[i] = more[i - Len(a)]
      BY <1>6, <2>0, <2>2
    <3> QED BY <1>5, <3>1
  <2> QED BY <2>1, <2>2
<1> QED BY <1>6, <1>7, <1>8 DEF a, m

\* Tokens that are told add their texts.
LEMMA ToldFits ==
  ASSUME NEW t, TalkFits(t), NEW text \in Seq(Token),
         \A i \in 1 .. Len(text) : text[i].what \notin WrittenByModel
  PROVE  /\ TalkFits(Unmasked(t, text)) /\ Unmasked(t, text).said = t.said
         /\ Sum(Unmasked(t, text).rewards) = Sum(t.rewards)
         /\ Among(Unmasked(t, text).ids, TextToken)
              = Among(t.ids, TextToken) \o Among(text, TextToken)
<1> DEFINE x == Unmasked(t, text)
<1>1. t \in TalkType /\ Fits(t, 3) /\ Len(t.mask) > 0 /\ Len(t.said) > 1 /\ Quiet(t.said)
  BY TalkParts
<1>2. /\ x.said = t.said /\ x.ids = t.ids \o text /\ x.mask = t.mask \o Zeros(Len(text))
      /\ x.rewards = t.rewards \o Zeros(Len(text))
      /\ x = [said |-> x.said, ids |-> x.ids, mask |-> x.mask, rewards |-> x.rewards]
  <2>1. PICK z : z = Zeros(Len(text))
    OBVIOUS
  <2>2. x = [t EXCEPT !.ids = t.ids \o text, !.mask = t.mask \o z, !.rewards = t.rewards \o z]
    BY <2>1 DEF Unmasked
  <2>3. t = [said |-> t.said, ids |-> t.ids, mask |-> t.mask, rewards |-> t.rewards]
    BY <1>1 DEF TalkType
  <2>4. x = [said |-> t.said, ids |-> t.ids \o text, mask |-> t.mask \o z,
             rewards |-> t.rewards \o z]
    <3> HIDE DEF x
    <3> QED BY <2>2, <2>3
  <2> HIDE DEF x
  <2> QED BY <2>1, <2>4
<1> HIDE DEF x
<1>3. Fits(x, 3) /\ Len(x.mask) = Len(t.mask) + Len(text) /\ Sum(x.rewards) = Sum(t.rewards)
  <2>1. PICK k \in Nat : k = 3
    OBVIOUS
  <2>2. Fits(t, k)
    BY <1>1, <2>1
  <2>5. k \in Nat
    BY <2>1
  <2>3. x.ids = t.ids \o text /\ x.mask = t.mask \o Zeros(Len(text))
        /\ x.rewards = t.rewards \o Zeros(Len(text))
    BY <1>2
  <2>4. Fits(x, k) /\ Len(x.mask) = Len(t.mask) + Len(text) /\ Sum(x.rewards) = Sum(t.rewards)
    BY ONLY <2>5, <2>2, <2>3, FitsUnmasked, text \in Seq(Token),
            \A i \in 1 .. Len(text) : text[i].what \notin WrittenByModel
  <2> QED BY <2>1, <2>4
<1>4. Len(x.mask) > 0
  <2>1. Len(t.mask) \in Nat /\ Len(text) \in Nat
    BY <1>1, LenProperties DEF TalkType
  <2> QED BY <1>1, <1>3, <2>1
<1>5. x \in TalkType
  <2>1. x.ids \in Seq(Token) /\ x.mask \in Seq(Marks) /\ x.rewards \in Seq(Int)
    BY <1>3 DEF Fits
  <2>2. x.said \in Seq(Message)
    BY <1>1, <1>2 DEF TalkType
  <2> QED BY <1>2, <2>1, <2>2 DEF TalkType
<1>6. Among(x.ids, TextToken) = Among(t.ids, TextToken) \o Among(text, TextToken)
  <2>1. t.ids \in Seq(Token)
    BY <1>1 DEF TalkType
  <2> QED BY <1>2, <2>1, AmongJoined
<1>7. TalkFits(x)
  BY <1>1, <1>2, <1>3, <1>4, <1>5, TalkParts
<1> QED BY <1>2, <1>3, <1>6, <1>7 DEF x

\* What the model writes, it also says.
LEMMA WrittenFits ==
  ASSUME NEW t, TalkFits(t), NEW text \in TextToken, text.what \in WrittenByModel,
         NEW said \in Seq(Message), Quiet(said), Len(said) > 1,
         NEW x, Talked(x, said, Append(t.ids, text), Append(t.mask, 1), Append(t.rewards, 0))
  PROVE  /\ TalkFits(x) /\ x.said = said /\ Sum(x.rewards) = Sum(t.rewards)
         /\ Among(x.ids, TextToken) = Append(Among(t.ids, TextToken), text)
<1>1. t \in TalkType /\ Fits(t, 3) /\ Len(t.mask) > 0
  BY TalkParts
<1>2. /\ x.said = said /\ x.ids = Append(t.ids, text) /\ x.mask = Append(t.mask, 1)
      /\ x.rewards = Append(t.rewards, 0)
      /\ x = [said |-> x.said, ids |-> x.ids, mask |-> x.mask, rewards |-> x.rewards]
  BY DEF Talked
<1>3. text \in Token
  BY TokensAre
<1>4. Fits(x, 3) /\ Len(x.mask) = Len(t.mask) + 1 /\ Sum(x.rewards) = Sum(t.rewards)
  <2>1. PICK k \in Nat : k = 3
    OBVIOUS
  <2>2. Fits(t, k)
    BY <1>1, <2>1
  <2>5. k \in Nat
    BY <2>1
  <2>3. Fits(x, k) /\ Len(x.mask) = Len(t.mask) + 1 /\ Sum(x.rewards) = Sum(t.rewards)
    BY <1>2, <1>3, <2>5, <2>2, FitsWritten
  <2> QED BY <2>1, <2>3
<1>5. Len(x.mask) > 0
  <2>1. Len(t.mask) \in Nat
    BY <1>1, LenProperties DEF TalkType
  <2> QED BY <1>4, <2>1
<1>6. x \in TalkType
  <2>1. x.ids \in Seq(Token) /\ x.mask \in Seq(Marks) /\ x.rewards \in Seq(Int)
    BY <1>4 DEF Fits
  <2> QED BY <1>2, <2>1 DEF TalkType
<1>7. Among(x.ids, TextToken) = Append(Among(t.ids, TextToken), text)
  <2>1. t.ids \in Seq(Token) /\ <<text>> \in Seq(Token)
    BY <1>1, <1>3 DEF TalkType
  <2>2. x.ids = t.ids \o <<text>>
    BY <1>2, <1>3, <2>1, AppendIsConcat
  <2>3. Among(x.ids, TextToken) = Among(t.ids, TextToken) \o Among(<<text>>, TextToken)
    <3>1. PICK u : u = <<text>>
      OBVIOUS
    <3>2. t.ids \in Seq(Token) /\ u \in Seq(Token) /\ x.ids = t.ids \o u
      BY <2>1, <2>2, <3>1
    <3>3. Among(t.ids \o u, TextToken) = Among(t.ids, TextToken) \o Among(u, TextToken)
      BY <3>2, AmongJoined
    <3> QED BY <3>1, <3>2, <3>3
  <2>4. Among(<<text>>, TextToken) = <<text>>
    <3>1. \A i \in 1 .. Len(<<text>>) : <<text>>[i] \in TextToken
      OBVIOUS
    <3> QED BY <2>1, <3>1, AmongAll
  <2>5. Among(t.ids, TextToken) \in Seq(Token)
    BY <2>1, AmongType
  <2>6. Append(Among(t.ids, TextToken), text) = Among(t.ids, TextToken) \o <<text>>
    BY <1>3, <2>5, AppendIsConcat
  <2> QED BY <2>3, <2>4, <2>6
<1>8. TalkFits(x)
  BY <1>2, <1>4, <1>5, <1>6, TalkParts
<1> QED BY <1>2, <1>4, <1>7, <1>8

LEMMA HeardIs ==
  ASSUME TalkFits(talk), Last(talk.said).role = "user", Pending(talk),
         NEW text \in TextToken, text.what \in WrittenByModel
  PROVE  /\ TalkFits(Heard(text)) /\ AllTold(Heard(text))
         /\ Sum(Heard(text).rewards) = Sum(talk.rewards)
         /\ Texts(Heard(text).said) = Append(Texts(talk.said), text)
         /\ Last(Heard(text).said).role = "assistant"
         /\ Len(Heard(text).said) = Len(talk.said) + 1
<1> DEFINE told == IF Len(talk.said) > 2
                     THEN Unmasked(talk, Template(Last(talk.said)) \o Generate) ELSE talk
           m == [role |-> "assistant", texts |-> <<text>>]
           said == Append(talk.said, m)
<1>1. /\ talk.said \in Seq(Message) /\ Len(talk.said) \in Nat /\ Len(talk.said) > 1
      /\ Quiet(talk.said) /\ talk.ids \in Seq(Token)
  BY TalkParts, LenProperties DEF TalkType
<1>2. /\ TalkFits(told) /\ told.said = talk.said /\ Sum(told.rewards) = Sum(talk.rewards)
      /\ Among(told.ids, TextToken) = Texts(talk.said)
  <2>1. CASE Len(talk.said) > 2
    <3>1. PICK lastIds : lastIds = Template(Last(talk.said)) \o Generate
      OBVIOUS
    <3>2. /\ lastIds \in Seq(Token) /\ Among(lastIds, TextToken) = Last(talk.said).texts
          /\ \A i \in 1 .. Len(lastIds) : lastIds[i].what \notin WrittenByModel
      BY <3>1, LastTold
    <3>3. told = Unmasked(talk, lastIds)
      BY <2>1, <3>1
    <3> HIDE DEF told
    <3>4. /\ TalkFits(told) /\ told.said = talk.said /\ Sum(told.rewards) = Sum(talk.rewards)
          /\ Among(told.ids, TextToken) = Among(talk.ids, TextToken) \o Last(talk.said).texts
      BY <3>2, <3>3, ToldFits
    <3>5. Texts(talk.said) = Texts(Front(talk.said)) \o Last(talk.said).texts
      <4>1. Len(talk.said) > 0
        BY <1>1
      <4> QED BY <1>1, <4>1, TextsSplit
    <3> QED BY <2>1, <3>4, <3>5 DEF Pending
  <2>2. CASE ~(Len(talk.said) > 2)
    BY <2>2 DEF Pending
  <2> QED BY <2>1, <2>2
<1>3. m \in Message /\ m.role = "assistant" /\ m.texts = <<text>>
  BY DEF Message, Roles
<1> HIDE DEF m
<1>4. said \in Seq(Message) /\ Len(said) = Len(talk.said) + 1 /\ Last(said) = m
  BY <1>1, <1>3, AppendProperties, FrontOfAppend
<1>5. Quiet(said)
  BY <1>1, <1>3, QuietAppend
<1>6. Texts(said) = Append(Texts(talk.said), text)
  <2>1. Texts(said) = Texts(talk.said) \o <<text>>
    BY <1>1, <1>3, TextsAppend
  <2>2. Texts(talk.said) \in Seq(TextToken)
    BY <1>1, TextsAre
  <2> QED BY <2>1, <2>2, AppendIsConcat
<1>7. Heard(text) = [told EXCEPT !.ids = Append(@, text), !.mask = Append(@, 1),
                                 !.rewards = Append(@, 0), !.said = said]
  <2>1. Heard(text) = [told EXCEPT !.ids = Append(@, text), !.mask = Append(@, 1),
                                 !.rewards = Append(@, 0), !.said = Append(@, m)]
    BY DEF Heard, m
  <2> HIDE DEF told
  <2> QED BY <1>2, <2>1
<1> HIDE DEF told, said
<1>8. Len(said) > 1
  BY <1>1, <1>4
<1>9. /\ TalkFits(Heard(text)) /\ Heard(text).said = said
      /\ Sum(Heard(text).rewards) = Sum(told.rewards)
      /\ Among(Heard(text).ids, TextToken) = Append(Among(told.ids, TextToken), text)
  <2>1. PICK x : x = Heard(text)
    OBVIOUS
  <2>2. Talked(x, said, Append(told.ids, text), Append(told.mask, 1), Append(told.rewards, 0))
    BY <1>2, <1>7, <2>1, TalkParts DEF Talked, TalkType
  <2>3. /\ TalkFits(x) /\ x.said = said /\ Sum(x.rewards) = Sum(told.rewards)
        /\ Among(x.ids, TextToken) = Append(Among(told.ids, TextToken), text)
    BY <1>2, <1>4, <1>5, <1>8, <2>2, WrittenFits
  <2> QED BY <2>1, <2>3
<1> QED BY <1>2, <1>3, <1>4, <1>6, <1>9 DEF AllTold

\* A message more, or a text more in the last.
LEMMA SaidMore ==
  ASSUME NEW t, TalkFits(t), NEW text \in TextToken, text.what \notin WrittenByModel,
         NEW x, Talked(x, AddUser(t.said, text), t.ids, t.mask, t.rewards)
  PROVE  /\ TalkFits(x) /\ x.said = AddUser(t.said, text)
         /\ x.ids = t.ids /\ x.rewards = t.rewards /\ Sum(x.rewards) = Sum(t.rewards)
<1>1. t \in TalkType /\ Fits(t, 3) /\ Len(t.mask) > 0 /\ Len(t.said) > 1 /\ Quiet(t.said)
  BY TalkParts
<1>2. /\ x.said = AddUser(t.said, text) /\ x.ids = t.ids /\ x.mask = t.mask
      /\ x.rewards = t.rewards
      /\ x = [said |-> x.said, ids |-> x.ids, mask |-> x.mask, rewards |-> x.rewards]
  BY DEF Talked
<1>3. t.said \in Seq(Message) /\ Len(t.said) \in Nat
  BY <1>1, LenProperties DEF TalkType
<1>4. x.said \in Seq(Message) /\ Len(x.said) >= Len(t.said) /\ Quiet(x.said)
  <2>1. Len(t.said) > 0
    BY <1>1, <1>3
  <2> QED BY <1>1, <1>2, <1>3, <2>1, AddUserIs
<1>5. x \in TalkType
  <2>1. t.ids \in Seq(Token) /\ t.mask \in Seq(Marks) /\ t.rewards \in Seq(Int)
    BY <1>1 DEF TalkType
  <2> QED BY <1>2, <1>4, <2>1 DEF TalkType
<1>6. Fits(x, 3)
  BY <1>1, <1>2 DEF Fits
<1>7. Len(x.said) > 1
  <2>1. Len(x.said) \in Nat
    BY <1>4, LenProperties
  <2> QED BY <1>1, <1>3, <1>4, <2>1
<1> QED BY <1>1, <1>2, <1>4, <1>5, <1>6, <1>7, TalkParts

\* A reward is given for the last token.
LEMMA TalkPaid ==
  ASSUME NEW t, TalkFits(t), NEW r \in Int,
         NEW x, Talked(x, t.said, t.ids, t.mask, AddToLast(t.rewards, r))
  PROVE  /\ TalkFits(x) /\ x.said = t.said /\ x.ids = t.ids
         /\ Sum(x.rewards) = Sum(t.rewards) + r
<1>1. t \in TalkType /\ Fits(t, 3) /\ Len(t.mask) > 0 /\ Len(t.said) > 1 /\ Quiet(t.said)
  BY TalkParts
<1>2. /\ x.said = t.said /\ x.ids = t.ids /\ x.mask = t.mask /\ x.rewards = AddToLast(t.rewards, r)
      /\ x = [said |-> x.said, ids |-> x.ids, mask |-> x.mask, rewards |-> x.rewards]
  BY DEF Talked
<1>3. Fits(x, 3) /\ Len(x.mask) = Len(t.mask) /\ Sum(x.rewards) = Sum(t.rewards) + r
  <2>1. PICK k \in Nat : k = 3
    OBVIOUS
  <2>2. Fits(t, k)
    BY <1>1, <2>1
  <2>5. k \in Nat
    BY <2>1
  <2>3. Fits(x, k) /\ Len(x.mask) = Len(t.mask) /\ Sum(x.rewards) = Sum(t.rewards) + r
    BY <1>1, <1>2, <2>5, <2>2, FitsPaid
  <2> QED BY <2>1, <2>3
<1>4. x \in TalkType
  <2>1. x.rewards \in Seq(Int)
    BY <1>3 DEF Fits
  <2> QED BY <1>1, <1>2, <2>1 DEF TalkType
<1> QED BY <1>1, <1>2, <1>3, <1>4, TalkParts

-----------------------------------------------------------------------------
(* The states between two answers.                                         *)

LEMMA PhraseIs ==
  ASSUME NEW what \in TextOfLoop \cup WrittenByModel, played \in Nat, NEW turn \in Nat,
         NEW move \in Nat
  PROVE  /\ PhraseAt(what, turn, move) \in TextToken
         /\ PhraseAt(what, turn, move).what = what /\ PhraseAt(what, turn, move).turn = turn
BY DEF PhraseAt, TextToken, TokenOf

\* The model has answered.
Answered(t) == TalkFits(t) /\ AllTold(t) /\ Last(t.said).role = "assistant"

\* The planner has something to tell.
Waits(t) == TalkFits(t) /\ Pending(t) /\ Last(t.said).role = "user" /\ Len(t.said) > 2

LEMMA WaitsMore ==
  ASSUME NEW t, Answered(t) \/ Waits(t), NEW text \in TextToken, text.what \notin WrittenByModel,
         NEW x, Talked(x, AddUser(t.said, text), t.ids, t.mask, t.rewards)
  PROVE  /\ Waits(x) /\ Sum(x.rewards) = Sum(t.rewards)
         /\ Texts(x.said) = Append(Texts(t.said), text)
<1>1. TalkFits(t)
  BY DEF Answered, Waits
<1>2. /\ TalkFits(x) /\ x.said = AddUser(t.said, text)
      /\ x.ids = t.ids /\ x.rewards = t.rewards /\ Sum(x.rewards) = Sum(t.rewards)
  BY <1>1, SaidMore
<1>3. t.said \in Seq(Message) /\ Len(t.said) \in Nat /\ Len(t.said) > 1 /\ Len(t.said) > 0
  <2>1. t \in TalkType /\ Len(t.said) > 1
    BY <1>1, TalkParts
  <2>2. t.said \in Seq(Message)
    BY <2>1 DEF TalkType
  <2>3. Len(t.said) \in Nat
    BY <2>2, LenProperties
  <2> QED BY <2>1, <2>2, <2>3
<1>4. /\ Last(x.said).role = "user"
      /\ Texts(x.said) = Append(Texts(t.said), text)
      /\ Last(t.said).role = "user" => /\ Front(x.said) = Front(t.said)
                                       /\ Len(x.said) = Len(t.said)
      /\ Last(t.said).role # "user" => /\ Front(x.said) = t.said
                                       /\ Len(x.said) = Len(t.said) + 1
  <2>1. /\ Last(AddUser(t.said, text)).role = "user"
        /\ Texts(AddUser(t.said, text)) = Append(Texts(t.said), text)
        /\ Last(t.said).role = "user" => /\ Front(AddUser(t.said, text)) = Front(t.said)
                                         /\ Len(AddUser(t.said, text)) = Len(t.said)
        /\ Last(t.said).role # "user" => /\ Front(AddUser(t.said, text)) = t.said
                                         /\ Len(AddUser(t.said, text)) = Len(t.said) + 1
    BY <1>3, AddUserIs
  <2> QED BY <1>2, <2>1
<1>5. Pending(x) /\ Len(x.said) > 2
  <2>1. CASE Answered(t)
    <3>1. Last(t.said).role # "user" /\ Among(t.ids, TextToken) = Texts(t.said)
      BY <2>1 DEF Answered, AllTold
    <3>2. Front(x.said) = t.said /\ Len(x.said) > 2
      BY <1>3, <1>4, <3>1
    <3> QED BY <1>2, <3>1, <3>2 DEF Pending
  <2>2. CASE Waits(t)
    <3>1. /\ Last(t.said).role = "user" /\ Len(t.said) > 2
          /\ Among(t.ids, TextToken) = Texts(Front(t.said))
      BY <2>2 DEF Waits, Pending
    <3>2. Front(x.said) = Front(t.said) /\ Len(x.said) > 2
      BY <1>3, <1>4, <3>1
    <3> QED BY <1>2, <3>1, <3>2 DEF Pending
  <2> QED BY <2>1, <2>2
<1> QED BY <1>2, <1>4, <1>5 DEF Waits

LEMMA HeardAnswers ==
  ASSUME TalkFits(talk), Last(talk.said).role = "user", Pending(talk),
         NEW text \in TextToken, text.what \in WrittenByModel
  PROVE  /\ Answered(Heard(text)) /\ Sum(Heard(text).rewards) = Sum(talk.rewards)
         /\ Texts(Heard(text).said) = Append(Texts(talk.said), text)
BY HeardIs DEF Answered

\* The texts that say how a trajectory ended.
NoMoveBefore(texts, turn) ==
  \A i \in 1 .. Len(texts) : texts[i].what = "no move" => texts[i].turn < turn

OverBefore(texts, turn) ==
  \E i \in 1 .. Len(texts) : texts[i].what = "game over" /\ texts[i].turn < turn

LEMMA EndsAppend ==
  ASSUME NEW texts \in Seq(TextToken), NEW text \in TextToken, NEW turn \in Nat, NEW later \in Nat,
         turn <= later
  PROVE  /\ NoMoveBefore(texts, turn) /\ (text.what = "no move" => text.turn < later)
              => NoMoveBefore(Append(texts, text), later)
         /\ OverBefore(texts, turn) => OverBefore(Append(texts, text), later)
         /\ text.what = "game over" /\ text.turn < later => OverBefore(Append(texts, text), later)
<1> DEFINE x == Append(texts, text)
<1>1. PICK n \in Nat : n = Len(texts)
  BY LenProperties
<1>2. /\ x \in Seq(TextToken) /\ Len(x) = n + 1 /\ \A i \in 1 .. n : x[i] = texts[i]
      /\ x[n + 1] = text
  BY <1>1, AppendProperties
<1>3. \A i \in 1 .. n : texts[i].turn \in Nat
  <2>1. \A i \in 1 .. n : texts[i] \in TextToken
    BY <1>1, ElementOfSeq
  <2>2. \A u \in TextToken : u.turn \in Nat
    BY DEF TextToken, TokenOf
  <2> QED BY <2>1, <2>2
<1> HIDE DEF x
<1>4. ASSUME NoMoveBefore(texts, turn), text.what = "no move" => text.turn < later
      PROVE  NoMoveBefore(x, later)
  <2> SUFFICES ASSUME NEW i \in 1 .. n + 1, x[i].what = "no move"
               PROVE  x[i].turn < later
    BY <1>2 DEF NoMoveBefore
  <2>1. CASE i = n + 1
    BY <1>2, <1>4, <2>1
  <2>2. CASE i # n + 1
    <3>1. i \in 1 .. n
      <4>1. n \in Nat /\ i \in 1 .. n + 1
        BY <1>1
      <4> QED BY ONLY <2>2, <4>1
    <3>2. texts[i].turn < turn
      BY <1>1, <1>2, <1>4, <3>1 DEF NoMoveBefore
    <3>3. texts[i].turn < later
      <4>1. PICK a \in Nat : a = texts[i].turn
        BY <1>3, <3>1
      <4>2. a < turn /\ a \in Nat
        BY <3>2, <4>1
      <4>3. a < later
        BY ONLY <4>2, turn <= later, turn \in Nat, later \in Nat
      <4> QED BY <4>1, <4>3
    <3> QED BY <1>2, <3>1, <3>3
  <2> QED BY <2>1, <2>2
<1>5. ASSUME OverBefore(texts, turn) PROVE OverBefore(x, later)
  <2>1. PICK i \in 1 .. n : texts[i].what = "game over" /\ texts[i].turn < turn
    BY <1>1, <1>5 DEF OverBefore
  <2>2. texts[i].turn < later
    <3>1. PICK a \in Nat : a = texts[i].turn
      BY <1>3, <2>1
    <3>2. a < turn /\ a \in Nat
      BY <2>1, <3>1
    <3>3. a < later
      BY <3>2
    <3> QED BY <3>1, <3>3
  <2>3. i \in 1 .. Len(x) /\ x[i] = texts[i]
    BY <1>1, <1>2
  <2> QED BY <2>1, <2>2, <2>3 DEF OverBefore
<1>6. ASSUME text.what = "game over" /\ text.turn < later PROVE OverBefore(x, later)
  <2>1. n + 1 \in 1 .. Len(x)
    BY <1>1, <1>2
  <2> QED BY <1>2, <1>6, <2>1 DEF OverBefore
<1> QED BY <1>4, <1>5, <1>6 DEF x

\* Where every text is one that must have been told, none is left out.
LEMMA ToldAreAll ==
  ASSUME NEW texts \in Seq(TextToken), NEW last \in Nat, NEW turn \in Nat,
         turn <= last, NoMoveBefore(texts, turn)
  PROVE  Among(texts, {t \in TextToken : ~(t.what = "no move" /\ t.turn = last)}) = texts
<1> DEFINE Told == {t \in TextToken : ~(t.what = "no move" /\ t.turn = last)}
<1>1. Len(texts) \in Nat /\ \A i \in 1 .. Len(texts) : texts[i] \in TextToken
  BY LenProperties, ElementOfSeq
<1>3. \A i \in 1 .. Len(texts) : texts[i] \in Told
  <2> TAKE i \in 1 .. Len(texts)
  <2>1. texts[i].what = "no move" => texts[i].turn < turn
    BY DEF NoMoveBefore
  <2>2. turn <= last /\ last \in Nat
    OBVIOUS
  <2>3. ASSUME texts[i].what = "no move" PROVE texts[i].turn # last
    <3>1. PICK a : a = texts[i].turn
      OBVIOUS
    <3>2. a < turn
      BY <2>1, <2>3, <3>1
    <3>3. a # last
      BY ONLY <2>2, <3>2, turn \in Nat
    <3> QED BY <3>1, <3>3
  <2> QED BY <1>1, <2>3
<1> HIDE DEF Told
<1>4. Among(texts, Told) = texts
  BY <1>3, AmongAll
<1> QED BY <1>4 DEF Told

LEMMA PlanSane ==
  ASSUME PlanIInv
  PROVE  /\ setup \in PlanConfigs /\ setup.trajs \in Nat /\ setup.trajs > 0
         /\ setup.horizon \in Nat /\ setup.horizon > 0 /\ setup.steps \in Nat
         /\ played \in Nat /\ played <= setup.steps + 1
         /\ planTurn \in Nat /\ planTurn > 0 /\ planTurn <= setup.trajs
         /\ planStep \in Nat /\ planStep > 0 /\ planStep <= setup.horizon
         /\ sim.moved \in Nat /\ sim.moved <= setup.trajs * setup.horizon
         /\ sim.end \in {"no", "open", "shut"} /\ decision \in {"none", "legal", "illegal"}
         /\ at \in {"plan", "think", "summarise", "join", "act", "return", "done", "raised"}
         /\ paid \in Int
<1>1. PlanTypeOK /\ paid \in Int
  BY DEF PlanIInv
<1>2. setup \in PlanConfigs /\ setup \in PlanConfigType
  BY <1>1, PlanAssumption DEF PlanTypeOK
<1>3. /\ setup.trajs \in Nat /\ setup.trajs > 0 /\ setup.horizon \in Nat /\ setup.horizon > 0
      /\ setup.steps \in Nat
  BY <1>2 DEF PlanConfigType
<1>4. setup.trajs * setup.horizon \in Nat
  BY <1>3
<1>5. /\ played \in 0 .. setup.steps + 1
      /\ planTurn \in 1 .. setup.trajs /\ planStep \in 1 .. setup.horizon
      /\ sim.moved \in 0 .. setup.trajs * setup.horizon
      /\ sim.end \in {"no", "open", "shut"} /\ decision \in {"none", "legal", "illegal"}
      /\ at \in {"plan", "think", "summarise", "join", "act", "return", "done", "raised"}
  BY <1>1 DEF PlanTypeOK
<1>6. played \in Nat /\ played <= setup.steps + 1
  BY <1>3, <1>5
<1>7. /\ planTurn \in Nat /\ planTurn > 0 /\ planTurn <= setup.trajs
      /\ planStep \in Nat /\ planStep > 0 /\ planStep <= setup.horizon
  BY <1>3, <1>5
<1>8. sim.moved \in Nat /\ sim.moved <= setup.trajs * setup.horizon
  BY <1>4, <1>5
<1> QED BY <1>1, <1>2, <1>3, <1>5, <1>6, <1>7, <1>8

ToldTexts(last) == {t \in TextToken : ~(t.what = "no move" /\ t.turn = last)}

HeardSays(a, t, last) ==
  a \in {"think", "summarise", "join"} =>
    LET said == IF a = "think" /\ Len(t.said) > 2 THEN Front(t.said) ELSE t.said
    IN  Among(t.ids, TextToken) = Among(Texts(said), ToldTexts(last))

ThinkingOf(t, now, turn, move, horizon) ==
  /\ Last(t.said).role = "user" /\ Pending(t)
  /\ NoMoveBefore(Texts(t.said), turn)
  /\ now.end = "shut" => OverBefore(Texts(t.said), turn)
  /\ now.moved <= (turn - 1) * horizon + move - 1

LEMMA PlanParts ==
  /\ HeardIsSaid <=> HeardSays(at, talk, setup.trajs)
  /\ HeardIsSaid' <=> HeardSays(at', talk', setup'.trajs)
  /\ FailsOnlyAfterEnd <=> (at = "raised" => OverBefore(Texts(talk.said), planTurn))
  /\ FailsOnlyAfterEnd' <=> (at' = "raised" => OverBefore(Texts(talk'.said), planTurn'))
  /\ Thinking <=> ThinkingOf(talk, sim, planTurn, planStep, setup.horizon)
  /\ Thinking' <=> ThinkingOf(talk', sim', planTurn', planStep', setup'.horizon)
<1>1. /\ HeardIsSaid <=> HeardSays(at, talk, setup.trajs)
      /\ HeardIsSaid' <=> HeardSays(at', talk', setup'.trajs)
  BY DEF HeardIsSaid, HeardSays, ToldTexts
<1>2. /\ FailsOnlyAfterEnd <=> (at = "raised" => OverBefore(Texts(talk.said), planTurn))
      /\ FailsOnlyAfterEnd' <=> (at' = "raised" => OverBefore(Texts(talk'.said), planTurn'))
  BY DEF FailsOnlyAfterEnd, OverBefore
<1>3. /\ Thinking <=> ThinkingOf(talk, sim, planTurn, planStep, setup.horizon)
      /\ Thinking' <=> ThinkingOf(talk', sim', planTurn', planStep', setup'.horizon)
  BY DEF Thinking, ThinkingOf, Pending, NoMoveBefore, Ended, OverBefore
<1> QED BY <1>1, <1>2, <1>3

\* The invariant, by its parts.
LEMMA PlanIInvParts ==
  ASSUME PlanTypeOK', paid' \in Int, at' \notin {"return", "done"} => played' <= setup'.steps,
         talk' = <<>> \/ TalkFits(talk'),
         at' \in {"think", "summarise", "join", "raised"} => TalkFits(talk'),
         WholeFits', HeardSays(at', talk', setup'.trajs),
         at' = "raised" => OverBefore(Texts(talk'.said), planTurn'),
         at' = "think" => ThinkingOf(talk', sim', planTurn', planStep', setup'.horizon)
  PROVE  PlanIInv'
BY PlanParts DEF PlanIInv

\* The same number, before the last message is told and after.
LEMMA NoMoveInFront ==
  ASSUME NEW said \in Seq(Message), Len(said) > 0, NEW turn \in Nat,
         NoMoveBefore(Texts(said), turn)
  PROVE  NoMoveBefore(Texts(Front(said)), turn)
<1>1. /\ Front(said) \in Seq(Message) /\ Last(said) \in Message
      /\ Texts(said) = Texts(Front(said)) \o Last(said).texts
  BY SplitLast, TextsSplit
<1>2. PICK a \in Seq(TextToken) : a = Texts(Front(said))
  BY <1>1, TextsAre
<1>3. PICK b \in Seq(TextToken) : b = Last(said).texts
  BY <1>1 DEF Message
<1>4. /\ a \o b \in Seq(TextToken) /\ Len(a \o b) = Len(a) + Len(b)
      /\ \A i \in 1 .. Len(a) + Len(b) : (a \o b)[i] = IF i <= Len(a) THEN a[i] ELSE b[i - Len(a)]
  BY <1>2, <1>3, ConcatProperties
<1>5. Len(a) \in Nat /\ Len(b) \in Nat
  BY <1>2, <1>3, LenProperties
<1>6. \A i \in 1 .. Len(a) : i \in 1 .. Len(a) + Len(b) /\ i <= Len(a)
  BY <1>5
<1>7. \A i \in 1 .. Len(a) : i \in 1 .. Len(a \o b) /\ (a \o b)[i] = a[i]
  BY <1>4, <1>6
<1>8. NoMoveBefore(a \o b, turn)
  BY <1>1, <1>2, <1>3
<1>9. NoMoveBefore(a, turn)
  BY <1>7, <1>8 DEF NoMoveBefore
<1> QED BY <1>2, <1>9

LEMMA ThinkSays ==
  ASSUME NEW t, TalkFits(t), Pending(t), NEW turn \in Nat, NEW last \in Nat, turn <= last,
         NoMoveBefore(Texts(t.said), turn)
  PROVE  HeardSays("think", t, last)
<1> DEFINE said == IF Len(t.said) > 2 THEN Front(t.said) ELSE t.said
<1>1. t.said \in Seq(Message) /\ Len(t.said) > 0
  <2>1. t.said \in Seq(Message) /\ Len(t.said) > 1
    BY TalkParts DEF TalkType
  <2>2. Len(t.said) \in Nat
    BY <2>1, LenProperties
  <2> QED BY <2>1, <2>2
<1>2. said \in Seq(Message)
  BY <1>1, SplitLast
<1>3. NoMoveBefore(Texts(said), turn)
  BY <1>1, NoMoveInFront
<1>4. Among(t.ids, TextToken) = Texts(said)
  BY DEF Pending
<1> HIDE DEF said
<1>5. Among(Texts(said), ToldTexts(last)) = Texts(said)
  BY <1>2, <1>3, TextsAre, ToldAreAll DEF ToldTexts
<1> QED BY <1>4, <1>5 DEF HeardSays, said

LEMMA AllToldSays ==
  ASSUME NEW t, TalkFits(t), AllTold(t), NEW turn \in Nat, NEW last \in Nat, turn <= last,
         NoMoveBefore(Texts(t.said), turn), NEW a \in {"summarise", "join"}
  PROVE  HeardSays(a, t, last)
<1>1. t.said \in Seq(Message) /\ Among(t.ids, TextToken) = Texts(t.said)
  BY TalkParts DEF AllTold, TalkType
<1>2. Among(Texts(t.said), ToldTexts(last)) = Texts(t.said)
  BY <1>1, TextsAre, ToldAreAll DEF ToldTexts
<1> QED BY <1>1, <1>2 DEF HeardSays

LEMMA AnsweredSays ==
  ASSUME NEW t, Answered(t), NEW turn \in Nat, NEW last \in Nat, turn <= last,
         NoMoveBefore(Texts(t.said), turn), NEW a \in {"summarise", "join"}
  PROVE  HeardSays(a, t, last)
BY AllToldSays DEF Answered

LEMMA PlanTypeNext ==
  ASSUME PlanIInv, setup' = setup,
         at' \in {"plan", "think", "summarise", "join", "act", "return", "done", "raised"},
         played' \in Nat, played' <= setup.steps + 1,
         planTurn' \in Nat, planTurn' > 0, planTurn' <= setup.trajs,
         planStep' \in Nat, planStep' > 0, planStep' <= setup.horizon,
         sim'.moved \in Nat, sim'.moved <= setup.trajs * setup.horizon,
         sim'.end \in {"no", "open", "shut"}, decision' \in {"none", "legal", "illegal"}
  PROVE  PlanTypeOK'
<1>1. /\ setup \in PlanConfigs /\ setup.trajs \in Nat /\ setup.horizon \in Nat
      /\ setup.steps \in Nat
  BY PlanSane
<1>2. setup.trajs * setup.horizon \in Nat
  BY <1>1
<1>3. played' \in 0 .. setup.steps + 1
  BY <1>1
<1>4. planTurn' \in 1 .. setup.trajs /\ planStep' \in 1 .. setup.horizon
  BY <1>1
<1>5. sim'.moved \in 0 .. setup.trajs * setup.horizon
  BY <1>2
<1> QED BY <1>1, <1>3, <1>4, <1>5 DEF PlanTypeOK

\* No trajectory has more moves than its budget.
LEMMA Budget ==
  ASSUME NEW m \in Nat, NEW t \in Nat, NEW last \in Nat, NEW h \in Nat, NEW s \in Nat,
         t > 0, t <= last, s > 0, s <= h, m <= (t - 1) * h + s - 1
  PROVE  /\ m + 1 <= last * h /\ m + 1 <= ((t + 1) - 1) * h + 1 - 1
         /\ m <= ((t + 1) - 1) * h + 1 - 1 /\ m + 1 <= (t - 1) * h + (s + 1) - 1
<1>1. PICK d \in Nat : t = d + 1
  <2>1. t - 1 \in Nat /\ t = (t - 1) + 1
    OBVIOUS
  <2> QED BY <2>1
<1>2. PICK e \in Nat : last = t + e
  <2>1. last - t \in Nat /\ last = t + (last - t)
    OBVIOUS
  <2> QED BY <2>1
<1>3. (t - 1) * h = d * h /\ ((t + 1) - 1) * h = d * h + h
  <2>1. t - 1 = d /\ (t + 1) - 1 = d + 1
    BY <1>1
  <2>2. (d + 1) * h = d * h + h
    BY <1>1
  <2> QED BY <2>1, <2>2
<1>4. last * h = (d * h + h) + e * h
  <2>1. last = (d + 1) + e
    BY <1>1, <1>2
  <2>2. ((d + 1) + e) * h = (d * h + h) + e * h
    BY <1>1, <1>2
  <2> QED BY <2>1, <2>2
<1>5. PICK x \in Nat : x = d * h
  BY <1>1
<1>6. PICK y \in Nat : y = e * h
  BY <1>2
<1>7. m <= x + s - 1
  BY <1>3, <1>5
<1>8. m + 1 <= x + h /\ m + 1 <= (x + h) + y /\ m <= x + h + 1 - 1
  BY <1>5, <1>6, <1>7
<1>9. m + 1 <= x + h + 1 - 1 /\ m + 1 <= x + (s + 1) - 1
  BY <1>5, <1>7
<1> QED BY <1>3, <1>4, <1>5, <1>6, <1>8, <1>9

\* What is known when the model has answered.
LEMMA ThoughtIs ==
  ASSUME PlanIInv, at = "think", NEW what \in WrittenByModel
  PROVE  /\ Answered(Heard(Phrase(what))) /\ TalkFits(Heard(Phrase(what)))
         /\ Heard(Phrase(what)).said \in Seq(Message)
         /\ Sum(Heard(Phrase(what)).rewards) = Sum(talk.rewards)
         /\ Texts(Heard(Phrase(what)).said) \in Seq(TextToken)
         /\ NoMoveBefore(Texts(Heard(Phrase(what)).said), planTurn)
         /\ sim.end = "shut" => OverBefore(Texts(Heard(Phrase(what)).said), planTurn)
         /\ Sum(whole.rewards) + Sum(talk.rewards) = paid
         /\ sim.moved <= (planTurn - 1) * setup.horizon + planStep - 1
<1>1. /\ TalkFits(talk) /\ ThinkingOf(talk, sim, planTurn, planStep, setup.horizon)
      /\ Sum(whole.rewards) + Sum(talk.rewards) = paid
  BY PlanParts DEF PlanIInv, WholeFits
<1>2. /\ Last(talk.said).role = "user" /\ Pending(talk) /\ NoMoveBefore(Texts(talk.said), planTurn)
      /\ sim.end = "shut" => OverBefore(Texts(talk.said), planTurn)
      /\ sim.moved <= (planTurn - 1) * setup.horizon + planStep - 1
  BY <1>1 DEF ThinkingOf
<1>3. played \in Nat /\ planTurn \in Nat /\ planStep \in Nat
  BY PlanSane
<1>4. /\ Phrase(what) \in TextToken /\ Phrase(what).what = what
      /\ what \in WrittenByModel /\ what # "no move"
  <2>1. what \in TextOfLoop \cup WrittenByModel /\ what # "no move"
    BY DEF WrittenByModel
  <2>2. PhraseAt(what, planTurn, planStep) \in TextToken
        /\ PhraseAt(what, planTurn, planStep).what = what
    BY <1>3, <2>1, PhraseIs
  <2> QED BY <2>1, <2>2 DEF Phrase
<1>5. PICK text : text = Phrase(what)
  OBVIOUS
<1>6. text \in TextToken /\ text.what \in WrittenByModel /\ text.what # "no move"
  BY <1>4, <1>5
<1>7. /\ Answered(Heard(text)) /\ Sum(Heard(text).rewards) = Sum(talk.rewards)
      /\ Texts(Heard(text).said) = Append(Texts(talk.said), text)
  BY <1>1, <1>2, <1>6, HeardAnswers
<1>8. talk.said \in Seq(Message)
  BY <1>1, TalkParts DEF TalkType
<1>9. Texts(talk.said) \in Seq(TextToken)
  BY <1>8, TextsAre
<1>10. /\ NoMoveBefore(Append(Texts(talk.said), text), planTurn)
       /\ sim.end = "shut" => OverBefore(Append(Texts(talk.said), text), planTurn)
  <2>1. planTurn <= planTurn
    BY <1>3
  <2> QED BY <1>2, <1>3, <1>6, <1>9, <2>1, EndsAppend
<1>11. TalkFits(Heard(text)) /\ Heard(text).said \in Seq(Message)
  <2>1. TalkFits(Heard(text))
    BY <1>7 DEF Answered
  <2>2. Heard(text) \in TalkType
    BY <2>1, TalkParts
  <2> QED BY <2>1, <2>2 DEF TalkType
<1>12. Texts(Heard(text).said) \in Seq(TextToken)
  BY <1>11, TextsAre
<1> QED BY <1>1, <1>2, <1>5, <1>7, <1>10, <1>11, <1>12

LEMMA AnswerNowKeeps ==
  ASSUME PlanIInv, AnswerNow
  PROVE  PlanIInv'
<1> DEFINE x == Heard(Phrase("answer"))
<1>1. /\ at = "think" /\ talk' = x /\ at' = "join" /\ decision' \in {"none", "legal", "illegal"}
      /\ UNCHANGED <<setup, played, planTurn, planStep, sim, whole, paid, result>>
  BY DEF AnswerNow
<1> HIDE DEF x
<1>2. /\ Answered(x) /\ TalkFits(x) /\ Sum(x.rewards) = Sum(talk.rewards)
      /\ NoMoveBefore(Texts(x.said), planTurn)
      /\ Sum(whole.rewards) + Sum(talk.rewards) = paid
  BY <1>1, ThoughtIs DEF x, WrittenByModel
<1>3. planTurn \in Nat /\ planTurn <= setup.trajs /\ setup.trajs \in Nat
  BY PlanSane
<1>4. PlanTypeOK' /\ paid' \in Int
  BY <1>1, PlanSane, PlanTypeNext
<1>5. at' \notin {"return", "done"} => played' <= setup'.steps
  BY <1>1 DEF PlanIInv
<1>6. WholeFits'
  <2>1. WholeFits
    BY DEF PlanIInv
  <2> QED BY <1>1, <1>2, <2>1 DEF WholeFits
<1>7. HeardSays(at', talk', setup'.trajs)
  BY <1>1, <1>2, <1>3, AnsweredSays
<1> QED BY <1>1, <1>2, <1>4, <1>5, <1>6, <1>7, PlanIInvParts

LEMMA Resaid ==
  ASSUME NEW t, TalkFits(t), NEW said
  PROVE  Talked([t EXCEPT !.said = said], said, t.ids, t.mask, t.rewards)
<1>1. t \in TalkType
  BY TalkParts
<1> QED BY <1>1 DEF Talked, TalkType

LEMMA Repaid ==
  ASSUME NEW t, TalkFits(t), NEW worth
  PROVE  Talked([t EXCEPT !.rewards = worth], t.said, t.ids, t.mask, worth)
<1>1. t \in TalkType
  BY TalkParts
<1> QED BY <1>1 DEF Talked, TalkType

\* A text is added to what waits to be told.
\* x is t with a user's text more.
SaidOn(x, t, text, turn, later) ==
  /\ Waits(x) /\ TalkFits(x) /\ Pending(x) /\ Last(x.said).role = "user"
  /\ Sum(x.rewards) = Sum(t.rewards)
  /\ Texts(x.said) = Append(Texts(t.said), text)
  /\ NoMoveBefore(Texts(x.said), later)
  /\ OverBefore(Texts(t.said), turn) => OverBefore(Texts(x.said), later)
  /\ text.what = "game over" /\ text.turn < later => OverBefore(Texts(x.said), later)

LEMMA SayOn ==
  ASSUME NEW t, Answered(t) \/ Waits(t), NEW text \in TextToken, text.what \notin WrittenByModel,
         NEW turn \in Nat, NEW later \in Nat, turn <= later,
         NoMoveBefore(Texts(t.said), turn), text.what = "no move" => text.turn < later
  PROVE  SaidOn([t EXCEPT !.said = AddUser(@, text)], t, text, turn, later)
<1>1. TalkFits(t)
  BY DEF Answered, Waits
<1>2. PICK x : x = [t EXCEPT !.said = AddUser(@, text)]
  OBVIOUS
<1>3. Talked(x, AddUser(t.said, text), t.ids, t.mask, t.rewards)
  BY <1>1, <1>2, Resaid
<1>4. /\ Waits(x) /\ Sum(x.rewards) = Sum(t.rewards)
      /\ Texts(x.said) = Append(Texts(t.said), text)
  BY <1>3, WaitsMore
<1>5. TalkFits(x) /\ Pending(x) /\ Last(x.said).role = "user"
  BY <1>4 DEF Waits
<1>6. Texts(t.said) \in Seq(TextToken)
  <2>1. t.said \in Seq(Message)
    BY <1>1, TalkParts DEF TalkType
  <2> QED BY <2>1, TextsAre
<1>7. /\ NoMoveBefore(Append(Texts(t.said), text), later)
      /\ OverBefore(Texts(t.said), turn) => OverBefore(Append(Texts(t.said), text), later)
      /\ text.what = "game over" /\ text.turn < later
           => OverBefore(Append(Texts(t.said), text), later)
  BY <1>6, EndsAppend
<1> QED BY <1>2, <1>4, <1>5, <1>7 DEF SaidOn

\* The planner's steps leave the game alone and account for what they give.
LEMMA WholeStays ==
  ASSUME PlanIInv, at \in {"think", "summarise", "join"}, whole' = whole,
         at' \in {"think", "summarise", "join", "raised"}, NEW d \in Int, paid' = paid + d,
         Sum(talk'.rewards) = Sum(talk.rewards) + d, talk'.rewards \in Seq(Int)
  PROVE  WholeFits' /\ paid' \in Int
<1>1. /\ whole \in [ids : Seq(Token), mask : Seq(Marks), rewards : Seq(Int)] /\ Fits(whole, 2)
      /\ Sum(whole.rewards) + Sum(talk.rewards) = paid
  BY DEF PlanIInv, WholeFits
<1>2. TalkFits(talk)
  BY DEF PlanIInv
<1>3. Sum(whole.rewards) \in Int /\ Sum(talk.rewards) \in Int
  <2>1. whole.rewards \in Seq(Int) /\ talk.rewards \in Seq(Int)
    BY <1>1, <1>2, TalkParts DEF TalkType
  <2> QED BY <2>1, SumJoined
<1>4. Sum(whole.rewards) + Sum(talk'.rewards) = paid' /\ paid' \in Int
  BY ONLY <1>1, <1>3, d \in Int, paid' = paid + d, Sum(talk'.rewards) = Sum(talk.rewards) + d
<1> QED BY <1>1, <1>4 DEF WholeFits

\* What the two ways to go on from a trajectory need.
LEMMA RestartKeeps ==
  ASSUME PlanIInv, at = "think", ~LastTurn, NEW t, Answered(t) \/ Waits(t), NEW now,
         NEW d \in Int, Restart(now, t),
         UNCHANGED <<setup, played, decision, whole>>, paid' = paid + d,
         Sum(t.rewards) = Sum(talk.rewards) + d,
         NEW turn \in {planTurn, planTurn + 1}, NoMoveBefore(Texts(t.said), turn),
         now.end \in {"no", "open", "shut"}, now.moved \in Nat,
         now.moved <= setup.trajs * setup.horizon,
         now.moved <= ((planTurn + 1) - 1) * setup.horizon + 1 - 1,
         now.end = "shut" => OverBefore(Texts(t.said), turn) \/
                             OverBefore(Texts(t.said), planTurn + 1)
  PROVE  PlanIInv'
<1> DEFINE text == PhraseAt("restart", planTurn', now.moved)
           x == [t EXCEPT !.said = AddUser(@, text)]
           later == planTurn + 1
<1>1. /\ planTurn' = later /\ planStep' = 1 /\ sim' = now /\ talk' = x /\ at' = "think"
  BY DEF Restart
<1>2. /\ planTurn \in Nat /\ planTurn <= setup.trajs /\ setup.trajs \in Nat /\ played \in Nat
      /\ setup.horizon \in Nat /\ setup.horizon > 0 /\ played <= setup.steps + 1
      /\ decision \in {"none", "legal", "illegal"}
  BY PlanSane
<1>3. later \in Nat /\ turn \in Nat /\ turn <= later /\ later > 0 /\ later <= setup.trajs
  BY <1>2 DEF LastTurn
<1>4. text \in TextToken /\ text.what = "restart"
  <2>1. "restart" \in TextOfLoop \cup WrittenByModel
    BY DEF TextOfLoop
  <2> QED BY <1>1, <1>2, <1>3, <2>1, PhraseIs
<1>5. text.what \notin WrittenByModel /\ text.what # "no move"
  BY <1>4 DEF WrittenByModel
<1> HIDE DEF text
<1>6. /\ Waits(x) /\ TalkFits(x) /\ Pending(x) /\ Last(x.said).role = "user"
      /\ Sum(x.rewards) = Sum(t.rewards)
      /\ NoMoveBefore(Texts(x.said), later)
      /\ OverBefore(Texts(t.said), turn) => OverBefore(Texts(x.said), later)
      /\ Texts(x.said) = Append(Texts(t.said), text)
  <2>1. text.what = "no move" => text.turn < later
    BY <1>5
  <2>2. SaidOn(x, t, text, turn, later)
    <3> HIDE DEF later
    <3> QED BY <1>3, <1>4, <1>5, <2>1, SayOn, Zenon
  <2> HIDE DEF x
  <2> QED BY ONLY <2>2 DEF SaidOn
<1>7. OverBefore(Texts(t.said), later) => OverBefore(Texts(x.said), later)
  <2>1. Texts(x.said) = Append(Texts(t.said), text)
    BY <1>6
  <2>2. Texts(t.said) \in Seq(TextToken)
    <3>1. TalkFits(t)
      BY DEF Answered, Waits
    <3>2. t.said \in Seq(Message)
      BY <3>1, TalkParts DEF TalkType
    <3> QED BY <3>2, TextsAre
  <2>3. later <= later
    BY <1>3
  <2> QED BY <1>3, <1>4, <2>1, <2>2, <2>3, EndsAppend
<1> HIDE DEF x, later
<1>8. PlanTypeOK'
  <2>1. 1 \in Nat /\ 1 > 0 /\ 1 <= setup.horizon
    BY <1>2
  <2> QED BY <1>1, <1>2, <1>3, <2>1, PlanTypeNext
<1>9. at' \notin {"return", "done"} => played' <= setup'.steps
  BY DEF PlanIInv
<1>10. WholeFits' /\ paid' \in Int
  <2>1. x.rewards \in Seq(Int)
    BY <1>6, TalkParts DEF TalkType
  <2>2. Sum(talk'.rewards) = Sum(talk.rewards) + d
    BY <1>1, <1>6
  <2> QED BY <1>1, <2>1, <2>2, WholeStays
<1>11. HeardSays(at', talk', setup'.trajs)
  BY <1>1, <1>2, <1>3, <1>6, ThinkSays
<1>12. ThinkingOf(talk', sim', planTurn', planStep', setup'.horizon)
  <2>1. now.end = "shut" => OverBefore(Texts(x.said), later)
    BY <1>6, <1>7 DEF later
  <2>2. now.moved <= (later - 1) * setup.horizon + 1 - 1
    BY DEF later
  <2> QED BY <1>1, <1>6, <2>1, <2>2 DEF ThinkingOf
<1> QED BY <1>1, <1>6, <1>8, <1>9, <1>10, <1>11, <1>12, PlanIInvParts

LEMMA SummaryKeeps ==
  ASSUME PlanIInv, at = "think", NEW t, TalkFits(t), NEW now, NEW d \in Int, ToSummary(now, t),
         UNCHANGED <<setup, played, decision, whole>>, paid' = paid + d,
         Sum(t.rewards) = Sum(talk.rewards) + d,
         now.end \in {"no", "open", "shut"}, now.moved \in Nat,
         now.moved <= setup.trajs * setup.horizon,
         HeardSays("summarise", t, setup.trajs)
  PROVE  PlanIInv'
<1>1. talk' = t /\ sim' = now /\ at' = "summarise" /\ planTurn' = planTurn /\ planStep' = planStep
  BY DEF ToSummary
<1>2. PlanTypeOK'
  BY <1>1, PlanSane, PlanTypeNext
<1>3. at' \notin {"return", "done"} => played' <= setup'.steps
  BY DEF PlanIInv
<1>4. WholeFits' /\ paid' \in Int
  <2>1. t.rewards \in Seq(Int)
    BY TalkParts DEF TalkType
  <2> QED BY <1>1, <2>1, WholeStays
<1> QED BY <1>1, <1>2, <1>3, <1>4, PlanIInvParts

LEMMA TextIs ==
  ASSUME PlanIInv, NEW what \in TextOfLoop
  PROVE  /\ Phrase(what) \in TextToken /\ Phrase(what).what = what
         /\ Phrase(what).turn = planTurn /\ Phrase(what).what \notin WrittenByModel
<1>1. played \in Nat /\ planTurn \in Nat /\ planStep \in Nat
  BY PlanSane
<1>2. what \in TextOfLoop \cup WrittenByModel /\ what \notin WrittenByModel
  BY DEF TextOfLoop, WrittenByModel
<1> QED BY <1>1, <1>2, PhraseIs DEF Phrase

\* Only what was said for want of a move in the last trajectory is not told.
LEMMA LastNoMove ==
  ASSUME NEW t, Answered(t), NEW text \in TextToken, NEW last \in Nat,
         text.what = "no move", text.turn = last,
         NoMoveBefore(Texts(t.said), last), NEW x, x.ids = t.ids,
         Texts(x.said) = Append(Texts(t.said), text)
  PROVE  HeardSays("summarise", x, last)
<1>1. t.said \in Seq(Message) /\ Among(t.ids, TextToken) = Texts(t.said)
  BY TalkParts DEF Answered, AllTold, TalkType
<1>2. PICK a \in Seq(TextToken) : a = Texts(t.said)
  BY <1>1, TextsAre
<1>3. PICK b : b \in Seq(TextToken) /\ b = <<text>> /\ Len(b) = 1 /\ b[1] = text
  <2>1. <<text>> \in Seq(TextToken) /\ Len(<<text>>) = 1 /\ <<text>>[1] = text
    BY ONLY text \in TextToken
  <2> QED BY <2>1
<1>4. Append(a, text) = a \o b
  BY <1>2, <1>3, AppendIsConcat
<1>5. Among(a \o b, ToldTexts(last)) = Among(a, ToldTexts(last)) \o Among(b, ToldTexts(last))
  <2>1. a \in Seq(TextToken) /\ b \in Seq(TextToken)
    BY <1>2, <1>3
  <2> QED BY ONLY <2>1, AmongJoined
<1>6. Among(a, ToldTexts(last)) = a
  <2>1. last <= last
    BY ONLY last \in Nat
  <2> QED BY <1>2, <2>1, ToldAreAll DEF ToldTexts
<1>7. Among(b, ToldTexts(last)) = <<>>
  <2>1. \A i \in 1 .. Len(b) : b[i] = text
    BY ONLY <1>3
  <2>2. text \notin ToldTexts(last)
    BY DEF ToldTexts
  <2>3. \A i \in 1 .. Len(b) : b[i] \notin ToldTexts(last)
    BY <2>1, <2>2
  <2> QED BY <1>3, <2>3, AmongNone
<1>8. a \o <<>> = a
  BY <1>2, ConcatEmptySeq
<1>9. Among(Texts(x.said), ToldTexts(last)) = Among(x.ids, TextToken)
  BY <1>1, <1>2, <1>4, <1>5, <1>6, <1>7, <1>8
<1> QED BY <1>9 DEF HeardSays

LEMMA EndTurnKeeps ==
  ASSUME PlanIInv, EndTurn
  PROVE  PlanIInv'
<1> DEFINE heard == Heard(Phrase("thought"))
           text == Phrase("no move")
           x == [heard EXCEPT !.said = AddUser(@, text)]
<1>1. PICK feedback \in BOOLEAN :
        LET t == IF feedback THEN x ELSE heard
        IN  IF LastTurn THEN ToSummary(sim, t) ELSE Restart(sim, t)
  BY DEF EndTurn
<1>2. at = "think" /\ UNCHANGED <<setup, played, decision, whole, paid, result>>
  BY DEF EndTurn
<1>3. text \in TextToken /\ text.what = "no move" /\ text.turn = planTurn /\ text.what \notin WrittenByModel
  BY TextIs DEF TextOfLoop
<1> HIDE DEF text
<1>4. /\ Answered(heard) /\ TalkFits(heard) /\ Sum(heard.rewards) = Sum(talk.rewards)
      /\ NoMoveBefore(Texts(heard.said), planTurn)
      /\ sim.end = "shut" => OverBefore(Texts(heard.said), planTurn)
      /\ sim.moved <= (planTurn - 1) * setup.horizon + planStep - 1
  BY <1>2, ThoughtIs DEF WrittenByModel
<1> HIDE DEF heard
<1>5. /\ planTurn \in Nat /\ planTurn > 0 /\ planTurn <= setup.trajs /\ setup.trajs \in Nat
      /\ setup.horizon \in Nat /\ planStep \in Nat /\ planStep > 0 /\ planStep <= setup.horizon
      /\ sim.moved \in Nat /\ sim.moved <= setup.trajs * setup.horizon
      /\ sim.end \in {"no", "open", "shut"} /\ paid \in Int
  BY PlanSane
<1>6. sim.moved <= ((planTurn + 1) - 1) * setup.horizon + 1 - 1
  <2>1. PICK m \in Nat : m = sim.moved
    BY <1>5
  <2>2. PICK h \in Nat : h = setup.horizon
    BY <1>5
  <2>3. PICK last \in Nat : last = setup.trajs
    BY <1>5
  <2>4. m <= ((planTurn + 1) - 1) * h + 1 - 1
    BY <1>4, <1>5, <2>1, <2>2, <2>3, Budget
  <2> QED BY <2>1, <2>2, <2>4
<1>7. 0 \in Int /\ paid' = paid + 0
  BY <1>2, <1>5
<1>8. /\ Waits(x) /\ TalkFits(x) /\ Sum(x.rewards) = Sum(heard.rewards)
      /\ Texts(x.said) = Append(Texts(heard.said), text)
      /\ NoMoveBefore(Texts(x.said), planTurn + 1)
      /\ OverBefore(Texts(heard.said), planTurn) => OverBefore(Texts(x.said), planTurn + 1)
  <2>1. planTurn + 1 \in Nat /\ planTurn <= planTurn + 1 /\ planTurn < planTurn + 1
    BY <1>5
  <2>2. text.turn < planTurn + 1
    BY <1>3, <2>1
  <2>3. SaidOn(x, heard, text, planTurn, planTurn + 1)
    BY <1>3, <1>4, <1>5, <2>1, <2>2, SayOn, Zenon
  <2> HIDE DEF x
  <2> QED BY ONLY <2>3 DEF SaidOn
<1>9. x.ids = heard.ids
  <2>1. heard \in TalkType
    BY <1>4, TalkParts
  <2> QED BY <2>1 DEF TalkType
<1> HIDE DEF x
<1>10. Sum(talk.rewards) \in Int
  <2>1. TalkFits(talk)
    BY <1>2 DEF PlanIInv
  <2>2. talk.rewards \in Seq(Int)
    BY <2>1, TalkParts DEF TalkType
  <2> QED BY <2>2, SumJoined
<1>11. Sum(heard.rewards) = Sum(talk.rewards) + 0 /\ Sum(x.rewards) = Sum(talk.rewards) + 0
  BY <1>4, <1>8, <1>10
<1>12. CASE LastTurn
  <2>1. planTurn = setup.trajs
    BY <1>12 DEF LastTurn
  <2>2. HeardSays("summarise", heard, setup.trajs)
    BY <1>4, <1>5, AnsweredSays
  <2>3. HeardSays("summarise", x, setup.trajs)
    BY <1>3, <1>4, <1>5, <1>8, <1>9, <2>1, LastNoMove
  <2>4. CASE feedback
    <3>1. ToSummary(sim, x)
      BY <1>1, <1>12, <2>4
    <3> QED BY <1>2, <1>5, <1>7, <1>8, <1>11, <2>3, <3>1, SummaryKeeps
  <2>5. CASE ~feedback
    <3>1. ToSummary(sim, heard)
      BY <1>1, <1>12, <2>5
    <3> QED BY <1>2, <1>4, <1>5, <1>7, <1>11, <2>2, <3>1, SummaryKeeps
  <2> QED BY <2>4, <2>5
<1>13. CASE ~LastTurn
  <2>1. CASE feedback
    <3>1. Restart(sim, x)
      BY <1>1, <1>13, <2>1
    <3>2. sim.end = "shut" => OverBefore(Texts(x.said), planTurn + 1)
      BY <1>4, <1>8
    <3> QED BY <1>2, <1>5, <1>6, <1>7, <1>8, <1>11, <1>13, <3>1, <3>2, RestartKeeps
  <2>2. CASE ~feedback
    <3>1. Restart(sim, heard)
      BY <1>1, <1>13, <2>2
    <3> QED BY <1>2, <1>4, <1>5, <1>6, <1>7, <1>11, <1>13, <3>1, RestartKeeps
  <2> QED BY <2>1, <2>2
<1> QED BY <1>12, <1>13

LEMMA EndPlanningKeeps ==
  ASSUME PlanIInv, EndPlanning
  PROVE  PlanIInv'
<1> DEFINE heard == Heard(Phrase("thought"))
<1>1. /\ at = "think" /\ ToSummary(sim, heard)
      /\ UNCHANGED <<setup, played, decision, whole, paid, result>>
  BY DEF EndPlanning
<1>2. /\ Answered(heard) /\ TalkFits(heard) /\ Sum(heard.rewards) = Sum(talk.rewards)
      /\ NoMoveBefore(Texts(heard.said), planTurn)
  BY <1>1, ThoughtIs DEF WrittenByModel
<1> HIDE DEF heard
<1>3. /\ planTurn \in Nat /\ planTurn <= setup.trajs /\ setup.trajs \in Nat
      /\ sim.moved \in Nat /\ sim.moved <= setup.trajs * setup.horizon
      /\ sim.end \in {"no", "open", "shut"} /\ paid \in Int
  BY PlanSane
<1>4. 0 \in Int /\ paid' = paid + 0
  BY <1>1, <1>3
<1>5. Sum(heard.rewards) = Sum(talk.rewards) + 0
  <2>1. talk.rewards \in Seq(Int)
    BY <1>1, TalkParts DEF PlanIInv, TalkType
  <2>2. Sum(talk.rewards) \in Int
    BY <2>1, SumJoined
  <2> QED BY <1>2, <2>2
<1>6. HeardSays("summarise", heard, setup.trajs)
  BY <1>2, <1>3, AnsweredSays
<1> QED BY <1>1, <1>2, <1>3, <1>4, <1>5, <1>6, SummaryKeeps

\* A simulated move is fined and reported.
LEMMA MovedIs ==
  ASSUME PlanIInv, at = "think", NEW r \in Int
  PROVE  /\ Waits(Moved(r)) /\ Sum(Moved(r).rewards) = Sum(talk.rewards) + (r - Fine)
         /\ NoMoveBefore(Texts(Moved(r).said), planTurn)
         /\ sim.end = "shut" => OverBefore(Texts(Moved(r).said), planTurn)
<1> DEFINE heard == Heard(Phrase("thought"))
           y == [heard EXCEPT !.rewards = AddToLast(@, r - Fine)]
           text == Phrase("feedback")
<1>1. /\ Answered(heard) /\ TalkFits(heard) /\ Sum(heard.rewards) = Sum(talk.rewards)
      /\ NoMoveBefore(Texts(heard.said), planTurn)
      /\ sim.end = "shut" => OverBefore(Texts(heard.said), planTurn)
  BY ThoughtIs DEF WrittenByModel
<1>2. text \in TextToken /\ text.what = "feedback" /\ text.what \notin WrittenByModel
  BY TextIs DEF TextOfLoop
<1>3. Moved(r) = [heard EXCEPT !.rewards = AddToLast(@, r - Fine), !.said = AddUser(@, text)]
  BY DEF Moved
<1> HIDE DEF heard, text
<1>4. heard \in TalkType
  BY <1>1, TalkParts
<1>5. Moved(r) = [y EXCEPT !.said = AddUser(@, text)]
  BY <1>3, <1>4 DEF TalkType
<1>6. r - Fine \in Int
  BY DEF Fine
<1>7. Talked(y, heard.said, heard.ids, heard.mask, AddToLast(heard.rewards, r - Fine))
  BY <1>1, Repaid
<1> HIDE DEF y
<1>8. /\ TalkFits(y) /\ y.said = heard.said /\ y.ids = heard.ids
      /\ Sum(y.rewards) = Sum(heard.rewards) + (r - Fine)
  BY <1>1, <1>6, <1>7, TalkPaid
<1>9. Answered(y) /\ NoMoveBefore(Texts(y.said), planTurn)
      /\ (sim.end = "shut" => OverBefore(Texts(y.said), planTurn))
  BY <1>1, <1>8 DEF Answered, AllTold
<1>10. planTurn \in Nat /\ planTurn <= planTurn
  BY PlanSane
<1>11. /\ Waits(Moved(r)) /\ Sum(Moved(r).rewards) = Sum(y.rewards)
       /\ NoMoveBefore(Texts(Moved(r).said), planTurn)
       /\ OverBefore(Texts(y.said), planTurn) => OverBefore(Texts(Moved(r).said), planTurn)
  <2>1. text.what # "no move"
    BY <1>2
  <2>2. PICK z : z = [y EXCEPT !.said = AddUser(@, text)]
    OBVIOUS
  <2>3. SaidOn([y EXCEPT !.said = AddUser(@, text)], y, text, planTurn, planTurn)
    BY <1>2, <1>9, <1>10, <2>1, SayOn, Zenon
  <2>4. SaidOn(z, y, text, planTurn, planTurn) /\ z = Moved(r)
    BY ONLY <1>5, <2>2, <2>3
  <2> QED BY ONLY <2>4 DEF SaidOn
<1> QED BY <1>1, <1>8, <1>9, <1>11

LEMMA AmongAppend ==
  ASSUME NEW U, NEW s \in Seq(U), NEW e \in U, NEW S, e \in S
  PROVE  Among(Append(s, e), S) = Append(Among(s, S), e)
<1>1. PICK b : b \in Seq(U) /\ b = <<e>> /\ Len(b) = 1 /\ b[1] = e
  <2>1. <<e>> \in Seq(U) /\ Len(<<e>>) = 1 /\ <<e>>[1] = e
    BY ONLY e \in U
  <2> QED BY <2>1
<1>2. Append(s, e) = s \o b
  BY <1>1, AppendIsConcat
<1>3. Among(s \o b, S) = Among(s, S) \o Among(b, S)
  <2>1. b \in Seq(U)
    BY <1>1
  <2> QED BY ONLY <2>1, s \in Seq(U), AmongJoined
<1>4. Among(b, S) = b
  <2>1. \A i \in 1 .. Len(b) : b[i] \in S
    <3>1. \A i \in 1 .. Len(b) : b[i] = e
      BY ONLY <1>1
    <3> QED BY <3>1
  <2> QED BY <1>1, <2>1, AmongAll
<1>5. PICK a \in Seq(U) : a = Among(s, S)
  BY AmongType
<1>6. Append(a, e) = a \o b
  BY <1>1, <1>5, AppendIsConcat
<1> QED BY <1>2, <1>3, <1>4, <1>5, <1>6

LEMMA TwoMore ==
  ASSUME NEW U, NEW s \in Seq(U), NEW d \in U, NEW e \in U
  PROVE  s \o <<d, e>> = Append(Append(s, d), e)
<1>1. PICK n \in Nat : n = Len(s)
  BY LenProperties
<1>2. /\ Append(s, d) \in Seq(U) /\ Len(Append(s, d)) = n + 1
      /\ \A i \in 1 .. n : Append(s, d)[i] = s[i]
      /\ Append(s, d)[n + 1] = d
  BY <1>1, AppendProperties
<1>3. /\ Append(Append(s, d), e) \in Seq(U) /\ Len(Append(Append(s, d), e)) = n + 2
      /\ \A i \in 1 .. n + 1 : Append(Append(s, d), e)[i] = Append(s, d)[i]
      /\ Append(Append(s, d), e)[n + 2] = e
  <2>1. PICK a \in Seq(U) : a = Append(s, d)
    BY <1>2
  <2>2. /\ Append(a, e) \in Seq(U) /\ Len(Append(a, e)) = Len(a) + 1
        /\ \A i \in 1 .. Len(a) : Append(a, e)[i] = a[i]
        /\ Append(a, e)[Len(a) + 1] = e
    BY <2>1, AppendProperties
  <2>3. Len(a) = n + 1 /\ Len(a) + 1 = n + 2
    BY <1>1, <1>2, <2>1
  <2> QED BY <2>1, <2>2, <2>3
<1>4. PICK b : b \in Seq(U) /\ b = <<d, e>> /\ Len(b) = 2 /\ b[1] = d /\ b[2] = e
  <2>1. <<d, e>> \in Seq(U) /\ Len(<<d, e>>) = 2 /\ <<d, e>>[1] = d /\ <<d, e>>[2] = e
    BY ONLY d \in U, e \in U
  <2> QED BY <2>1
<1>5. /\ s \o b \in Seq(U) /\ Len(s \o b) = n + 2
      /\ \A i \in 1 .. n + 2 : (s \o b)[i] = IF i <= n THEN s[i] ELSE b[i - n]
  BY <1>1, <1>4, ConcatProperties
<1>6. \A i \in 1 .. n + 2 : (s \o b)[i] = Append(Append(s, d), e)[i]
  <2> TAKE i \in 1 .. n + 2
  <2>1. CASE i <= n
    <3>1. i \in 1 .. n /\ i \in 1 .. n + 1
      BY <1>1, <2>1
    <3> QED BY <1>2, <1>3, <1>5, <2>1, <3>1
  <2>2. CASE i = n + 1
    <3>1. i \in 1 .. n + 1 /\ ~(i <= n) /\ i - n = 1
      BY <1>1, <2>2
    <3> QED BY <1>2, <1>3, <1>4, <1>5, <2>2, <3>1
  <2>3. CASE i = n + 2
    <3>1. ~(i <= n) /\ i - n = 2
      BY <1>1, <2>3
    <3> QED BY <1>3, <1>4, <1>5, <2>3, <3>1
  <2>4. i <= n \/ i = n + 1 \/ i = n + 2
    BY <1>1
  <2> QED BY <2>1, <2>2, <2>3, <2>4
<1>7. s \o b = Append(Append(s, d), e)
  BY <1>3, <1>5, <1>6, SeqEqual
<1> QED BY <1>4, <1>7

LEMMA MovesBudget ==
  ASSUME PlanIInv, at = "think"
  PROVE  /\ sim.moved + 1 \in Nat /\ sim.moved + 1 <= setup.trajs * setup.horizon
         /\ sim.moved + 1 <= ((planTurn + 1) - 1) * setup.horizon + 1 - 1
         /\ sim.moved + 1 <= (planTurn - 1) * setup.horizon + (planStep + 1) - 1
<1>1. /\ planTurn \in Nat /\ planTurn > 0 /\ planTurn <= setup.trajs /\ setup.trajs \in Nat
      /\ setup.horizon \in Nat /\ planStep \in Nat /\ planStep > 0 /\ planStep <= setup.horizon
      /\ sim.moved \in Nat
  BY PlanSane
<1>2. sim.moved <= (planTurn - 1) * setup.horizon + planStep - 1
  BY ThoughtIs DEF WrittenByModel
<1>3. PICK m \in Nat : m = sim.moved
  BY <1>1
<1>4. PICK h \in Nat : h = setup.horizon
  BY <1>1
<1>5. PICK last \in Nat : last = setup.trajs
  BY <1>1
<1>6. /\ m + 1 <= last * h /\ m + 1 <= ((planTurn + 1) - 1) * h + 1 - 1
      /\ m + 1 <= (planTurn - 1) * h + (planStep + 1) - 1
  <2>1. m <= (planTurn - 1) * h + planStep - 1
    BY <1>2, <1>3, <1>4
  <2> QED BY <1>1, <1>3, <1>4, <1>5, <2>1, Budget
<1>7. m + 1 \in Nat
  BY ONLY <1>3
<1> QED BY <1>3, <1>4, <1>5, <1>6, <1>7

LEMMA SimulateOnKeeps ==
  ASSUME PlanIInv, SimulateOn
  PROVE  PlanIInv'
<1> DEFINE text == Phrase("state")  y == Moved(0)
           x == [y EXCEPT !.said = AddUser(@, text)]
<1>1. /\ at = "think" /\ sim.end # "shut" /\ planStep + 1 <= setup.horizon
      /\ planStep' = planStep + 1 /\ sim' = [sim EXCEPT !.moved = sim.moved + 1] /\ talk' = x
      /\ paid' = paid - Fine
      /\ UNCHANGED <<setup, at, played, planTurn, decision, whole, result>>
  BY DEF SimulateOn
<1>2. /\ Waits(y) /\ Sum(y.rewards) = Sum(talk.rewards) + (0 - Fine)
      /\ NoMoveBefore(Texts(y.said), planTurn)
  BY <1>1, MovedIs
<1>3. text \in TextToken /\ text.what = "state" /\ text.what \notin WrittenByModel
  BY TextIs DEF TextOfLoop
<1> HIDE DEF text, y
<1>4. /\ planTurn \in Nat /\ planTurn <= planTurn /\ planTurn <= setup.trajs /\ setup.trajs \in Nat
      /\ planStep \in Nat /\ sim.end \in {"no", "open", "shut"} /\ paid \in Int
  BY PlanSane
<1>5. /\ Waits(x) /\ TalkFits(x) /\ Pending(x) /\ Last(x.said).role = "user"
      /\ Sum(x.rewards) = Sum(y.rewards)
      /\ NoMoveBefore(Texts(x.said), planTurn)
  <2>1. text.what # "no move"
    BY <1>3
  <2>2. SaidOn(x, y, text, planTurn, planTurn)
    BY <1>2, <1>3, <1>4, <2>1, SayOn, Zenon
  <2> HIDE DEF x
  <2> QED BY ONLY <2>2 DEF SaidOn
<1> HIDE DEF x
<1>6. sim'.end = sim.end /\ (sim'.moved = sim.moved + 1 \/ sim'.moved = sim.moved)
  BY <1>1
<1>7. /\ sim'.moved \in Nat /\ sim'.moved <= setup.trajs * setup.horizon
      /\ sim'.moved <= (planTurn - 1) * setup.horizon + (planStep + 1) - 1
  <2>1. CASE sim'.moved = sim.moved + 1
    BY <1>1, <2>1, MovesBudget
  <2>2. CASE sim'.moved = sim.moved
    <3>1. PICK b \in Nat : b = setup.trajs * setup.horizon
      BY PlanSane
    <3>2. PICK c \in Int : c = (planTurn - 1) * setup.horizon + (planStep + 1) - 1
      BY PlanSane
    <3>3. PICK m \in Nat : m = sim.moved
      BY PlanSane
    <3>4. m + 1 <= b /\ m + 1 <= c
      BY <1>1, <3>1, <3>2, <3>3, MovesBudget
    <3>5. m <= b /\ m <= c
      BY ONLY <3>1, <3>2, <3>3, <3>4
    <3> QED BY <2>2, <3>1, <3>2, <3>3, <3>5
  <2> QED BY <1>6, <2>1, <2>2
<1>8. PlanTypeOK'
  <2>1. planStep + 1 \in Nat /\ planStep + 1 > 0
    BY <1>4
  <2> QED BY <1>1, <1>6, <1>7, <2>1, PlanSane, PlanTypeNext
<1>9. at' \notin {"return", "done"} => played' <= setup'.steps
  BY <1>1 DEF PlanIInv
<1>10. WholeFits' /\ paid' \in Int
  <2>1. x.rewards \in Seq(Int)
    BY <1>5, TalkParts DEF TalkType
  <2>2. paid' = paid + (0 - Fine) /\ 0 - Fine \in Int
    BY <1>1, <1>4 DEF Fine
  <2> QED BY <1>1, <1>2, <1>5, <2>1, <2>2, WholeStays
<1>11. HeardSays(at', talk', setup'.trajs)
  BY <1>1, <1>4, <1>5, ThinkSays
<1>12. ThinkingOf(talk', sim', planTurn', planStep', setup'.horizon)
  BY <1>1, <1>5, <1>6, <1>7 DEF ThinkingOf
<1> QED BY <1>1, <1>5, <1>8, <1>9, <1>10, <1>11, <1>12, PlanIInvParts

LEMMA LastWordsAre ==
  ASSUME NEW t, Waits(t)
  PROVE  /\ TalkFits(LastWords(t)) /\ AllTold(LastWords(t)) /\ LastWords(t).said = t.said
         /\ Sum(LastWords(t).rewards) = Sum(t.rewards)
<1>1. /\ TalkFits(t) /\ Last(t.said).role = "user"
      /\ Among(t.ids, TextToken) = Texts(Front(t.said))
  BY DEF Waits, Pending
<1>2. PICK words : words = Template(Last(t.said))
  OBVIOUS
<1>3. t.said \in Seq(Message) /\ Len(t.said) > 0 /\ Last(t.said) \in Message
  <2>1. t.said \in Seq(Message) /\ Len(t.said) > 1
    BY <1>1, TalkParts DEF TalkType
  <2>2. Len(t.said) > 0
    <3>1. Len(t.said) \in Nat
      BY <2>1, LenProperties
    <3> QED BY <2>1, <3>1
  <2> QED BY <2>1, <2>2, SplitLast
<1>4. /\ words \in Seq(Token) /\ Among(words, TextToken) = Last(t.said).texts
      /\ \A i \in 1 .. Len(words) : words[i].what \notin WrittenByModel
  <2>1. words \in Seq(Token)
    BY <1>2, <1>3, TemplateIs
  <2>2. words \o <<>> = words
    BY <2>1, ConcatEmptySeq
  <2>3. /\ Among(words \o <<>>, TextToken) = Last(t.said).texts
        /\ \A i \in 1 .. Len(words \o <<>>) : (words \o <<>>)[i].what \notin WrittenByModel
    BY <1>1, <1>2, LastTold
  <2> QED BY <2>1, <2>2, <2>3
<1>5. PICK x : x = Unmasked(t, words)
  OBVIOUS
<1>6. /\ TalkFits(x) /\ x.said = t.said /\ Sum(x.rewards) = Sum(t.rewards)
      /\ Among(x.ids, TextToken) = Among(t.ids, TextToken) \o Among(words, TextToken)
  BY <1>1, <1>4, <1>5, ToldFits
<1>7. Texts(t.said) = Texts(Front(t.said)) \o Last(t.said).texts
  BY <1>3, TextsSplit
<1>8. AllTold(x)
  BY <1>1, <1>4, <1>6, <1>7 DEF AllTold
<1>9. LastWords(t) = x
  BY <1>2, <1>5 DEF LastWords
<1> QED BY <1>6, <1>8, <1>9

LEMMA SimulateLastKeeps ==
  ASSUME PlanIInv, SimulateLast
  PROVE  PlanIInv'
<1>1. PICK over \in {"no", "open", "shut"}, r \in GameRewards :
        /\ over = "no" => planStep + 1 > setup.horizon /\ r = 0
        /\ LET t == [Moved(r) EXCEPT !.said =
                       AddUser(@, Phrase(IF over = "no" THEN "budget spent" ELSE "game over"))]
               now == [moved |-> sim.moved + 1, end |-> IF over = "no" THEN sim.end ELSE over]
           IN  IF LastTurn THEN ToSummary(now, LastWords(t)) ELSE Restart(now, t)
        /\ paid' = paid + r - Fine
  BY DEF SimulateLast
<1>2. /\ at = "think" /\ sim.end # "shut"
      /\ UNCHANGED <<setup, played, decision, whole, result>>
  BY DEF SimulateLast
<1> DEFINE what == IF over = "no" THEN "budget spent" ELSE "game over"
           text == Phrase(what)  y == Moved(r)
           x == [y EXCEPT !.said = AddUser(@, text)]
           now == [moved |-> sim.moved + 1, end |-> IF over = "no" THEN sim.end ELSE over]
<1>3. IF LastTurn THEN ToSummary(now, LastWords(x)) ELSE Restart(now, x)
  BY <1>1
<1>4. r \in Int /\ r - Fine \in Int
  <2>1. r \in Int
    BY PlanAssumption
  <2> QED BY <2>1 DEF Fine
<1>5. /\ Waits(y) /\ Sum(y.rewards) = Sum(talk.rewards) + (r - Fine)
      /\ NoMoveBefore(Texts(y.said), planTurn)
  BY <1>2, <1>4, MovedIs
<1>6. /\ text \in TextToken /\ text.what = what /\ text.turn = planTurn
      /\ text.what \notin WrittenByModel /\ text.what # "no move"
  <2>1. what \in TextOfLoop /\ what # "no move"
    BY DEF TextOfLoop
  <2> HIDE DEF what
  <2> QED BY <2>1, TextIs
<1>7. /\ planTurn \in Nat /\ planTurn <= setup.trajs /\ setup.trajs \in Nat
      /\ sim.end \in {"no", "open", "shut"} /\ paid \in Int
  BY PlanSane
<1>8. /\ now.moved = sim.moved + 1 /\ now.end \in {"no", "open", "shut"}
      /\ now.end = "shut" => what = "game over"
  BY <1>2, <1>7
<1>9. /\ now.moved \in Nat /\ now.moved <= setup.trajs * setup.horizon
      /\ now.moved <= ((planTurn + 1) - 1) * setup.horizon + 1 - 1
  BY <1>2, <1>8, MovesBudget
<1>10. paid' = paid + (r - Fine)
  BY <1>1, <1>4, <1>7 DEF Fine
<1> HIDE DEF what, text, y, now
<1>11. /\ planTurn <= planTurn /\ planTurn <= planTurn + 1 /\ planTurn + 1 \in Nat
       /\ planTurn < planTurn + 1
  BY ONLY <1>7
<1>12. /\ Waits(x) /\ Sum(x.rewards) = Sum(y.rewards)
       /\ NoMoveBefore(Texts(x.said), planTurn)
       /\ text.what = "game over" => OverBefore(Texts(x.said), planTurn + 1)
  <2>1. text.turn < planTurn + 1
    BY <1>6, <1>11
  <2>2. SaidOn(x, y, text, planTurn, planTurn)
    BY <1>5, <1>6, <1>7, <1>11, SayOn, Zenon
  <2>3. SaidOn(x, y, text, planTurn, planTurn + 1)
    BY <1>5, <1>6, <1>7, <1>11, SayOn, Zenon
  <2> HIDE DEF x
  <2> QED BY ONLY <2>1, <2>2, <2>3 DEF SaidOn
<1> HIDE DEF x
<1>13. CASE LastTurn
  <2>1. PICK z : z = LastWords(x)
    OBVIOUS
  <2>2. TalkFits(z) /\ AllTold(z) /\ z.said = x.said /\ Sum(z.rewards) = Sum(x.rewards)
    BY <1>12, <2>1, LastWordsAre
  <2>3. HeardSays("summarise", z, setup.trajs)
    BY <1>7, <1>12, <2>2, AllToldSays
  <2>4. ToSummary(now, z)
    BY <1>3, <1>13, <2>1
  <2> QED BY <1>2, <1>4, <1>5, <1>8, <1>9, <1>10, <1>12, <2>2, <2>3, <2>4, SummaryKeeps
<1>14. CASE ~LastTurn
  <2>1. Restart(now, x)
    BY <1>3, <1>14
  <2>2. now.end = "shut" => OverBefore(Texts(x.said), planTurn + 1)
    BY <1>6, <1>8, <1>12
  <2> QED BY <1>2, <1>4, <1>5, <1>8, <1>9, <1>10, <1>12, <1>14, <2>1, <2>2, RestartKeeps
<1> QED BY <1>13, <1>14

LEMMA SimulateFailsKeeps ==
  ASSUME PlanIInv, SimulateFails
  PROVE  PlanIInv'
<1> DEFINE x == Heard(Phrase("thought"))
<1>1. /\ at = "think" /\ sim.end = "shut" /\ at' = "raised" /\ talk' = x
      /\ UNCHANGED <<setup, played, planTurn, planStep, sim, decision, whole, paid, result>>
  BY DEF SimulateFails
<1>2. /\ TalkFits(x) /\ Sum(x.rewards) = Sum(talk.rewards)
      /\ OverBefore(Texts(x.said), planTurn)
      /\ Sum(whole.rewards) + Sum(talk.rewards) = paid
  BY <1>1, ThoughtIs DEF WrittenByModel
<1> HIDE DEF x
<1>3. PlanTypeOK' /\ paid' \in Int
  BY <1>1, PlanSane, PlanTypeNext
<1>4. at' \notin {"return", "done"} => played' <= setup'.steps
  BY <1>1 DEF PlanIInv
<1>5. WholeFits'
  <2>1. WholeFits
    BY DEF PlanIInv
  <2> QED BY <1>1, <1>2, <2>1 DEF WholeFits
<1>6. HeardSays(at', talk', setup'.trajs)
  BY <1>1 DEF HeardSays
<1> QED BY <1>1, <1>2, <1>3, <1>4, <1>5, <1>6, PlanIInvParts

LEMMA SummariseKeeps ==
  ASSUME PlanIInv, Summarise
  PROVE  PlanIInv'
<1> DEFINE asked == Phrase("summary prompt")  text == Phrase("summary")
           prompt == [role |-> "user", texts |-> <<asked>>]
           answer == [role |-> "assistant", texts |-> <<text>>]
           words == Template(prompt) \o Generate
           told == Unmasked(talk, words)
<1>1. /\ at = "summarise" /\ at' = "join" /\ decision' \in {"none", "legal", "illegal"}
      /\ UNCHANGED <<setup, played, planTurn, planStep, sim, whole, paid, result>>
      /\ talk' = [told EXCEPT !.ids = Append(@, text), !.mask = Append(@, 1),
                              !.rewards = Append(@, 0), !.said = @ \o <<prompt, answer>>]
  BY DEF Summarise
<1>2. /\ asked \in TextToken /\ asked.what = "summary prompt" /\ asked.what \notin WrittenByModel
  BY TextIs DEF TextOfLoop
<1>3. text \in TextToken /\ text.what = "summary" /\ text.what \in WrittenByModel
  <2>1. "summary" \in TextOfLoop \cup WrittenByModel
    BY DEF WrittenByModel
  <2>2. played \in Nat /\ planTurn \in Nat /\ planStep \in Nat
    BY PlanSane
  <2>3. PhraseAt("summary", planTurn, planStep) \in TextToken
        /\ PhraseAt("summary", planTurn, planStep).what = "summary"
    BY <2>1, <2>2, PhraseIs
  <2> QED BY <2>3 DEF Phrase, WrittenByModel
<1>4. TalkFits(talk) /\ HeardSays(at, talk, setup.trajs)
  BY <1>1, PlanParts DEF PlanIInv
<1>5. talk \in TalkType /\ Quiet(talk.said) /\ Len(talk.said) > 1
  BY <1>4, TalkParts
<1>6. talk.said \in Seq(Message) /\ talk.ids \in Seq(Token) /\ Len(talk.said) \in Nat
  <2>1. talk.said \in Seq(Message) /\ talk.ids \in Seq(Token)
    BY <1>5 DEF TalkType
  <2> QED BY <2>1, LenProperties
<1> HIDE DEF asked, text
<1>7. /\ prompt \in Message /\ prompt.texts = <<asked>> /\ prompt.role = "user"
      /\ answer \in Message /\ answer.texts = <<text>> /\ answer.role = "assistant"
  <2>0. asked \in TextToken /\ text \in TextToken
    BY <1>2, <1>3
  <2>1. <<asked>> \in Seq(TextToken) /\ <<text>> \in Seq(TextToken)
    BY ONLY <2>0, OneIs
  <2> QED BY <2>1 DEF Message, Roles
<1>8. \A j \in 1 .. Len(prompt.texts) : prompt.texts[j].what \notin WrittenByModel
  <2>0. asked \in TextToken
    BY <1>2
  <2>1. \A j \in 1 .. Len(<<asked>>) : <<asked>>[j] = asked
    BY ONLY <2>0, OneIs
  <2>2. prompt.texts = <<asked>>
    BY <1>7
  <2> HIDE DEF prompt
  <2> QED BY <1>2, <2>1, <2>2
<1> HIDE DEF prompt, answer
<1>9. /\ words \in Seq(Token) /\ Among(words, TextToken) = <<asked>>
      /\ \A i \in 1 .. Len(words) : words[i].what \notin WrittenByModel
  <2>1. PICK a : a = Template(prompt)
    OBVIOUS
  <2>2. /\ a \in Seq(Token) /\ Among(a, TextToken) = <<asked>>
        /\ \A i \in 1 .. Len(a) : a[i].what \notin WrittenByModel
    BY <1>7, <1>8, <2>1, TemplateIs
  <2>3. /\ Generate \in Seq(Token) /\ Among(Generate, TextToken) = <<>>
        /\ \A i \in 1 .. Len(Generate) : Generate[i].what \notin WrittenByModel
    BY GenerateIs
  <2>4. /\ a \o Generate \in Seq(Token) /\ Len(a \o Generate) = Len(a) + Len(Generate)
        /\ \A i \in 1 .. Len(a) + Len(Generate) :
             (a \o Generate)[i] = IF i <= Len(a) THEN a[i] ELSE Generate[i - Len(a)]
    BY <2>2, <2>3, ConcatProperties
  <2>5. Among(a \o Generate, TextToken) = <<asked>>
    <3>1. a \in Seq(Token) /\ Generate \in Seq(Token)
      BY <2>2, <2>3
    <3>2. Among(a \o Generate, TextToken) = Among(a, TextToken) \o Among(Generate, TextToken)
      BY ONLY <3>1, AmongJoined
    <3>3. <<asked>> \in Seq(TextToken)
      <4>1. asked \in TextToken
        BY <1>2
      <4> QED BY ONLY <4>1, OneIs
    <3>4. <<asked>> \o <<>> = <<asked>>
      BY ONLY <3>3, ConcatEmptySeq
    <3> QED BY <2>2, <2>3, <3>2, <3>4
  <2>6. \A i \in 1 .. Len(a) + Len(Generate) : (a \o Generate)[i].what \notin WrittenByModel
    <3> TAKE i \in 1 .. Len(a) + Len(Generate)
    <3>1. Len(a) \in Nat /\ Len(Generate) \in Nat
      BY <2>2, <2>3, LenProperties
    <3>2. CASE i <= Len(a)
      <4>1. i \in 1 .. Len(a) /\ (a \o Generate)[i] = a[i]
        BY <2>4, <3>1, <3>2
      <4> QED BY <2>2, <4>1
    <3>3. CASE ~(i <= Len(a))
      <4>1. i - Len(a) \in 1 .. Len(Generate)
        BY <3>1, <3>3
      <4>2. (a \o Generate)[i] = Generate[i - Len(a)]
        BY <2>4, <3>3
      <4> QED BY <2>3, <4>1, <4>2
    <3> QED BY <3>2, <3>3
  <2> QED BY <2>1, <2>4, <2>5, <2>6
<1> HIDE DEF words
<1>10. /\ TalkFits(told) /\ told.said = talk.said /\ Sum(told.rewards) = Sum(talk.rewards)
       /\ Among(told.ids, TextToken) = Among(talk.ids, TextToken) \o <<asked>>
  BY <1>4, <1>9, ToldFits
<1> HIDE DEF told
<1>11. PICK said : said = talk.said \o <<prompt, answer>>
  OBVIOUS
<1>12. PICK before \in Seq(Message) : before = Append(talk.said, prompt)
  BY <1>6, <1>7, AppendProperties
<1>13. said = Append(before, answer) /\ said \in Seq(Message)
  <2>1. said = Append(before, answer)
    BY <1>6, <1>7, <1>11, <1>12, TwoMore
  <2> QED BY <1>7, <1>12, <2>1, AppendProperties
<1>14. Quiet(said) /\ Len(said) > 1
  <2>1. Quiet(before)
    BY <1>5, <1>6, <1>7, <1>8, <1>12, QuietAppend
  <2>2. Quiet(said)
    BY <1>7, <1>12, <1>13, <2>1, QuietAppend
  <2>3. Len(before) = Len(talk.said) + 1 /\ Len(said) = Len(before) + 1
    BY <1>6, <1>7, <1>12, <1>13, AppendProperties
  <2> QED BY <1>5, <1>6, <2>2, <2>3
<1>15. PICK x : x = talk'
  OBVIOUS
<1>16. Talked(x, said, Append(told.ids, text), Append(told.mask, 1), Append(told.rewards, 0))
  <2>1. told \in TalkType
    BY <1>10, TalkParts
  <2> QED BY <1>1, <1>10, <1>11, <1>15, <2>1 DEF Talked, TalkType
<1>17. /\ TalkFits(x) /\ x.said = said /\ Sum(x.rewards) = Sum(told.rewards)
       /\ Among(x.ids, TextToken) = Append(Among(told.ids, TextToken), text)
  <2>1. TalkFits(told) /\ text \in TextToken /\ text.what \in WrittenByModel
        /\ said \in Seq(Message) /\ Quiet(said) /\ Len(said) > 1
    BY <1>3, <1>10, <1>13, <1>14
  <2> QED BY ONLY <1>16, <2>1, WrittenFits
<1>18. HeardSays("join", x, setup.trajs)
  <2>1. PICK S : S = ToldTexts(setup.trajs)
    OBVIOUS
  <2>2. Among(talk.ids, TextToken) = Among(Texts(talk.said), S)
    BY <1>1, <1>4, <2>1 DEF HeardSays
  <2>3. asked \in S /\ text \in S
    BY <1>2, <1>3, <2>1 DEF ToldTexts
  <2>4. PICK a \in Seq(TextToken) : a = Texts(talk.said)
    BY <1>6, TextsAre
  <2>5. Texts(before) = Append(a, asked) /\ Append(a, asked) \in Seq(TextToken)
    <3>1. Texts(before) = a \o <<asked>>
      BY <1>6, <1>7, <1>12, <2>4, TextsAppend
    <3> QED BY <1>2, <2>4, <3>1, AppendIsConcat, AppendProperties
  <2>6. Texts(said) = Append(Append(a, asked), text)
    <3>1. Texts(said) = Texts(before) \o <<text>>
      BY <1>7, <1>12, <1>13, TextsAppend
    <3> QED BY <1>3, <2>5, <3>1, AppendIsConcat
  <2>7. Among(Append(Append(a, asked), text), S) = Append(Append(Among(a, S), asked), text)
    <3>1. Among(Append(a, asked), S) = Append(Among(a, S), asked)
      BY <1>2, <2>3, <2>4, AmongAppend
    <3>2. Among(Append(Append(a, asked), text), S) = Append(Among(Append(a, asked), S), text)
      BY <1>3, <2>3, <2>5, AmongAppend
    <3> QED BY <3>1, <3>2
  <2>8. Among(told.ids, TextToken) = Append(Among(a, S), asked)
    <3>1. Among(a, S) \in Seq(TextToken)
      BY <2>4, AmongType
    <3> QED BY <1>2, <1>10, <2>2, <2>4, <3>1, AppendIsConcat
  <2>9. Among(x.ids, TextToken) = Among(Texts(x.said), S)
    BY <1>17, <2>6, <2>7, <2>8
  <2> QED BY <2>1, <2>9 DEF HeardSays
<1>19. PlanTypeOK' /\ paid' \in Int
  BY <1>1, PlanSane, PlanTypeNext
<1>20. at' \notin {"return", "done"} => played' <= setup'.steps
  BY <1>1 DEF PlanIInv
<1>21. WholeFits'
  <2>1. WholeFits
    BY DEF PlanIInv
  <2> QED BY <1>1, <1>10, <1>15, <1>17, <2>1 DEF WholeFits
<1>22. TalkFits(talk') /\ HeardSays(at', talk', setup'.trajs)
  BY <1>1, <1>15, <1>17, <1>18
<1> QED BY <1>1, <1>19, <1>20, <1>21, <1>22, PlanIInvParts

-----------------------------------------------------------------------------
(* The game.                                                               *)

LEMMA FitsMarks ==
  ASSUME NEW k \in Nat, NEW t, Fits(t, k)
  PROVE  /\ LastOf(t.ids, Len(t.mask)) \in Seq(Token)
         /\ Len(LastOf(t.ids, Len(t.mask))) = Len(t.mask)
         /\ \A i \in 1 .. Len(t.mask) :
              (LastOf(t.ids, Len(t.mask))[i].what \in WrittenByModel) <=> (t.mask[i] = 1)
         /\ MarksFit(t.ids, t.mask)
<1>1. /\ t.ids \in Seq(Token) /\ t.mask \in Seq(Marks) /\ Len(t.ids) = Len(t.mask) + k
      /\ \A i \in 1 .. Len(t.mask) : (t.ids[i + k].what \in WrittenByModel) <=> (t.mask[i] = 1)
  BY DEF Fits
<1>2. PICK n \in Nat : n = Len(t.mask)
  BY <1>1, LenProperties
<1>3. /\ LastOf(t.ids, n) \in Seq(Token) /\ Len(LastOf(t.ids, n)) = n
      /\ \A i \in 1 .. n : LastOf(t.ids, n)[i] = t.ids[i + k]
  <2>1. Len(t.ids) = n + k
    BY <1>1, <1>2
  <2>2. TailFits(LastOf(t.ids, n), t.ids, n, k, Token)
    BY <1>1, <2>1, LastOfIs, Zenon
  <2> QED BY ONLY <2>2 DEF TailFits
<1>4. \A i \in 1 .. n : (LastOf(t.ids, n)[i].what \in WrittenByModel) <=> (t.mask[i] = 1)
  BY <1>1, <1>2, <1>3
<1> QED BY <1>2, <1>3, <1>4 DEF MarksFit

EpisodeType == [ids : Seq(Token), mask : Seq(Marks), rewards : Seq(Int)]

EpisodeFits(w) == w \in EpisodeType /\ Fits(w, 2)

\* x is w with a text and its rewards more.
EpisodeGrown(x, w, text, gains) ==
  /\ EpisodeFits(x) /\ Len(x.mask) = Len(w.mask) + Len(text)
  /\ Sum(x.rewards) = Sum(w.rewards) + Sum(gains)

LEMMA EpisodeJoined ==
  ASSUME NEW w, EpisodeFits(w), NEW text \in Seq(Token), NEW marks \in Seq(Marks),
         NEW gains \in Seq(Int), SameMarks(text, marks), Len(gains) = Len(text),
         NEW x, Extended(x, w, text, marks, gains),
         x = [ids |-> x.ids, mask |-> x.mask, rewards |-> x.rewards]
  PROVE  EpisodeGrown(x, w, text, gains)
<1>1. PICK k \in Nat : k = 2
  OBVIOUS
<1>2. k \in Nat
  BY <1>1
<1>3. Fits(w, k)
  BY <1>1 DEF EpisodeFits
<1>4. Extended(x, w, text, marks, gains)
  OBVIOUS
<1>5. /\ text \in Seq(Token) /\ marks \in Seq(Marks) /\ gains \in Seq(Int)
      /\ SameMarks(text, marks) /\ Len(gains) = Len(text)
  OBVIOUS
<1>6. /\ Fits(x, k) /\ Len(x.mask) = Len(w.mask) + Len(text)
      /\ Sum(x.rewards) = Sum(w.rewards) + Sum(gains)
  BY ONLY <1>2, <1>3, <1>4, <1>5, FitsJoined
<1>7. x \in EpisodeType
  <2>1. x.ids \in Seq(Token) /\ x.mask \in Seq(Marks) /\ x.rewards \in Seq(Int)
    BY ONLY <1>6 DEF Fits
  <2> QED BY <2>1 DEF EpisodeType
<1> QED BY <1>1, <1>6, <1>7 DEF EpisodeFits, EpisodeGrown

LEMMA EpisodeTold ==
  ASSUME NEW w, EpisodeFits(w), NEW text \in Seq(Token),
         \A i \in 1 .. Len(text) : text[i].what \notin WrittenByModel
  PROVE  /\ EpisodeFits(Unmasked(w, text))
         /\ Len(Unmasked(w, text).mask) = Len(w.mask) + Len(text)
         /\ Sum(Unmasked(w, text).rewards) = Sum(w.rewards)
<1>1. PICK l \in Nat : l = Len(text)
  BY LenProperties
<1>2. PICK zeros : zeros = Zeros(l)
  OBVIOUS
<1>3. /\ zeros \in Seq(Marks) /\ zeros \in Seq(Int) /\ Len(zeros) = l
      /\ \A i \in 1 .. l : zeros[i] = 0
  BY <1>1, <1>2, ZerosAre
<1>4. Sum(zeros) = 0 /\ Sum(w.rewards) \in Int
  <2>1. w.rewards \in Seq(Int)
    BY DEF EpisodeFits, EpisodeType
  <2> QED BY <1>1, <1>2, <2>1, SumZeros, SumJoined
<1>5. SameMarks(text, zeros)
  BY <1>1, <1>3 DEF SameMarks
<1>6. Len(zeros) = Len(text)
  BY <1>1, <1>3
<1>7. PICK x : x = Unmasked(w, text)
  OBVIOUS
<1>8. x = [ids |-> w.ids \o text, mask |-> w.mask \o zeros, rewards |-> w.rewards \o zeros]
  <2>1. w \in EpisodeType
    BY DEF EpisodeFits
  <2>2. w = [ids |-> w.ids, mask |-> w.mask, rewards |-> w.rewards]
    BY <2>1 DEF EpisodeType
  <2>3. x = [w EXCEPT !.ids = w.ids \o text, !.mask = w.mask \o zeros,
                      !.rewards = w.rewards \o zeros]
    BY <1>1, <1>2, <1>7 DEF Unmasked
  <2> QED BY <2>2, <2>3
<1>9. /\ EpisodeFits(x) /\ Len(x.mask) = Len(w.mask) + Len(text)
      /\ Sum(x.rewards) = Sum(w.rewards) + Sum(zeros)
  <2>1. EpisodeFits(w) /\ text \in Seq(Token) /\ zeros \in Seq(Marks) /\ zeros \in Seq(Int)
    BY <1>3
  <2>2. /\ x.ids = w.ids \o text /\ x.mask = w.mask \o zeros /\ x.rewards = w.rewards \o zeros
        /\ x = [ids |-> x.ids, mask |-> x.mask, rewards |-> x.rewards]
    BY ONLY <1>8
  <2>3. Extended(x, w, text, zeros, zeros)
    BY ONLY <2>2 DEF Extended
  <2>4. EpisodeGrown(x, w, text, zeros)
    BY ONLY <1>5, <1>6, <2>1, <2>2, <2>3, EpisodeJoined, Zenon
  <2> QED BY ONLY <2>4 DEF EpisodeGrown
<1> QED BY <1>4, <1>7, <1>9

LEMMA EpisodePaid ==
  ASSUME NEW w, EpisodeFits(w), Len(w.mask) > 0, NEW r \in Int
  PROVE  LET x == [w EXCEPT !.rewards = AddToLast(@, r)]
         IN  EpisodeFits(x) /\ x.mask = w.mask /\ Sum(x.rewards) = Sum(w.rewards) + r
<1>1. PICK k \in Nat : k = 2
  OBVIOUS
<1>2. k \in Nat
  BY <1>1
<1>3. Fits(w, k) /\ w \in EpisodeType
  BY <1>1 DEF EpisodeFits
<1>4. PICK x : x = [w EXCEPT !.rewards = AddToLast(@, r)]
  OBVIOUS
<1>5. /\ x.ids = w.ids /\ x.mask = w.mask /\ x.rewards = AddToLast(w.rewards, r)
      /\ x = [ids |-> x.ids, mask |-> x.mask, rewards |-> x.rewards]
  BY <1>3, <1>4 DEF EpisodeType
<1>6. x.ids = w.ids /\ x.mask = w.mask /\ x.rewards = AddToLast(w.rewards, r)
  BY <1>5
<1>7. Fits(x, k) /\ Sum(x.rewards) = Sum(w.rewards) + r
  <2>1. Fits(w, k) /\ Len(w.mask) > 0 /\ r \in Int
    BY <1>3
  <2> QED BY ONLY <1>2, <1>6, <2>1, FitsPaid
<1>8. x \in EpisodeType
  <2>1. x.ids \in Seq(Token) /\ x.mask \in Seq(Marks) /\ x.rewards \in Seq(Int)
    BY ONLY <1>7 DEF Fits
  <2> QED BY <1>5, <2>1 DEF EpisodeType
<1> QED BY <1>1, <1>4, <1>6, <1>7, <1>8 DEF EpisodeFits

LEMMA EpisodeIs ==
  /\ WholeFits <=>
       /\ EpisodeFits(whole) /\ (at = "act" => Len(whole.mask) > 0)
       /\ Sum(whole.rewards) +
            (IF at \in {"think", "summarise", "join", "raised"} THEN Sum(talk.rewards) ELSE 0) = paid
  /\ WholeFits' <=>
       /\ EpisodeFits(whole') /\ (at' = "act" => Len(whole'.mask) > 0)
       /\ Sum(whole'.rewards) +
            (IF at' \in {"think", "summarise", "join", "raised"} THEN Sum(talk'.rewards) ELSE 0)
              = paid'
BY DEF WholeFits, EpisodeFits, EpisodeType

LEMMA BeginPlanKeeps ==
  ASSUME PlanIInv, BeginPlan
  PROVE  PlanIInv'
<1> DEFINE said == FirstWords
           a == Template(FirstWords[1])  b == Template(FirstWords[2])
<1>1. /\ at = "plan" /\ planTurn' = 1 /\ planStep' = 1 /\ sim' = Fresh /\ at' = "think"
      /\ talk' = [said |-> said, ids |-> a \o b \o Generate,
                  mask |-> Zeros(Len(b)), rewards |-> Zeros(Len(b))]
      /\ UNCHANGED <<setup, played, decision, whole, paid, result>>
  BY DEF BeginPlan
<1>2. PICK ask : ask = PhraseAt("instruction", 1, 1)
  OBVIOUS
<1>3. PICK query : query = PhraseAt("query", 1, 1)
  OBVIOUS
<1>4. /\ ask \in TextToken /\ ask.what = "instruction"
      /\ query \in TextToken /\ query.what = "query"
  <2>1. played \in Nat /\ 1 \in Nat
    BY PlanSane
  <2>2. "instruction" \in TextOfLoop \cup WrittenByModel /\ "query" \in TextOfLoop \cup WrittenByModel
    BY DEF TextOfLoop
  <2> QED BY <1>2, <1>3, <2>1, <2>2, PhraseIs
<1>5. /\ ask.what \notin WrittenByModel /\ ask.what # "no move"
      /\ query.what \notin WrittenByModel /\ query.what # "no move"
  BY <1>4 DEF WrittenByModel
<1>6. PICK first : first = [role |-> "system", texts |-> <<ask>>]
  OBVIOUS
<1>7. PICK second : second = [role |-> "user", texts |-> <<query>>]
  OBVIOUS
<1>8. /\ first \in Message /\ first.texts = <<ask>>
      /\ second \in Message /\ second.texts = <<query>> /\ second.role = "user"
  <2>1. <<ask>> \in Seq(TextToken) /\ <<query>> \in Seq(TextToken)
    <3>1. ask \in TextToken /\ query \in TextToken
      BY <1>4
    <3> QED BY ONLY <3>1, OneIs
  <2> QED BY <1>6, <1>7, <2>1 DEF Message, Roles
<1>9. /\ \A j \in 1 .. Len(first.texts) : first.texts[j] = ask
      /\ \A j \in 1 .. Len(second.texts) : second.texts[j] = query
      /\ Len(first.texts) = 1 /\ Len(second.texts) = 1
  <2>1. ask \in TextToken /\ query \in TextToken
    BY <1>4
  <2>2. /\ \A j \in 1 .. Len(<<ask>>) : <<ask>>[j] = ask
        /\ \A j \in 1 .. Len(<<query>>) : <<query>>[j] = query
        /\ Len(<<ask>>) = 1 /\ Len(<<query>>) = 1
    BY ONLY <2>1, OneIs
  <2> QED BY <1>8, <2>2
<1>10. said = <<first, second>> /\ said[1] = first /\ said[2] = second /\ Len(said) = 2
  <2>1. said = <<first, second>>
    BY <1>2, <1>3, <1>6, <1>7 DEF FirstWords
  <2> HIDE DEF said
  <2> QED BY <2>1
<1>11. a = Template(first) /\ b = Template(second)
  BY <1>10
<1> HIDE DEF said, a, b
<1>12. /\ said \in Seq(Message) /\ Last(said) = second /\ Quiet(said)
  <2>1. said \in Seq(Message)
    BY <1>8, <1>10
  <2>2. Last(said) = second
    BY <1>10 DEF Last
  <2>3. \A i \in 1 .. 2 : \A j \in 1 .. Len(said[i].texts) : said[i].texts[j].what \notin WrittenByModel
    <3>1. \A i \in 1 .. 2 : i = 1 \/ i = 2
      OBVIOUS
    <3> QED BY <1>5, <1>9, <1>10, <3>1
  <2> QED BY <1>10, <2>1, <2>2, <2>3 DEF Quiet
<1>13. /\ a \in Seq(Token) /\ Among(a, TextToken) = <<ask>> /\ Len(a) = 2
       /\ \A i \in 1 .. Len(a) : a[i].what \notin WrittenByModel
  <2>1. \A j \in 1 .. Len(first.texts) : first.texts[j].what \notin WrittenByModel
    BY <1>5, <1>9
  <2>2. /\ Template(first) \in Seq(Token) /\ Among(Template(first), TextToken) = first.texts
        /\ Len(Template(first)) = Len(first.texts) + 1
        /\ \A i \in 1 .. Len(Template(first)) : Template(first)[i].what \notin WrittenByModel
    BY <1>8, <2>1, TemplateIs
  <2>3. Len(Template(first)) = 2
    BY <1>9, <2>2
  <2> QED BY <1>8, <1>11, <2>2, <2>3
<1>14. /\ b \in Seq(Token) /\ Among(b, TextToken) = <<query>> /\ Len(b) = 2
       /\ \A i \in 1 .. Len(b) : b[i].what \notin WrittenByModel
  <2>1. \A j \in 1 .. Len(second.texts) : second.texts[j].what \notin WrittenByModel
    BY <1>5, <1>9
  <2>2. /\ Template(second) \in Seq(Token) /\ Among(Template(second), TextToken) = second.texts
        /\ Len(Template(second)) = Len(second.texts) + 1
        /\ \A i \in 1 .. Len(Template(second)) : Template(second)[i].what \notin WrittenByModel
    BY <1>8, <2>1, TemplateIs
  <2>3. Len(Template(second)) = 2
    BY <1>9, <2>2
  <2> QED BY <1>8, <1>11, <2>2, <2>3
<1>15. PICK ab : ab = a \o b
  OBVIOUS
<1>16. /\ ab \in Seq(Token) /\ Len(ab) = 4
       /\ \A i \in 1 .. 4 : ab[i] = IF i <= 2 THEN a[i] ELSE b[i - 2]
       /\ Among(ab, TextToken) = <<ask>> \o <<query>>
  <2>1. a \in Seq(Token) /\ b \in Seq(Token)
    BY <1>13, <1>14
  <2>2. Among(a \o b, TextToken) = Among(a, TextToken) \o Among(b, TextToken)
    BY ONLY <2>1, AmongJoined
  <2>3. /\ a \o b \in Seq(Token) /\ Len(a \o b) = Len(a) + Len(b)
        /\ \A i \in 1 .. Len(a) + Len(b) : (a \o b)[i] = IF i <= Len(a) THEN a[i] ELSE b[i - Len(a)]
    BY ONLY <2>1, ConcatProperties
  <2> QED BY <1>13, <1>14, <1>15, <2>2, <2>3
<1>17. PICK ids : ids = ab \o Generate
  OBVIOUS
<1>18. /\ ids \in Seq(Token) /\ Len(ids) = 5
       /\ \A i \in 1 .. 5 : ids[i] = IF i <= 4 THEN ab[i] ELSE Generate[i - 4]
       /\ Among(ids, TextToken) = <<ask>> \o <<query>>
  <2>0. Len(Generate) = 1 /\ Among(Generate, TextToken) = <<>>
    BY GenerateIs
  <2>1. ab \in Seq(Token) /\ Generate \in Seq(Token)
    BY <1>16, GenerateIs
  <2>2. Among(ab \o Generate, TextToken) = Among(ab, TextToken) \o Among(Generate, TextToken)
    BY ONLY <2>1, AmongJoined
  <2>3. /\ ab \o Generate \in Seq(Token) /\ Len(ab \o Generate) = Len(ab) + Len(Generate)
        /\ \A i \in 1 .. Len(ab) + Len(Generate) :
             (ab \o Generate)[i] = IF i <= Len(ab) THEN ab[i] ELSE Generate[i - Len(ab)]
    BY ONLY <2>1, ConcatProperties
  <2>4. Among(ab, TextToken) \in Seq(Token)
    BY <2>1, AmongType
  <2>5. Among(ab, TextToken) \o <<>> = Among(ab, TextToken)
    BY ONLY <2>4, ConcatEmptySeq
  <2> QED BY <1>16, <1>17, <2>0, <2>1, <2>2, <2>3, <2>5
<1>19. PICK zeros : zeros = Zeros(2)
  OBVIOUS
<1>20. /\ zeros \in Seq(Marks) /\ zeros \in Seq(Int) /\ Len(zeros) = 2 /\ Sum(zeros) = 0
       /\ \A i \in 1 .. 2 : zeros[i] = 0
  <2>1. 2 \in Nat
    OBVIOUS
  <2> QED BY ONLY <1>19, <2>1, ZerosAre, SumZeros
<1>21. PICK x : x = talk'
  OBVIOUS
<1>22. x = [said |-> said, ids |-> ids, mask |-> zeros, rewards |-> zeros]
  BY <1>1, <1>14, <1>15, <1>17, <1>19, <1>21
<1>23. x.said = said /\ x.ids = ids /\ x.mask = zeros /\ x.rewards = zeros
  BY <1>22
<1>24. Fits(x, 3)
  <2>1. \A i \in 1 .. 2 : ids[i + 3].what \notin WrittenByModel /\ zeros[i] # 1
    <3>1. ids[4] = b[2] /\ ids[5] = Generate[1]
      BY <1>16, <1>18
    <3>2. b[2].what \notin WrittenByModel /\ Generate[1].what \notin WrittenByModel
      BY <1>14, GenerateIs
    <3>3. \A i \in 1 .. 2 : i + 3 = 4 \/ i + 3 = 5
      OBVIOUS
    <3> QED BY <1>20, <3>1, <3>2, <3>3
  <2>2. Len(ids) = Len(zeros) + 3
    BY <1>18, <1>20
  <2> QED BY <1>18, <1>20, <1>23, <2>1, <2>2 DEF Fits
<1>25. TalkFits(x)
  <2>1. x \in TalkType
    BY <1>12, <1>18, <1>20, <1>22 DEF TalkType
  <2>2. Len(x.mask) > 0 /\ Len(x.said) > 1
    BY <1>10, <1>20, <1>23
  <2> QED BY <1>12, <1>23, <1>24, <2>1, <2>2, TalkParts
<1>26. Texts(said) = <<ask>> \o <<query>> /\ Texts(said) = <<ask, query>>
  <2>1. Texts(<<>>) = <<>>
    BY JoinedEmpty DEF Texts
  <2>2. <<>> \in Seq(Message) /\ Append(<<>>, first) \in Seq(Message)
    BY <1>8
  <2>3. Texts(Append(<<>>, first)) = <<>> \o <<ask>>
    BY <1>8, <2>1, <2>2, TextsAppend
  <2>4. Texts(Append(Append(<<>>, first), second)) = (<<>> \o <<ask>>) \o <<query>>
    BY <1>8, <2>2, <2>3, TextsAppend
  <2>5. said = Append(Append(<<>>, first), second)
    BY <1>8, <1>10
  <2>6. <<>> \o <<ask>> = <<ask>>
    <3>1. ask \in TextToken
      BY <1>4
    <3>2. <<ask>> \in Seq(TextToken)
      BY ONLY <3>1, OneIs
    <3> QED BY ONLY <3>2, ConcatEmptySeq
  <2>7. <<ask>> \o <<query>> = <<ask, query>>
    <3>1. ask \in TextToken /\ query \in TextToken
      BY <1>4
    <3>2. <<ask>> \in Seq(TextToken)
      BY ONLY <3>1, OneIs
    <3>3. Append(<<ask>>, query) = <<ask>> \o <<query>>
      BY ONLY <3>1, <3>2, AppendIsConcat
    <3>4. Append(<<ask>>, query) = <<ask, query>>
      BY ONLY <3>1, PairIs
    <3> QED BY <3>3, <3>4
  <2> QED BY <2>4, <2>5, <2>6, <2>7
<1>27. Pending(x)
  <2>1. ~(Len(x.said) > 2)
    BY <1>10, <1>23
  <2>2. Among(x.ids, TextToken) = Texts(x.said)
    BY <1>18, <1>23, <1>26
  <2> QED BY ONLY <2>1, <2>2 DEF Pending
<1>28. NoMoveBefore(Texts(x.said), 1)
  <2>1. PICK texts : texts = Texts(x.said)
    OBVIOUS
  <2>2. texts = <<ask, query>>
    BY <1>23, <1>26, <2>1
  <2>3. \A i \in 1 .. Len(texts) : texts[i] = ask \/ texts[i] = query
    BY ONLY <2>2
  <2>4. \A i \in 1 .. Len(texts) : texts[i].what # "no move"
    BY <1>5, <2>3
  <2> QED BY <2>1, <2>4 DEF NoMoveBefore
<1>29. ThinkingOf(talk', sim', planTurn', planStep', setup'.horizon)
  <2>1. Fresh.end = "no" /\ Fresh.moved = 0
    BY DEF Fresh
  <2>2. 0 <= (1 - 1) * setup.horizon + 1 - 1
    <3>1. PICK h \in Nat : h = setup.horizon
      BY PlanSane
    <3>2. (1 - 1) * h = 0
      BY <3>1
    <3> QED BY <3>1, <3>2
  <2>3. Last(x.said).role = "user"
    BY <1>8, <1>12, <1>23
  <2> QED BY <1>1, <1>21, <1>27, <1>28, <2>1, <2>2, <2>3 DEF ThinkingOf
<1>30. HeardSays(at', talk', setup'.trajs)
  <2>1. 1 \in Nat /\ 1 <= setup.trajs /\ setup.trajs \in Nat
    BY PlanSane
  <2> QED BY <1>1, <1>21, <1>25, <1>27, <1>28, <2>1, ThinkSays
<1>31. PlanTypeOK' /\ paid' \in Int
  <2>1. /\ 1 \in Nat /\ 1 > 0 /\ 1 <= setup.trajs /\ 1 <= setup.horizon /\ 0 \in Nat
        /\ 0 <= setup.trajs * setup.horizon
    <3>1. PICK c \in Nat : c = setup.trajs * setup.horizon
      BY PlanSane
    <3> QED BY <3>1, PlanSane
  <2>2. Fresh.end = "no" /\ Fresh.moved = 0
    BY DEF Fresh
  <2> QED BY <1>1, <2>1, <2>2, PlanSane, PlanTypeNext
<1>32. at' \notin {"return", "done"} => played' <= setup'.steps
  BY <1>1 DEF PlanIInv
<1>33. WholeFits'
  <2>1. EpisodeFits(whole) /\ Sum(whole.rewards) + 0 = paid
    BY <1>1, EpisodeIs DEF PlanIInv
  <2>2. Sum(talk'.rewards) = 0
    BY <1>20, <1>21, <1>23
  <2> QED BY <1>1, <2>1, <2>2, EpisodeIs
<1> QED BY <1>1, <1>21, <1>25, <1>29, <1>30, <1>31, <1>32, <1>33, PlanIInvParts

\* In a step of the game the planner's lists are as they were.
LEMMA GameKeeps ==
  ASSUME PlanIInv, at \in {"join", "act", "return"}, at' \in {"plan", "act", "return", "done"},
         UNCHANGED <<setup, planTurn, planStep, sim, talk, decision>>,
         played' \in Nat, played' <= setup.steps + 1,
         at' \notin {"return", "done"} => played' <= setup.steps,
         paid' \in Int, WholeFits'
  PROVE  PlanIInv'
<1>1. PlanTypeOK'
  BY PlanSane, PlanTypeNext
<1>2. talk' = <<>> \/ TalkFits(talk')
  BY DEF PlanIInv
<1>3. at' \notin {"think", "summarise", "join", "raised"}
  OBVIOUS
<1>4. HeardSays(at', talk', setup'.trajs)
  BY <1>3 DEF HeardSays
<1> QED BY <1>1, <1>2, <1>3, <1>4, PlanIInvParts

LEMMA JoinPlanKeeps ==
  ASSUME PlanIInv, JoinPlan
  PROVE  PlanIInv'
<1>1. /\ at = "join" /\ at' = "act"
      /\ whole' = [ids |-> whole.ids \o LastOf(talk.ids, Len(talk.mask)),
                   mask |-> whole.mask \o talk.mask,
                   rewards |-> whole.rewards \o talk.rewards]
      /\ UNCHANGED <<setup, played, planTurn, planStep, sim, talk, decision, paid, result>>
  BY DEF JoinPlan
<1>2. /\ TalkFits(talk) /\ EpisodeFits(whole)
      /\ Sum(whole.rewards) + Sum(talk.rewards) = paid
  BY <1>1, EpisodeIs DEF PlanIInv
<1>3. talk \in TalkType /\ Fits(talk, 3) /\ Len(talk.mask) > 0
  BY <1>2, TalkParts
<1>4. PICK tail : tail = LastOf(talk.ids, Len(talk.mask))
  OBVIOUS
<1>5. /\ tail \in Seq(Token) /\ Len(tail) = Len(talk.mask)
      /\ \A i \in 1 .. Len(talk.mask) : (tail[i].what \in WrittenByModel) <=> (talk.mask[i] = 1)
  <2>1. PICK k \in Nat : k = 3
    OBVIOUS
  <2>2. k \in Nat
    BY <2>1
  <2>3. Fits(talk, k)
    BY <1>3, <2>1
  <2> QED BY ONLY <1>4, <2>2, <2>3, FitsMarks
<1>6. PICK marks : marks = talk.mask
  OBVIOUS
<1>7. PICK gains : gains = talk.rewards
  OBVIOUS
<1>8. marks \in Seq(Marks) /\ gains \in Seq(Int) /\ Len(gains) = Len(marks) /\ Len(marks) > 0
  BY <1>3, <1>6, <1>7 DEF TalkType, Fits
<1>9. SameMarks(tail, marks) /\ Len(gains) = Len(tail)
  BY <1>5, <1>6, <1>8 DEF SameMarks
<1>10. PICK x : x = whole'
  OBVIOUS
<1>11. x = [ids |-> whole.ids \o tail, mask |-> whole.mask \o marks,
            rewards |-> whole.rewards \o gains]
  BY <1>1, <1>4, <1>6, <1>7, <1>10
<1>12. /\ EpisodeFits(x) /\ Len(x.mask) = Len(whole.mask) + Len(tail)
       /\ Sum(x.rewards) = Sum(whole.rewards) + Sum(gains)
  <2>1. EpisodeFits(whole) /\ tail \in Seq(Token) /\ marks \in Seq(Marks) /\ gains \in Seq(Int)
    BY <1>2, <1>5, <1>8
  <2>2. /\ x.ids = whole.ids \o tail /\ x.mask = whole.mask \o marks
        /\ x.rewards = whole.rewards \o gains
        /\ x = [ids |-> x.ids, mask |-> x.mask, rewards |-> x.rewards]
    BY ONLY <1>11
  <2>3. Extended(x, whole, tail, marks, gains)
    BY ONLY <2>2 DEF Extended
  <2>4. EpisodeGrown(x, whole, tail, gains)
    BY ONLY <1>9, <2>1, <2>2, <2>3, EpisodeJoined, Zenon
  <2> QED BY ONLY <2>4 DEF EpisodeGrown
<1>13. Len(x.mask) > 0
  <2>1. Len(whole.mask) \in Nat
    <3>1. whole.mask \in Seq(Marks)
      BY <1>2 DEF EpisodeFits, EpisodeType
    <3> QED BY <3>1, LenProperties
  <2>2. Len(tail) = Len(marks)
    BY <1>5, <1>6
  <2>3. Len(marks) \in Nat
    BY <1>8, LenProperties
  <2> QED BY <1>8, <1>12, <2>1, <2>2, <2>3
<1>14. Sum(x.rewards) + 0 = paid
  <2>1. paid \in Int
    BY PlanSane
  <2> QED BY <1>2, <1>7, <1>12, <2>1
<1>15. WholeFits'
  BY <1>1, <1>10, <1>12, <1>13, <1>14, EpisodeIs
<1>16. played' <= setup.steps /\ played' <= setup.steps + 1 /\ played' \in Nat /\ paid' \in Int
  <2>1. played <= setup.steps
    BY <1>1 DEF PlanIInv
  <2> QED BY <1>1, <2>1, PlanSane
<1> QED BY <1>1, <1>15, <1>16, GameKeeps

LEMMA FinalIs ==
  ASSUME PlanIInv, NEW what \in TextOfLoop
  PROVE  LET text == <<RoleToken("user"), Phrase(what)>>
         IN  /\ text \in Seq(Token) /\ Len(text) = 2
             /\ \A i \in 1 .. Len(text) : text[i].what \notin WrittenByModel
<1>1. PICK d : d = RoleToken("user")
  OBVIOUS
<1>2. PICK e : e = Phrase(what)
  OBVIOUS
<1>3. d \in Token /\ d.what \notin WrittenByModel
  BY <1>1, RoleTokenIs DEF Roles
<1>4. e \in Token /\ e.what \notin WrittenByModel
  BY <1>2, TextIs, TokensAre
<1>5. PICK text : text = <<d, e>>
  OBVIOUS
<1>6. /\ text \in Seq(Token) /\ Len(text) = 2
      /\ \A i \in 1 .. Len(text) : text[i] = d \/ text[i] = e
  <2>1. d \in Token /\ e \in Token
    BY <1>3, <1>4
  <2> QED BY ONLY <1>5, <2>1
<1>7. \A i \in 1 .. Len(text) : text[i].what \notin WrittenByModel
  BY <1>3, <1>4, <1>6
<1> QED BY <1>1, <1>2, <1>5, <1>6, <1>7

LEMMA EndingIs ==
  ASSUME PlanIInv, at = "act", NEW r \in Int
  PROVE  EpisodeFits(Ending(r)) /\ Sum(Ending(r).rewards) = paid + r
<1>1. EpisodeFits(whole) /\ Len(whole.mask) > 0 /\ Sum(whole.rewards) + 0 = paid
  BY EpisodeIs DEF PlanIInv
<1>2. PICK text : text = FinalText
  OBVIOUS
<1>3. /\ text \in Seq(Token) /\ Len(text) = 2
      /\ \A i \in 1 .. Len(text) : text[i].what \notin WrittenByModel
  <2>1. "end" \in TextOfLoop
    BY DEF TextOfLoop
  <2> QED BY <1>2, <2>1, FinalIs DEF FinalText
<1>4. Sum(whole.rewards) \in Int /\ Len(whole.mask) \in Nat
  <2>1. whole.rewards \in Seq(Int) /\ whole.mask \in Seq(Marks)
    BY <1>1 DEF EpisodeFits, EpisodeType
  <2> QED BY <2>1, SumJoined, LenProperties
<1>5. Sum(whole.rewards) = paid
  BY <1>1, <1>4
<1>6. CASE setup.readjust
  <2>1. PICK y : y = [whole EXCEPT !.rewards = AddToLast(@, r)]
    OBVIOUS
  <2>2. EpisodeFits(y) /\ Sum(y.rewards) = Sum(whole.rewards) + r
    BY <1>1, <2>1, EpisodePaid
  <2>3. EpisodeFits(Unmasked(y, text)) /\ Sum(Unmasked(y, text).rewards) = Sum(y.rewards)
    BY <1>3, <2>2, EpisodeTold
  <2>4. Ending(r) = Unmasked(y, text)
    BY <1>2, <1>6, <2>1 DEF Ending
  <2> QED BY <1>5, <2>2, <2>3, <2>4
<1>7. CASE ~setup.readjust
  <2>1. PICK y : y = Unmasked(whole, text)
    OBVIOUS
  <2>2. /\ EpisodeFits(y) /\ Sum(y.rewards) = Sum(whole.rewards)
        /\ Len(y.mask) = Len(whole.mask) + Len(text)
    BY <1>1, <1>3, <2>1, EpisodeTold
  <2>3. Len(y.mask) > 0
    BY <1>1, <1>3, <1>4, <2>2
  <2>4. PICK z : z = [y EXCEPT !.rewards = AddToLast(@, r)]
    OBVIOUS
  <2>5. EpisodeFits(z) /\ Sum(z.rewards) = Sum(y.rewards) + r
    BY <2>2, <2>3, <2>4, EpisodePaid
  <2>6. Ending(r) = z
    BY <1>2, <1>7, <2>1, <2>4 DEF Ending
  <2> QED BY <1>5, <2>2, <2>5, <2>6
<1> QED BY <1>6, <1>7

\* The last move: its reward is given, and no other.
LEMMA EndingKeeps ==
  ASSUME PlanIInv, at = "act", at' = "return", NEW r \in Int, whole' = Ending(r),
         paid' = paid + r, played' \in {played, played + 1},
         UNCHANGED <<setup, planTurn, planStep, sim, talk, decision>>
  PROVE  PlanIInv'
<1>1. EpisodeFits(whole') /\ Sum(whole'.rewards) = paid' /\ paid' \in Int
  <2>1. paid \in Int
    BY PlanSane
  <2> QED BY <2>1, EndingIs
<1>2. WholeFits'
  <2>1. Sum(whole'.rewards) + 0 = paid'
    <3>1. paid' + 0 = paid'
      BY <1>1
    <3> QED BY <1>1, <3>1
  <2> QED BY <1>1, <2>1, EpisodeIs
<1>3. played' \in Nat /\ played' <= setup.steps + 1
  <2>1. played <= setup.steps /\ played \in Nat /\ setup.steps \in Nat
    BY PlanSane DEF PlanIInv
  <2> QED BY ONLY <2>1, played' \in {played, played + 1}
<1> QED BY <1>1, <1>2, <1>3, GameKeeps

LEMMA GainIs ==
  ASSUME NEW r \in Int
  PROVE  Gain(r) \in Int
BY DEF Gain, Fine

LEMMA NoLegalMoveKeeps ==
  ASSUME PlanIInv, NoLegalMove
  PROVE  PlanIInv'
<1>1. /\ at = "act" /\ at' = "return" /\ whole' = Ending(-Fine - 1) /\ paid' = paid - Fine - 1
      /\ UNCHANGED <<setup, played, planTurn, planStep, sim, talk, decision, result>>
  BY DEF NoLegalMove
<1>2. -Fine - 1 \in Int /\ paid' = paid + (-Fine - 1)
  <2>1. paid \in Int
    BY PlanSane
  <2> QED BY <1>1, <2>1 DEF Fine
<1> QED BY <1>1, <1>2, EndingKeeps

LEMMA PlayLastKeeps ==
  ASSUME PlanIInv, PlayLast
  PROVE  PlanIInv'
<1>1. /\ at = "act" /\ at' = "return" /\ played' = played + 1
      /\ UNCHANGED <<setup, planTurn, planStep, sim, talk, decision, result>>
  BY DEF PlayLast, MayMove
<1>2. PICK r \in GameRewards : whole' = Ending(Gain(r)) /\ paid' = paid + Gain(r)
  BY DEF PlayLast
<1>3. Gain(r) \in Int
  BY <1>2, PlanAssumption, GainIs
<1> QED BY <1>1, <1>2, <1>3, EndingKeeps

LEMMA PlayOnKeeps ==
  ASSUME PlanIInv, PlayOn
  PROVE  PlanIInv'
<1>1. /\ at = "act" /\ at' = "plan" /\ played' = played + 1 /\ played + 1 <= setup.steps
      /\ whole' = Unmasked([whole EXCEPT !.rewards = AddToLast(@, Gain(0))],
                           <<RoleToken("user"), Phrase("state")>>)
      /\ paid' = paid + Gain(0)
      /\ UNCHANGED <<setup, planTurn, planStep, sim, talk, decision, result>>
  BY DEF PlayOn, MayMove
<1>2. EpisodeFits(whole) /\ Len(whole.mask) > 0 /\ Sum(whole.rewards) + 0 = paid
  BY <1>1, EpisodeIs DEF PlanIInv
<1>3. PICK r \in Int : r = Gain(0)
  <2>1. 0 \in Int
    OBVIOUS
  <2> QED BY <2>1, GainIs
<1>4. r \in Int
  BY <1>3
<1>5. PICK y : y = [whole EXCEPT !.rewards = AddToLast(@, r)]
  OBVIOUS
<1>6. EpisodeFits(y) /\ Sum(y.rewards) = Sum(whole.rewards) + r
  BY <1>2, <1>4, <1>5, EpisodePaid
<1>7. PICK text : text = <<RoleToken("user"), Phrase("state")>>
  OBVIOUS
<1>8. text \in Seq(Token) /\ \A i \in 1 .. Len(text) : text[i].what \notin WrittenByModel
  <2>1. "state" \in TextOfLoop
    BY DEF TextOfLoop
  <2> QED BY <1>7, <2>1, FinalIs
<1>9. whole' = Unmasked(y, text)
  BY <1>1, <1>3, <1>5, <1>7
<1>10. EpisodeFits(whole') /\ Sum(whole'.rewards) = Sum(y.rewards)
  BY <1>6, <1>8, <1>9, EpisodeTold
<1>11. Sum(whole.rewards) \in Int /\ paid \in Int
  <2>1. whole.rewards \in Seq(Int)
    BY <1>2 DEF EpisodeFits, EpisodeType
  <2> QED BY <2>1, SumJoined, PlanSane
<1>12. Sum(whole'.rewards) + 0 = paid' /\ paid' \in Int
  BY <1>1, <1>2, <1>3, <1>4, <1>6, <1>10, <1>11
<1>13. WholeFits'
  BY <1>1, <1>10, <1>12, EpisodeIs
<1>14. played' \in Nat /\ played' <= setup.steps /\ played' <= setup.steps + 1
  <2>1. played \in Nat /\ setup.steps \in Nat
    BY PlanSane
  <2> QED BY <1>1, <2>1
<1> QED BY <1>1, <1>12, <1>13, <1>14, GameKeeps

LEMMA ReturnPlayKeeps ==
  ASSUME PlanIInv, ReturnPlay
  PROVE  PlanIInv'
<1>1. /\ at = "return" /\ at' = "done"
      /\ UNCHANGED <<setup, played, planTurn, planStep, sim, talk, decision, whole, paid>>
  BY DEF ReturnPlay
<1>2. WholeFits'
  <2>1. EpisodeFits(whole) /\ Sum(whole.rewards) + 0 = paid
    BY <1>1, EpisodeIs DEF PlanIInv
  <2> QED BY <1>1, <2>1, EpisodeIs
<1> QED BY <1>1, <1>2, PlanSane, GameKeeps

LEMMA PlanStarts ==
  ASSUME PlanInit
  PROVE  PlanIInv
<1>1. /\ setup \in PlanConfigs /\ at = "plan" /\ played = 0 /\ planTurn = 1 /\ planStep = 1
      /\ sim = Fresh /\ talk = <<>> /\ decision = "none" /\ paid = 0
      /\ whole = [ids |-> <<Phrase("instruction"), Phrase("query")>>, mask |-> <<>>,
                  rewards |-> <<>>]
  BY DEF PlanInit
<1>2. setup \in PlanConfigType
  BY <1>1, PlanAssumption
<1>3. /\ setup.trajs \in Nat /\ setup.trajs > 0 /\ setup.horizon \in Nat /\ setup.horizon > 0
      /\ setup.steps \in Nat
  BY <1>2 DEF PlanConfigType
<1>4. PICK b \in Nat : b = setup.trajs * setup.horizon
  BY <1>3
<1>5. PlanTypeOK
  <2>1. sim.moved = 0 /\ sim.end = "no"
    BY <1>1 DEF Fresh
  <2>2. played \in 0 .. setup.steps + 1 /\ 0 \in 0 .. b
    BY <1>1, <1>3, <1>4
  <2>3. planTurn \in 1 .. setup.trajs /\ planStep \in 1 .. setup.horizon
    BY <1>1, <1>3
  <2> QED BY <1>1, <1>4, <2>1, <2>2, <2>3 DEF PlanTypeOK
<1>6. PICK d : d = Phrase("instruction")
  OBVIOUS
<1>7. PICK e : e = Phrase("query")
  OBVIOUS
<1>8. d \in Token /\ e \in Token
  <2>1. "instruction" \in TextOfLoop \cup WrittenByModel /\ "query" \in TextOfLoop \cup WrittenByModel
    BY DEF TextOfLoop
  <2>2. played \in Nat /\ planTurn \in Nat /\ planStep \in Nat
    BY <1>1
  <2> QED BY <1>6, <1>7, <2>1, <2>2, PhraseIs, TokensAre DEF Phrase
<1>9. PICK ids : ids = <<d, e>>
  OBVIOUS
<1>10. ids \in Seq(Token) /\ Len(ids) = 2
  BY ONLY <1>8, <1>9
<1>11. whole.ids = ids /\ whole.mask = <<>> /\ whole.rewards = <<>>
       /\ whole = [ids |-> ids, mask |-> <<>>, rewards |-> <<>>]
  BY <1>1, <1>6, <1>7, <1>9
<1>12. EpisodeFits(whole)
  <2>1. <<>> \in Seq(Marks) /\ <<>> \in Seq(Int) /\ Len(<<>>) = 0
    OBVIOUS
  <2>2. whole \in EpisodeType
    BY <1>10, <1>11, <2>1 DEF EpisodeType
  <2>3. \A i \in 1 .. 0 : FALSE
    OBVIOUS
  <2>4. Fits(whole, 2)
    BY <1>10, <1>11, <2>1, <2>3 DEF Fits
  <2> QED BY <2>2, <2>4 DEF EpisodeFits
<1>13. WholeFits
  <2>1. Sum(whole.rewards) + 0 = paid
    BY <1>1, <1>11, SumEmpty
  <2> QED BY <1>1, <1>12, <2>1, EpisodeIs
<1>14. HeardIsSaid /\ FailsOnlyAfterEnd
  BY <1>1 DEF HeardIsSaid, FailsOnlyAfterEnd
<1>15. at \notin {"return", "done"} => played <= setup.steps
  BY <1>1, <1>3
<1> QED BY <1>1, <1>5, <1>13, <1>14, <1>15 DEF PlanIInv

LEMMA PlanStutters ==
  ASSUME PlanIInv, UNCHANGED planVars
  PROVE  PlanIInv'
BY DEF PlanIInv, planVars, PlanTypeOK, WholeFits, Thinking, Ended, HeardIsSaid, FailsOnlyAfterEnd

-----------------------------------------------------------------------------
LEMMA PlanInvariance == PlanSpec => []PlanIInv
<1>1. PlanInit => PlanIInv
  BY PlanStarts
<1>2. PlanIInv /\ [PlanNext]_planVars => PlanIInv'
  <2> SUFFICES ASSUME PlanIInv, [PlanNext]_planVars
               PROVE  PlanIInv'
    OBVIOUS
  <2>1. CASE PlannerStep
    BY <2>1, BeginPlanKeeps, AnswerNowKeeps, EndTurnKeeps, EndPlanningKeeps, SimulateOnKeeps,
       SimulateLastKeeps, SimulateFailsKeeps, SummariseKeeps DEF PlannerStep
  <2>2. CASE GameStep
    BY <2>2, JoinPlanKeeps, NoLegalMoveKeeps, PlayOnKeeps, PlayLastKeeps, ReturnPlayKeeps
       DEF GameStep
  <2>3. CASE UNCHANGED planVars
    BY <2>3, PlanStutters
  <2> QED BY <2>1, <2>2, <2>3 DEF PlanNext
<1> QED BY <1>1, <1>2, PTL DEF PlanSpec

(* The steps, trajectories and simulated moves of an episode stay within   *)
(* the limits of its configuration.                                        *)
THEOREM PlansAreBounded == PlanSpec => []PlanTypeOK
<1>1. PlanIInv => PlanTypeOK
  BY DEF PlanIInv
<1> QED BY <1>1, PlanInvariance, PTL

(* At every step of an episode and of a plan, the mask counted from the    *)
(* end says of each token who wrote it, the rewards are as many, and they  *)
(* add up to what was given.                                               *)
THEOREM PlanMasksFit == PlanSpec => []PlanInStep
<1>1. PlanIInv => PlanInStep
  <2> SUFFICES ASSUME PlanIInv PROVE PlanInStep
    OBVIOUS
  <2>1. /\ Fits(whole, 2)
        /\ Sum(whole.rewards) +
             (IF at \in {"think", "summarise", "join", "raised"} THEN Sum(talk.rewards) ELSE 0) = paid
    BY DEF PlanIInv, WholeFits
  <2>2. MarksFit(whole.ids, whole.mask)
    <3>1. PICK k \in Nat : k = 2
      OBVIOUS
    <3>2. k \in Nat
      BY <3>1
    <3>3. Fits(whole, k)
      BY <2>1, <3>1
    <3> QED BY ONLY <3>2, <3>3, FitsMarks
  <2>3. Len(whole.ids) = Len(whole.mask) + 2 /\ Len(whole.rewards) = Len(whole.mask)
    BY <2>1 DEF Fits
  <2>4. ASSUME talk # <<>>
        PROVE  /\ Len(talk.ids) = Len(talk.mask) + 3 /\ Len(talk.rewards) = Len(talk.mask)
               /\ MarksFit(talk.ids, talk.mask)
    <3>1. Fits(talk, 3)
      BY <2>4, TalkParts DEF PlanIInv
    <3>2. PICK k \in Nat : k = 3
      OBVIOUS
    <3>3. k \in Nat
      BY <3>2
    <3>4. Fits(talk, k)
      BY <3>1, <3>2
    <3>5. MarksFit(talk.ids, talk.mask)
      BY ONLY <3>3, <3>4, FitsMarks
    <3> QED BY <3>1, <3>5 DEF Fits
  <2> QED BY <2>1, <2>2, <2>3, <2>4 DEF PlanInStep
<1> QED BY <1>1, PlanInvariance, PTL

(* The model hears the texts of the conversation, each once and in order,  *)
(* but for the last trajectory's want of a move.                           *)
THEOREM PlansAreHeard == PlanSpec => []HeardIsSaid
<1>1. PlanIInv => HeardIsSaid
  BY DEF PlanIInv
<1> QED BY <1>1, PlanInvariance, PTL

(* An exception ends the episode only when an earlier trajectory of the    *)
(* same plan had ended the simulated game.                                 *)
THEOREM FailuresFollowEnds == PlanSpec => []FailsOnlyAfterEnd
<1>1. PlanIInv => FailsOnlyAfterEnd
  BY DEF PlanIInv
<1> QED BY <1>1, PlanInvariance, PTL

-----------------------------------------------------------------------------
(* The policy-centric planner: lists of tokens, masks and rewards.         *)

\* Lists of the right types that agree.
Well(lists, before) == lists \in PolicyLists /\ Agree(lists, before)

LEMMA PlusIsWell ==
  ASSUME NEW b \in Nat, NEW l, Well(l, b), NEW m, Well(m, 0)
  PROVE  /\ Well(Plus(l, m), b) /\ Plus(l, m).ids = l.ids \o m.ids
         /\ Len(Plus(l, m).mask) = Len(l.mask) + Len(m.mask)
<1>1. PICK x : x = Plus(l, m)
  OBVIOUS
<1>2. /\ x = [ids |-> l.ids \o m.ids, mask |-> l.mask \o m.mask, reward |-> l.reward \o m.reward]
      /\ l \in PolicyLists /\ m \in PolicyLists
  BY <1>1 DEF Plus, Well
<1>3. /\ x.ids = l.ids \o m.ids /\ x.mask = l.mask \o m.mask /\ x.reward = l.reward \o m.reward
      /\ l.ids \in Seq(PolicyToken) /\ l.mask \in Seq({0, 1}) /\ l.reward \in Seq(Int)
      /\ m.ids \in Seq(PolicyToken) /\ m.mask \in Seq({0, 1}) /\ m.reward \in Seq(Int)
  BY <1>2 DEF PolicyLists
<1>4. PICK n \in Nat : n = Len(l.mask)
  BY <1>3, LenProperties
<1>5. PICK k \in Nat : k = Len(m.mask)
  BY <1>3, LenProperties
<1>6. /\ Len(l.ids) = b + n /\ Len(l.reward) = n
      /\ \A i \in 1 .. n : l.mask[i] = PolicyBit(l.ids[b + i])
  BY <1>4 DEF Well, Agree
<1>7. /\ Len(m.ids) = k /\ Len(m.reward) = k
      /\ \A i \in 1 .. k : m.mask[i] = PolicyBit(m.ids[i])
  <2>1. Len(m.ids) = 0 + k /\ Len(m.reward) = k /\ \A i \in 1 .. k : m.mask[i] = PolicyBit(m.ids[0 + i])
    BY <1>5 DEF Well, Agree
  <2>2. \A i \in 1 .. k : 0 + i = i
    OBVIOUS
  <2> QED BY <2>1, <2>2
<1>8. /\ x.ids \in Seq(PolicyToken) /\ Len(x.ids) = (b + n) + k
      /\ \A i \in 1 .. (b + n) + k : x.ids[i] = IF i <= b + n THEN l.ids[i] ELSE m.ids[i - (b + n)]
  <2>1. l.ids \in Seq(PolicyToken) /\ m.ids \in Seq(PolicyToken)
    BY <1>3
  <2>2. /\ l.ids \o m.ids \in Seq(PolicyToken) /\ Len(l.ids \o m.ids) = Len(l.ids) + Len(m.ids)
        /\ \A i \in 1 .. Len(l.ids) + Len(m.ids) :
             (l.ids \o m.ids)[i] = IF i <= Len(l.ids) THEN l.ids[i] ELSE m.ids[i - Len(l.ids)]
    BY ONLY <2>1, ConcatProperties
  <2> QED BY <1>3, <1>6, <1>7, <2>2
<1>9. /\ x.mask \in Seq({0, 1}) /\ Len(x.mask) = n + k
      /\ \A i \in 1 .. n + k : x.mask[i] = IF i <= n THEN l.mask[i] ELSE m.mask[i - n]
  <2>1. l.mask \in Seq({0, 1}) /\ m.mask \in Seq({0, 1})
    BY <1>3
  <2>2. /\ l.mask \o m.mask \in Seq({0, 1}) /\ Len(l.mask \o m.mask) = Len(l.mask) + Len(m.mask)
        /\ \A i \in 1 .. Len(l.mask) + Len(m.mask) :
             (l.mask \o m.mask)[i] = IF i <= Len(l.mask) THEN l.mask[i] ELSE m.mask[i - Len(l.mask)]
    BY ONLY <2>1, ConcatProperties
  <2> QED BY <1>3, <1>4, <1>5, <2>2
<1>10. x.reward \in Seq(Int) /\ Len(x.reward) = n + k
  <2>1. l.reward \in Seq(Int) /\ m.reward \in Seq(Int)
    BY <1>3
  <2>2. l.reward \o m.reward \in Seq(Int) /\ Len(l.reward \o m.reward) = Len(l.reward) + Len(m.reward)
    BY ONLY <2>1, ConcatProperties
  <2> QED BY <1>3, <1>6, <1>7, <2>2
<1>11. ASSUME NEW i \in 1 .. n + k PROVE x.mask[i] = PolicyBit(x.ids[b + i])
  <2>1. CASE i <= n
    <3>1. b + i \in 1 .. (b + n) + k /\ b + i <= b + n /\ i \in 1 .. n
      BY <2>1
    <3>2. x.ids[b + i] = l.ids[b + i] /\ x.mask[i] = l.mask[i]
      BY <1>8, <1>9, <2>1, <3>1
    <3> QED BY <1>6, <3>1, <3>2
  <2>2. CASE ~(i <= n)
    <3>1. b + i \in 1 .. (b + n) + k /\ ~(b + i <= b + n) /\ (b + i) - (b + n) = i - n /\ i - n \in 1 .. k
      BY <2>2
    <3>2. x.ids[b + i] = m.ids[i - n] /\ x.mask[i] = m.mask[i - n]
      BY <1>8, <1>9, <2>2, <3>1
    <3> QED BY <1>7, <3>1, <3>2
  <2> QED BY <2>1, <2>2
<1>12. x \in PolicyLists
  BY <1>2, <1>3, <1>8, <1>9, <1>10 DEF PolicyLists
<1>13. Agree(x, b)
  BY <1>8, <1>9, <1>10, <1>11 DEF Agree
<1> QED BY <1>1, <1>3, <1>4, <1>5, <1>9, <1>12, <1>13 DEF Well

LEMMA BitsAre ==
  ASSUME NEW n \in Nat
  PROVE  /\ Zeros(n) \in Seq({0, 1}) /\ Zeros(n) \in Seq(Int) /\ Len(Zeros(n)) = n
         /\ \A i \in 1 .. n : Zeros(n)[i] = 0
         /\ Ones(n) \in Seq({0, 1}) /\ Len(Ones(n)) = n
         /\ \A i \in 1 .. n : Ones(n)[i] = 1
BY DEF Zeros, Ones

LEMMA NotWrittenIsWell ==
  ASSUME NEW text \in Seq(PolicyToken), \A i \in 1 .. Len(text) : PolicyBit(text[i]) = 0
  PROVE  /\ Well(NotWritten(text), 0) /\ NotWritten(text).ids = text
         /\ Len(NotWritten(text).mask) = Len(text)
<1>1. PICK n \in Nat : n = Len(text)
  BY LenProperties
<1>2. PICK z : z = Zeros(n)
  OBVIOUS
<1>3. /\ z \in Seq({0, 1}) /\ z \in Seq(Int) /\ Len(z) = n /\ \A i \in 1 .. n : z[i] = 0
  BY <1>2, BitsAre
<1>4. PICK x : x = NotWritten(text)
  OBVIOUS
<1>5. x = [ids |-> text, mask |-> z, reward |-> z]
  BY <1>1, <1>2, <1>4 DEF NotWritten
<1>6. x \in PolicyLists /\ x.ids = text /\ x.mask = z /\ x.reward = z
  BY <1>3, <1>5 DEF PolicyLists
<1>7. \A i \in 1 .. n : 0 + i = i /\ 0 + n = n
  OBVIOUS
<1>8. Agree(x, 0)
  BY <1>1, <1>3, <1>6, <1>7 DEF Agree
<1> QED BY <1>1, <1>3, <1>4, <1>6, <1>8 DEF Well

LEMMA ModelWrittenIsWell ==
  ASSUME NEW text \in Seq(PolicyToken), \A i \in 1 .. Len(text) : PolicyBit(text[i]) = 1
  PROVE  /\ Well(ModelWritten(text), 0) /\ ModelWritten(text).ids = text
         /\ Len(ModelWritten(text).mask) = Len(text)
<1>1. PICK n \in Nat : n = Len(text)
  BY LenProperties
<1>2. PICK z : z = Zeros(n)
  OBVIOUS
<1>a. PICK o : o = Ones(n)
  OBVIOUS
<1>3. /\ z \in Seq(Int) /\ Len(z) = n /\ o \in Seq({0, 1}) /\ Len(o) = n
      /\ \A i \in 1 .. n : o[i] = 1
  BY <1>2, <1>a, BitsAre
<1>4. PICK x : x = ModelWritten(text)
  OBVIOUS
<1>5. x = [ids |-> text, mask |-> o, reward |-> z]
  BY <1>1, <1>2, <1>a, <1>4 DEF ModelWritten
<1>6. x \in PolicyLists /\ x.ids = text /\ x.mask = o /\ x.reward = z
  BY <1>3, <1>5 DEF PolicyLists
<1>7. \A i \in 1 .. n : 0 + i = i /\ 0 + n = n
  OBVIOUS
<1>8. Agree(x, 0)
  BY <1>1, <1>3, <1>6, <1>7 DEF Agree
<1> QED BY <1>1, <1>3, <1>4, <1>6, <1>8 DEF Well

LEMMA NilIsWell ==
  /\ Well(Nil, 0) /\ Nil.ids = <<>>
<1>1. /\ Nil.ids = <<>> /\ Nil.mask = <<>> /\ Nil.reward = <<>> /\ Nil \in PolicyLists
  BY EmptySeq DEF Nil, PolicyLists
<1>2. Len(<<>>) = 0 /\ 1 .. 0 = {}
  BY EmptySeq
<1>3. Agree(Nil, 0)
  BY <1>1, <1>2 DEF Agree
<1> QED BY <1>1, <1>3 DEF Well

\* The messages a plan, or an episode, starts with.
LEMMA FirstIsWell ==
  ASSUME NEW n \in Nat
  PROVE  /\ Well([Nil EXCEPT !.ids = System \o StateText(n)], 2)
         /\ [Nil EXCEPT !.ids = System \o StateText(n)].ids = System \o StateText(n)
         /\ System \o StateText(n) \in Seq(PolicyToken)
         /\ \A i \in 1 .. Len(System \o StateText(n)) :
              /\ ~StartsText((System \o StateText(n))[i])
              /\ (System \o StateText(n))[i].depth = 0 /\ (System \o StateText(n))[i] \in PolicyToken
<1> DEFINE s == [what |-> "system", ply |-> 0, depth |-> 0, traj |-> 0, at |-> 1]
           t == [what |-> "state", ply |-> n, depth |-> 0, traj |-> 0, at |-> 1]
<1>1. s \in PolicyToken /\ t \in PolicyToken /\ s.depth = 0 /\ t.depth = 0
      /\ PolicyBit(s) = 0 /\ PolicyBit(t) = 0
  BY DEF PolicyToken, PolicyWhats, PolicyBit
<1> HIDE DEF s, t
<1>2. PICK ids : ids = System \o StateText(n)
  OBVIOUS
<1>3. System = <<s>> /\ StateText(n) = <<t>>
  BY DEF System, StateText, s, t
<1>4. ids = <<s, t>>
  <2>1. <<s>> \in Seq(PolicyToken) /\ s \in PolicyToken /\ t \in PolicyToken
    BY <1>1
  <2>2. Append(<<s>>, t) = <<s, t>>
    BY ONLY <2>1, PairIs
  <2>3. Append(<<s>>, t) = <<s>> \o <<t>>
    BY ONLY <2>1, AppendIsConcat
  <2> QED BY <1>2, <1>3, <2>2, <2>3, Zenon
<1>5. ids \in Seq(PolicyToken) /\ Len(ids) = 2 /\ ids[1] = s /\ ids[2] = t
  BY <1>1, <1>4
<1>6. \A i \in 1 .. 2 : i = 1 \/ i = 2
  OBVIOUS
<1>7. \A i \in 1 .. Len(ids) : ~StartsText(ids[i]) /\ ids[i].depth = 0 /\ ids[i] \in PolicyToken
  BY <1>1, <1>5, <1>6 DEF StartsText
<1>8. PICK x : x = [Nil EXCEPT !.ids = ids]
  OBVIOUS
<1>9. x = [ids |-> ids, mask |-> <<>>, reward |-> <<>>]
  BY <1>8 DEF Nil
<1>10. x \in PolicyLists /\ x.ids = ids /\ x.mask = <<>> /\ x.reward = <<>>
  BY <1>5, <1>9, EmptySeq DEF PolicyLists
<1>11. Len(<<>>) = 0 /\ 1 .. 0 = {} /\ 2 + 0 = 2
  BY EmptySeq
<1>12. Agree(x, 2)
  BY <1>5, <1>10, <1>11 DEF Agree
<1> QED BY <1>2, <1>5, <1>7, <1>8, <1>10, <1>12 DEF Well

\* A text of n tokens.
PassageFits(p, what, traj, n) ==
  /\ p \in Seq(PolicyToken) /\ Len(p) = n
  /\ \A k \in 1 .. n :
       /\ p[k] \in PolicyToken /\ p[k].what = what /\ p[k].at = k
       /\ p[k].depth = depth /\ p[k].traj = traj

LEMMA PassageIs ==
  ASSUME NEW what \in PolicyWhats, NEW traj \in Nat, NEW n \in Nat, ply \in Nat, depth \in Nat
  PROVE  PassageFits(Passage(what, traj, n), what, traj, n)
<1> DEFINE t(k) == [what |-> what, ply |-> ply, depth |-> depth, traj |-> traj, at |-> k]
<1>1. ASSUME NEW k \in 1 .. n
      PROVE  /\ t(k) \in PolicyToken /\ t(k).what = what /\ t(k).depth = depth
             /\ t(k).traj = traj /\ t(k).at = k
  <2>1. k \in Nat
    OBVIOUS
  <2> QED BY <2>1 DEF PolicyToken
<1>2. Passage(what, traj, n) = [k \in 1 .. n |-> t(k)]
  BY DEF Passage
<1> HIDE DEF t
<1>3. \A k \in 1 .. n : t(k) \in PolicyToken
  BY <1>1
<1>4. [k \in 1 .. n |-> t(k)] \in Seq(PolicyToken) /\ Len([k \in 1 .. n |-> t(k)]) = n
  BY <1>3
<1> QED BY <1>1, <1>2, <1>4 DEF PassageFits

LEMMA BitIs ==
  ASSUME NEW t \in PolicyToken
  PROVE  /\ t.what \in {"moves", "summary"} => PolicyBit(t) = 1
         /\ t.what \notin {"moves", "summary"} => PolicyBit(t) = 0 /\ ~StartsText(t)
BY DEF PolicyBit, StartsText

\* A text of one token that the model did not write.
LEMMA OtherText ==
  ASSUME NEW what \in PolicyWhats \ {"moves", "summary"}, NEW traj \in Nat, ply \in Nat, depth \in Nat
  PROVE  /\ Well(NotWritten(Passage(what, traj, 1)), 0)
         /\ NotWritten(Passage(what, traj, 1)).ids = Passage(what, traj, 1)
         /\ Len(NotWritten(Passage(what, traj, 1)).mask) = 1
         /\ \A k \in 1 .. Len(Passage(what, traj, 1)) : ~StartsText(Passage(what, traj, 1)[k])
<1>1. PICK n \in Nat : n = 1
  OBVIOUS
<1>2. PICK p : p = Passage(what, traj, n)
  OBVIOUS
<1>3. /\ p \in Seq(PolicyToken) /\ Len(p) = n
      /\ \A k \in 1 .. n : p[k] \in PolicyToken /\ p[k].what = what
  <2>1. n \in Nat /\ what \in PolicyWhats /\ traj \in Nat /\ ply \in Nat /\ depth \in Nat
    BY <1>1
  <2>2. PassageFits(Passage(what, traj, n), what, traj, n)
    BY ONLY <2>1, PassageIs, Zenon
  <2> QED BY ONLY <1>2, <2>2 DEF PassageFits
<1>4. \A k \in 1 .. Len(p) : PolicyBit(p[k]) = 0 /\ ~StartsText(p[k])
  BY <1>3, BitIs
<1> QED BY <1>1, <1>2, <1>3, <1>4, NotWrittenIsWell

\* A text of the model.
LEMMA ModelText ==
  ASSUME NEW what \in {"moves", "summary"}, NEW traj \in Nat, NEW n \in Nat, ply \in Nat, depth \in Nat
  PROVE  /\ Well(ModelWritten(Passage(what, traj, n)), 0)
         /\ ModelWritten(Passage(what, traj, n)).ids = Passage(what, traj, n)
         /\ Len(ModelWritten(Passage(what, traj, n)).mask) = n
         /\ \A k \in 1 .. Len(Passage(what, traj, n)) : StartsText(Passage(what, traj, n)[k]) => k = 1
<1>1. PICK p : p = Passage(what, traj, n)
  OBVIOUS
<1>2. what \in PolicyWhats
  BY DEF PolicyWhats
<1>3. /\ p \in Seq(PolicyToken) /\ Len(p) = n
      /\ \A k \in 1 .. n : p[k] \in PolicyToken /\ p[k].what = what /\ p[k].at = k
  <2>1. n \in Nat /\ what \in PolicyWhats /\ traj \in Nat /\ ply \in Nat /\ depth \in Nat
    BY <1>2
  <2>2. PassageFits(Passage(what, traj, n), what, traj, n)
    BY ONLY <2>1, PassageIs, Zenon
  <2> QED BY ONLY <1>1, <2>2 DEF PassageFits
<1>4. \A k \in 1 .. Len(p) : PolicyBit(p[k]) = 1
  BY <1>3, BitIs
<1>5. \A k \in 1 .. Len(p) : StartsText(p[k]) => k = 1
  BY <1>3 DEF StartsText
<1> QED BY <1>1, <1>3, <1>4, <1>5, ModelWrittenIsWell

-----------------------------------------------------------------------------
\* Which tokens there are.
LEMMA AllJoined ==
  ASSUME NEW ids \in Seq(PolicyToken), NEW more \in Seq(PolicyToken), NEW S,
         AllIn(ids, S), AllIn(more, S)
  PROVE  AllIn(ids \o more, S)
<1>1. PICK m \in Nat : m = Len(ids)
  BY LenProperties
<1>2. PICK n \in Nat : n = Len(more)
  BY LenProperties
<1>3. /\ Len(ids \o more) = m + n
      /\ \A i \in 1 .. m + n : (ids \o more)[i] = IF i <= m THEN ids[i] ELSE more[i - m]
  BY <1>1, <1>2, ConcatProperties
<1>4. (\A i \in 1 .. m : ids[i] \in S) /\ (\A i \in 1 .. n : more[i] \in S)
  BY <1>1, <1>2 DEF AllIn
<1>5. ASSUME NEW i \in 1 .. m + n PROVE (ids \o more)[i] \in S
  <2>1. CASE i <= m
    BY <1>3, <1>4, <2>1
  <2>2. CASE ~(i <= m)
    <3>1. i - m \in 1 .. n
      BY <2>2
    <3> QED BY <1>3, <1>4, <2>2, <3>1
  <2> QED BY <2>1, <2>2
<1> QED BY <1>3, <1>5 DEF AllIn

LEMMA AllWider ==
  ASSUME NEW ids, NEW S, AllIn(ids, S), NEW T, S \subseteq T
  PROVE  AllIn(ids, T)
BY DEF AllIn

LEMMA AllOfPassage ==
  ASSUME NEW what \in PolicyWhats, NEW traj \in Nat, NEW n \in Nat, ply \in Nat, depth \in Nat,
         NEW S, \A u \in PolicyToken : u.depth = depth /\ u.traj = traj => u \in S
  PROVE  AllIn(Passage(what, traj, n), S)
<1>1. PICK p : p = Passage(what, traj, n)
  OBVIOUS
<1>2. /\ Len(p) = n
      /\ \A k \in 1 .. n : p[k] \in PolicyToken /\ p[k].depth = depth /\ p[k].traj = traj
  <2>1. PassageFits(Passage(what, traj, n), what, traj, n)
    BY ONLY what \in PolicyWhats, traj \in Nat, n \in Nat, ply \in Nat, depth \in Nat, PassageIs, Zenon
  <2> QED BY ONLY <1>1, <2>1 DEF PassageFits
<1> QED BY <1>1, <1>2 DEF AllIn

-----------------------------------------------------------------------------
\* What the model wrote after what.
Notes == [depth : Nat, traj : Nat, ids : Seq(PolicyToken)]

Made(s, t, ids) ==
  \E j \in 1 .. Len(s) : s[j].depth = t.depth /\ s[j].traj = t.traj /\ s[j].ids = ids

Wrote(s, ids) ==
  \A k \in 1 .. Len(ids) :
    StartsText(ids[k]) => Made(s, ids[k], Among(FirstOf(ids, k - 1), NotOfOthers(ids[k])))

LEMMA WroteIs ==
  /\ \A ids : WroteAfter(ids) <=> Wrote(saw, ids)
  /\ WroteAfter(draft.ids)' <=> Wrote(saw', draft'.ids)
  /\ WroteAfter(draft.ids \o pending.ids)' <=> Wrote(saw', draft'.ids \o pending'.ids)
BY DEF WroteAfter, Wrote, MadeFrom, Made

LEMMA MadeMore ==
  ASSUME NEW s \in Seq(Notes), NEW note \in Notes
  PROVE  /\ Append(s, note) \in Seq(Notes)
         /\ \A t, ids : Made(s, t, ids) => Made(Append(s, note), t, ids)
         /\ \A t : t.depth = note.depth /\ t.traj = note.traj => Made(Append(s, note), t, note.ids)
<1>1. PICK n \in Nat : n = Len(s)
  BY LenProperties
<1>2. PICK a : a = Append(s, note)
  OBVIOUS
<1>3. /\ a \in Seq(Notes) /\ Len(a) = n + 1 /\ a[n + 1] = note
      /\ \A i \in 1 .. n : a[i] = s[i]
  BY <1>1, <1>2, AppendProperties
<1>4. n + 1 \in 1 .. n + 1 /\ \A i \in 1 .. n : i \in 1 .. n + 1
  OBVIOUS
<1>5. \A t, ids : Made(s, t, ids) => Made(a, t, ids)
  BY <1>1, <1>3, <1>4 DEF Made
<1>6. \A t : t.depth = note.depth /\ t.traj = note.traj => Made(a, t, note.ids)
  BY <1>3, <1>4 DEF Made
<1> QED BY <1>2, <1>3, <1>5, <1>6

LEMMA WroteMore ==
  ASSUME NEW s \in Seq(Notes), NEW note \in Notes, NEW ids, Wrote(s, ids)
  PROVE  Wrote(Append(s, note), ids)
BY MadeMore DEF Wrote

LEMMA FirstOfJoined ==
  ASSUME NEW ids \in Seq(PolicyToken), NEW more \in Seq(PolicyToken)
  PROVE  /\ \A k \in 0 .. Len(ids) : FirstOf(ids \o more, k) = FirstOf(ids, k)
         /\ FirstOf(ids \o more, Len(ids)) = ids
<1>1. PICK m \in Nat : m = Len(ids)
  BY LenProperties
<1>2. PICK n \in Nat : n = Len(more)
  BY LenProperties
<1>3. PICK x : x = ids \o more
  OBVIOUS
<1>4. /\ x \in Seq(PolicyToken) /\ Len(x) = m + n
      /\ \A i \in 1 .. m : x[i] = ids[i]
  BY <1>1, <1>2, <1>3, ConcatProperties
<1>5. \A i \in 1 .. m : ids[i] \in PolicyToken
  BY <1>1, ElementOfSeq
<1>6. ASSUME NEW k \in 0 .. m PROVE FirstOf(x, k) = FirstOf(ids, k)
  <2>1. FirstOf(x, k) = SubSeq(x, 1, k) /\ FirstOf(ids, k) = SubSeq(ids, 1, k)
    BY <1>1, <1>4 DEF FirstOf
  <2>2. \A i \in 1 .. k : x[i] = ids[i] /\ x[i] \in PolicyToken
    BY <1>4, <1>5
  <2>3. /\ SubSeq(x, 1, k) \in Seq(PolicyToken) /\ Len(SubSeq(x, 1, k)) = k
        /\ \A i \in 1 .. k : SubSeq(x, 1, k)[i] = x[i]
    <3>1. \A i \in 1 .. k : x[i] \in PolicyToken
      BY <2>2
    <3> QED BY <3>1, SubSeqProperties
  <2>4. /\ SubSeq(ids, 1, k) \in Seq(PolicyToken) /\ Len(SubSeq(ids, 1, k)) = k
        /\ \A i \in 1 .. k : SubSeq(ids, 1, k)[i] = ids[i]
    <3>1. \A i \in 1 .. k : ids[i] \in PolicyToken
      BY <2>2
    <3> QED BY <3>1, SubSeqProperties
  <2> QED BY <2>1, <2>2, <2>3, <2>4, SeqEqual
<1>7. FirstOf(ids, m) = ids
  <2>1. FirstOf(ids, m) = SubSeq(ids, 1, m)
    BY <1>1 DEF FirstOf
  <2>2. /\ SubSeq(ids, 1, m) \in Seq(PolicyToken) /\ Len(SubSeq(ids, 1, m)) = m
        /\ \A i \in 1 .. m : SubSeq(ids, 1, m)[i] = ids[i]
    BY <1>5, SubSeqProperties
  <2> QED BY <1>1, <2>1, <2>2, SeqEqual
<1> QED BY <1>1, <1>3, <1>6, <1>7

LEMMA WroteJoined ==
  ASSUME NEW s, NEW ids \in Seq(PolicyToken), NEW more \in Seq(PolicyToken), Wrote(s, ids),
         \A k \in 1 .. Len(more) : StartsText(more[k]) =>
           k = 1 /\ Made(s, more[1], Among(ids, NotOfOthers(more[1])))
  PROVE  Wrote(s, ids \o more)
<1>1. PICK m \in Nat : m = Len(ids)
  BY LenProperties
<1>2. PICK n \in Nat : n = Len(more)
  BY LenProperties
<1>3. PICK x : x = ids \o more
  OBVIOUS
<1>4. /\ Len(x) = m + n
      /\ \A i \in 1 .. m + n : x[i] = IF i <= m THEN ids[i] ELSE more[i - m]
  BY <1>1, <1>2, <1>3, ConcatProperties
<1>5. /\ \A k \in 0 .. m : FirstOf(x, k) = FirstOf(ids, k)
      /\ FirstOf(x, m) = ids
  BY <1>1, <1>3, FirstOfJoined
<1>6. ASSUME NEW k \in 1 .. m + n, StartsText(x[k])
      PROVE  Made(s, x[k], Among(FirstOf(x, k - 1), NotOfOthers(x[k])))
  <2>1. CASE k <= m
    <3>1. k \in 1 .. m /\ k - 1 \in 0 .. m
      BY <2>1
    <3>2. x[k] = ids[k] /\ FirstOf(x, k - 1) = FirstOf(ids, k - 1)
      BY <1>4, <1>5, <2>1, <3>1
    <3> QED BY <1>1, <1>6, <3>1, <3>2 DEF Wrote
  <2>2. CASE ~(k <= m)
    <3>1. k - m \in 1 .. n /\ x[k] = more[k - m]
      BY <1>4, <2>2
    <3>2. k - m = 1 /\ Made(s, more[1], Among(ids, NotOfOthers(more[1])))
      BY <1>2, <1>6, <3>1
    <3>3. k - 1 = m /\ x[k] = more[1]
      BY <3>1, <3>2
    <3> QED BY <1>5, <3>2, <3>3
  <2> QED BY <2>1, <2>2
<1> QED BY <1>3, <1>4, <1>6 DEF Wrote

LEMMA WroteNone ==
  ASSUME NEW s, NEW ids \in Seq(PolicyToken), NEW more \in Seq(PolicyToken), Wrote(s, ids),
         \A k \in 1 .. Len(more) : ~StartsText(more[k])
  PROVE  Wrote(s, ids \o more)
BY WroteJoined

-----------------------------------------------------------------------------
\* What the invariant says of each part of the state.
PolicyControl ==
  /\ PolicyTypeOK
  /\ doing \in {"expand", "think", "execute"} => depth \in 1 .. policy.horizon
  /\ doing \notin {"return", "done"} => ply <= policy.steps

GivenFits ==
  doing = "done" =>
    \A k \in 1 .. Len(given.response) : given.mask[k] = PolicyBit(given.response[k])

PlanLists ==
  /\ draft \in PolicyLists /\ Well(pending, 0) /\ saw \in Seq(Notes)
  /\ doing \in {"expand", "think", "execute", "summarise"} => Well(draft, 2)
  /\ TurnsInOrder
  /\ Wrote(saw, draft.ids) /\ Wrote(saw, draft.ids \o pending.ids)

LEMMA PolicyPieces ==
  /\ PolicyIInv <=> PolicyControl /\ Well(story, 2) /\ GivenFits /\ PlanLists
  /\ PolicyIInv' <=> PolicyControl' /\ Well(story, 2)' /\ GivenFits' /\ PlanLists'
<1>1. PolicyIInv <=> PolicyControl /\ Well(story, 2) /\ GivenFits /\ PlanLists
  BY WroteIs
     DEF PolicyIInv, PolicyControl, GivenFits, PlanLists, PolicyInStep, Well, Notes
<1>2. PolicyIInv' <=> PolicyControl' /\ Well(story, 2)' /\ GivenFits' /\ PlanLists'
  BY WroteIs
     DEF PolicyIInv, PolicyControl, GivenFits, PlanLists, PolicyInStep, Well, Notes
<1> QED BY <1>1, <1>2

LEMMA ThePolicy ==
  ASSUME PolicyControl
  PROVE  /\ policy.trajs \in Nat /\ policy.horizon \in Nat \ {0} /\ policy.turn2 \in BOOLEAN
         /\ policy.readjust \in BOOLEAN /\ policy.steps \in Nat /\ policy.length \in Nat \ {0}
         /\ ply \in Nat /\ depth \in Nat /\ \A n \in TextLengths : n \in Nat \ {0}
<1>1. policy \in PolicyConfigType /\ \A n \in TextLengths : n \in Nat \ {0}
  BY PolicyAssumption DEF PolicyControl, PolicyTypeOK
<1>2. /\ policy.trajs \in Nat /\ policy.horizon \in Nat \ {0} /\ policy.turn2 \in BOOLEAN
      /\ policy.readjust \in BOOLEAN /\ policy.steps \in Nat /\ policy.length \in Nat \ {0}
  BY <1>1 DEF PolicyConfigType
<1>3. ply \in 0 .. policy.steps + 1 /\ depth \in 0 .. policy.horizon + 1
  BY DEF PolicyControl, PolicyTypeOK
<1> QED BY <1>1, <1>2, <1>3

LEMMA WroteEmpty == ASSUME NEW s PROVE Wrote(s, <<>>)
<1>1. 1 .. Len(<<>>) = {}
  BY EmptySeq
<1> QED BY <1>1 DEF Wrote

LEMMA PolicyStarts == PolicyInit => PolicyIInv
<1> SUFFICES ASSUME PolicyInit PROVE PolicyIInv
  OBVIOUS
<1>1. policy \in PolicyConfigType
  BY PolicyAssumption DEF PolicyInit
<1>2. policy.trajs \in Nat /\ policy.horizon \in Nat \ {0} /\ policy.steps \in Nat
  BY <1>1 DEF PolicyConfigType
<1>3. PolicyControl
  BY <1>2 DEF PolicyControl, PolicyTypeOK, PolicyInit, PolicyPlaces
<1>4. Well(story, 2)
  BY FirstIsWell DEF PolicyInit
<1>5. GivenFits
  BY DEF GivenFits, PolicyInit
<1>6. PlanLists
  <2>1. draft = Nil /\ pending = Nil /\ saw = <<>> /\ doing = "plan"
    BY DEF PolicyInit
  <2>2. Well(Nil, 0) /\ Nil.ids = <<>> /\ Nil \in PolicyLists
    BY NilIsWell DEF Well
  <2>3. <<>> \o <<>> = <<>> /\ <<>> \in Seq(Notes) /\ 1 .. Len(<<>>) = {}
    BY EmptySeq, ConcatEmptySeq
  <2>4. TurnsInOrder
    BY <2>1, <2>2, <2>3 DEF TurnsInOrder, AllIn
  <2>5. Wrote(saw, <<>>)
    BY WroteEmpty
  <2> QED BY <2>1, <2>2, <2>3, <2>4, <2>5 DEF PlanLists
<1> QED BY <1>3, <1>4, <1>5, <1>6, PolicyPieces

\* Outside the planner the plan stays as it is.
LEMMA PlanStays ==
  ASSUME PlanLists, UNCHANGED <<depth, asking, draft, pending, saw>>,
         doing' \notin {"expand", "think", "execute", "summarise"}
  PROVE  PlanLists'
<1>1. TurnsInOrder'
  BY DEF TurnsInOrder, PlanLists
<1>2. /\ (Wrote(saw, draft.ids))' <=> Wrote(saw, draft.ids)
      /\ (Wrote(saw, draft.ids \o pending.ids))' <=> Wrote(saw, draft.ids \o pending.ids)
      /\ Well(pending, 0)' <=> Well(pending, 0)
  OBVIOUS
<1> QED BY <1>1, <1>2 DEF PlanLists

LEMMA PolicyStays ==
  ASSUME PolicyIInv, UNCHANGED policyVars
  PROVE  PolicyIInv'
<1>1. UNCHANGED <<policy, doing, ply, depth, alive, asking, draft, pending, saw, story, given>>
  BY DEF policyVars
<1>2. PolicyControl' /\ Well(story, 2)' /\ GivenFits'
  <2>1. PolicyControl /\ Well(story, 2) /\ GivenFits
    BY PolicyPieces
  <2>2. PolicyControl'
    BY <1>1, <2>1 DEF PolicyControl, PolicyTypeOK
  <2>3. GivenFits'
    BY <1>1, <2>1 DEF GivenFits
  <2> QED BY <1>1, <2>1, <2>2, <2>3
<1>3. PlanLists'
  <2>1. PlanLists
    BY PolicyPieces
  <2>2. TurnsInOrder'
    BY <1>1, <2>1 DEF TurnsInOrder, PlanLists
  <2> QED BY <1>1, <2>1, <2>2 DEF PlanLists
<1> QED BY <1>2, <1>3, PolicyPieces

\* A reward for the last token, and a text of one token after it.
LEMMA StoryGoesOn ==
  ASSUME Well(story, 2), NEW r \in Int, NEW text, Well(text, 0)
  PROVE  /\ Well([story EXCEPT !.reward = AddToLast(@, r)], 2)
         /\ Well(Plus([story EXCEPT !.reward = AddToLast(@, r)], text), 2)
         /\ Well([Plus(story, text) EXCEPT !.reward = AddToLast(@, r)], 2)
<1>0. PICK b \in Nat : b = 2
  OBVIOUS
<1>b. b \in Nat
  BY <1>0
<1>1. ASSUME NEW l, Well(l, b)
      PROVE  Well([l EXCEPT !.reward = AddToLast(@, r)], b)
  <2>1. l \in PolicyLists /\ l.reward \in Seq(Int)
    BY <1>1 DEF Well, PolicyLists
  <2>2. PICK a : a = AddToLast(l.reward, r)
    OBVIOUS
  <2>3. a \in Seq(Int) /\ Len(a) = Len(l.reward)
    BY ONLY <2>1, <2>2, r \in Int, AddedToLast
  <2>4. PICK x : x = [l EXCEPT !.reward = a]
    OBVIOUS
  <2>5. x \in PolicyLists /\ x.ids = l.ids /\ x.mask = l.mask /\ x.reward = a
    BY <2>1, <2>3, <2>4 DEF PolicyLists
  <2>6. Agree(x, b)
    BY <1>1, <2>3, <2>5 DEF Agree, Well
  <2> QED BY <2>2, <2>4, <2>5, <2>6 DEF Well
<1>2. Well(story, b)
  BY <1>0
<1>3. PICK x : x = [story EXCEPT !.reward = AddToLast(@, r)]
  OBVIOUS
<1>4. Well(x, b)
  BY <1>1, <1>2, <1>3
<1>5. Well(Plus(x, text), b)
  BY ONLY <1>b, <1>4, Well(text, 0), PlusIsWell
<1>6. Well(Plus(story, text), b)
  BY ONLY <1>b, <1>2, Well(text, 0), PlusIsWell
<1>7. Well([Plus(story, text) EXCEPT !.reward = AddToLast(@, r)], b)
  BY <1>1, <1>6
<1> QED BY <1>0, <1>3, <1>4, <1>5, <1>7

LEMMA FinishKeeps ==
  ASSUME PolicyIInv, doing = "act", NEW r \in Int, FinishWith(r),
         ply' \in 0 .. policy.steps + 1
  PROVE  PolicyIInv'
<1>1. PolicyControl /\ Well(story, 2) /\ PlanLists
  BY PolicyPieces
<1>2. UNCHANGED <<policy, depth, alive, asking, draft, pending, saw>> /\ doing' = "return"
  BY DEF FinishWith
<1>3. PolicyControl'
  BY <1>1, <1>2 DEF PolicyControl, PolicyTypeOK, PolicyPlaces
<1>4. PICK text : text = NotWritten(Passage("end", 0, 1))
  OBVIOUS
<1>5. Well(text, 0)
  <2>1. "end" \in PolicyWhats \ {"moves", "summary"} /\ 0 \in Nat /\ ply \in Nat /\ depth \in Nat
    BY <1>1, ThePolicy DEF PolicyWhats
  <2>2. Well(NotWritten(Passage("end", 0, 1)), 0)
    BY ONLY <2>1, OtherText
  <2> QED BY <1>4, <2>2
<1>6. \/ story' = Plus([story EXCEPT !.reward = AddToLast(@, r)], text)
      \/ story' = [Plus(story, text) EXCEPT !.reward = AddToLast(@, r)]
  BY <1>4 DEF FinishWith
<1>7. Well(story', 2)
  BY <1>1, <1>5, <1>6, StoryGoesOn
<1>8. GivenFits'
  BY <1>2 DEF GivenFits
<1>9. PlanLists'
  BY <1>1, <1>2, PlanStays
<1> QED BY <1>3, <1>7, <1>8, <1>9, PolicyPieces

LEMMA PlayKeeps ==
  ASSUME PolicyIInv, NEW r \in Int, NoDecision \/ PlayAndEnd(r) \/ PlayAndGoOn(r)
  PROVE  PolicyIInv'
<1>1. PolicyControl /\ Well(story, 2) /\ PlanLists
  BY PolicyPieces
<1>2. policy.steps \in Nat /\ ply \in Nat /\ depth \in Nat /\ (doing = "act" => ply <= policy.steps)
  BY <1>1, ThePolicy DEF PolicyControl
<1>3. CASE NoDecision
  BY <1>2, <1>3, FinishKeeps DEF NoDecision
<1>4. CASE PlayAndEnd(r)
  BY <1>2, <1>4, FinishKeeps DEF PlayAndEnd
<1>5. CASE PlayAndGoOn(r)
  <2>1. /\ doing = "act" /\ doing' = "plan" /\ ply' = ply + 1 /\ ply + 1 <= policy.steps
        /\ UNCHANGED <<policy, depth, alive, asking, draft, pending, saw, given>>
        /\ story' = Plus([story EXCEPT !.reward = AddToLast(@, r)], NotWritten(StateText(ply + 1)))
    BY <1>5 DEF PlayAndGoOn
  <2>2. PolicyControl'
    BY <1>1, <1>2, <2>1 DEF PolicyControl, PolicyTypeOK, PolicyPlaces
  <2>3. PICK s : s = [what |-> "state", ply |-> ply + 1, depth |-> 0, traj |-> 0, at |-> 1]
    OBVIOUS
  <2>4. s \in PolicyToken /\ PolicyBit(s) = 0
    BY <1>2, <2>3 DEF PolicyToken, PolicyWhats, PolicyBit
  <2>5. PICK one : one = StateText(ply + 1)
    OBVIOUS
  <2>6. one = <<s>>
    BY <2>3, <2>5 DEF StateText
  <2>7. one \in Seq(PolicyToken) /\ \A i \in 1 .. Len(one) : one[i] = s
    BY ONLY <2>4, <2>6, OneIs
  <2>8. Well(NotWritten(one), 0)
    BY <2>4, <2>7, NotWrittenIsWell
  <2>9. Well(story', 2)
    BY <1>1, <2>1, <2>5, <2>8, StoryGoesOn
  <2>10. GivenFits' /\ PlanLists'
    BY <1>1, <2>1, PlanStays DEF GivenFits
  <2> QED BY <2>2, <2>9, <2>10, PolicyPieces
<1> QED BY <1>3, <1>4, <1>5

-----------------------------------------------------------------------------
\* Lists without the tokens that have no mask.
LEMMA CutIsWell ==
  ASSUME NEW b \in Nat, NEW l, Well(l, b)
  PROVE  /\ Well([l EXCEPT !.ids = LastOf(@, Len(l.mask))], 0)
         /\ LastOf(l.ids, Len(l.mask)) \in Seq(PolicyToken)
         /\ Len(LastOf(l.ids, Len(l.mask))) = Len(l.mask)
         /\ \A i \in 1 .. Len(l.mask) : l.mask[i] = PolicyBit(LastOf(l.ids, Len(l.mask))[i])
<1>1. /\ l \in PolicyLists /\ l.ids \in Seq(PolicyToken) /\ l.mask \in Seq({0, 1})
      /\ l.reward \in Seq(Int)
  BY DEF Well, PolicyLists
<1>2. PICK n \in Nat : n = Len(l.mask)
  BY <1>1, LenProperties
<1>3. /\ Len(l.ids) = b + n /\ Len(l.reward) = n
      /\ \A i \in 1 .. n : l.mask[i] = PolicyBit(l.ids[b + i])
  BY <1>2 DEF Well, Agree
<1>4. PICK c : c = LastOf(l.ids, n)
  OBVIOUS
<1>5. c \in Seq(PolicyToken) /\ Len(c) = n /\ \A i \in 1 .. n : c[i] = l.ids[i + b]
  <2>1. l.ids \in Seq(PolicyToken) /\ n \in Nat /\ b \in Nat /\ Len(l.ids) = n + b
    BY <1>1, <1>3
  <2>2. TailFits(LastOf(l.ids, n), l.ids, n, b, PolicyToken)
    BY ONLY <2>1, LastOfIs, Zenon
  <2> QED BY ONLY <1>4, <2>2 DEF TailFits
<1>6. \A i \in 1 .. n : l.mask[i] = PolicyBit(c[i])
  <2>1. \A i \in 1 .. n : i + b = b + i
    OBVIOUS
  <2> QED BY <1>3, <1>5, <2>1
<1>7. PICK x : x = [l EXCEPT !.ids = c]
  OBVIOUS
<1>8. x \in PolicyLists /\ x.ids = c /\ x.mask = l.mask /\ x.reward = l.reward
  BY <1>1, <1>5, <1>7 DEF PolicyLists
<1>9. \A i \in 1 .. n : 0 + i = i /\ 0 + n = n
  OBVIOUS
<1>10. Agree(x, 0)
  BY <1>2, <1>3, <1>5, <1>6, <1>8, <1>9 DEF Agree
<1>11. Well(x, 0)
  BY <1>8, <1>10 DEF Well
<1> QED BY <1>2, <1>4, <1>5, <1>6, <1>7, <1>11

LEMMA GiveStoryKeeps == ASSUME PolicyIInv, GiveStory PROVE PolicyIInv'
<1>1. PolicyControl /\ Well(story, 2) /\ PlanLists
  BY PolicyPieces
<1>2. /\ doing = "return" /\ doing' = "done"
      /\ UNCHANGED <<policy, ply, depth, alive, asking, draft, pending, saw, story>>
  BY DEF GiveStory
<1>3. PolicyControl'
  BY <1>1, <1>2 DEF PolicyControl, PolicyTypeOK, PolicyPlaces
<1>4. PlanLists'
  BY <1>1, <1>2, PlanStays
<1>5. Well(story', 2)
  BY <1>1, <1>2
<1>6. GivenFits'
  <2>1. PICK b \in Nat : b = 2
    OBVIOUS
  <2>2. b \in Nat /\ Well(story, b)
    BY <1>1, <2>1
  <2>3. PICK c : c = LastOf(story.ids, Len(story.mask))
    OBVIOUS
  <2>4. PICK m : m = story.mask
    OBVIOUS
  <2>5. /\ c \in Seq(PolicyToken) /\ Len(c) = Len(m)
        /\ \A i \in 1 .. Len(m) : m[i] = PolicyBit(c[i])
    BY ONLY <2>2, <2>3, <2>4, CutIsWell
  <2>6. m \in Seq({0, 1})
    BY <1>1, <2>4 DEF Well, PolicyLists
  <2>7. PICK l \in Nat \ {0} : l = policy.length
    BY <1>1, ThePolicy
  <2>8. l \in Nat
    BY <2>7
  <2>9. PICK r : r = FirstOf(c, l)
    OBVIOUS
  <2>10. PICK k : k = FirstOf(m, l)
    OBVIOUS
  <2>11. PICK s \in Nat : s = Len(m)
    BY <2>6, LenProperties
  <2>12. Len(r) = (IF l < s THEN l ELSE s) /\ \A i \in 1 .. Len(r) : r[i] = c[i]
    <3>1. Len(r) = (IF l < Len(c) THEN l ELSE Len(c)) /\ \A i \in 1 .. Len(r) : r[i] = c[i]
      BY ONLY <2>5, <2>8, <2>9, FirstAre
    <3> QED BY <2>5, <2>11, <3>1
  <2>13. Len(k) = (IF l < s THEN l ELSE s) /\ \A i \in 1 .. Len(k) : k[i] = m[i]
    <3>1. Len(k) = (IF l < Len(m) THEN l ELSE Len(m)) /\ \A i \in 1 .. Len(k) : k[i] = m[i]
      BY ONLY <2>6, <2>8, <2>10, FirstAre
    <3> QED BY <2>11, <3>1
  <2>14. PICK p : p = Padded(k, r)
    OBVIOUS
  <2>15. \A i \in 1 .. Len(r) : p[i] = k[i]
    BY <2>12, <2>13, <2>14, <2>8, <2>11 DEF Padded
  <2>16. \A i \in 1 .. Len(r) : p[i] = PolicyBit(r[i])
    <3>1. \A i \in 1 .. Len(r) : i \in 1 .. Len(m) /\ i \in 1 .. Len(k)
      BY <2>8, <2>11, <2>12, <2>13
    <3> QED BY <2>5, <2>12, <2>13, <2>15, <3>1
  <2>17. given' = [response |-> r, mask |-> p, reward |-> FirstOf(story.reward, policy.length)]
    BY <2>3, <2>4, <2>7, <2>9, <2>10, <2>14 DEF GiveStory
  <2>18. given'.response = r /\ given'.mask = p
    BY <2>17
  <2> QED BY <2>16, <2>18 DEF GivenFits
<1> QED BY <1>3, <1>4, <1>5, <1>6, PolicyPieces

\* Nothing waits but in a later turn.
LEMMA NothingPending ==
  ASSUME PolicyControl, doing # "think"
  PROVE  pending = Nil /\ pending.ids = <<>> /\ asking = {}
BY NilIsWell DEF PolicyControl, PolicyTypeOK

LEMMA WithNothing ==
  ASSUME NEW d, NEW p, d \in PolicyLists, p = Nil
  PROVE  d.ids \in Seq(PolicyToken) /\ d.ids \o p.ids = d.ids
<1>1. d.ids \in Seq(PolicyToken) /\ p.ids = <<>>
  BY NilIsWell DEF PolicyLists
<1> QED BY <1>1, ConcatEmptySeq

LEMMA NilIsOfOthers == ASSUME NEW d, NEW a PROVE AllIn(Nil.ids, OfOthers(d, a))
<1>1. 1 .. Len(Nil.ids) = {}
  BY NilIsWell, EmptySeq
<1> QED BY <1>1 DEF AllIn

\* A plan with nothing pending.
LEMMA PlanListsNow ==
  ASSUME draft' \in PolicyLists, pending' = Nil, saw' \in Seq(Notes),
         doing' \in {"expand", "think", "execute", "summarise"} => Well(draft', 2),
         doing' = "think" => AllIn(draft'.ids, EarlierThan(depth')),
         doing' = "execute" => AllIn(draft'.ids, NotAfter(depth')),
         doing' \in {"expand", "summarise"} => AllIn(draft'.ids, EarlierOrShared(depth')),
         Wrote(saw', draft'.ids)
  PROVE  PlanLists'
<1>1. draft'.ids \o pending'.ids = draft'.ids
  BY WithNothing
<1>2. Well(pending', 0) /\ AllIn(pending'.ids, OfOthers(depth', asking'))
  BY NilIsWell, NilIsOfOthers
<1>3. TurnsInOrder'
  BY <1>2 DEF TurnsInOrder
<1> QED BY <1>1, <1>2, <1>3 DEF PlanLists

LEMMA StartPolicyKeeps == ASSUME PolicyIInv, StartPolicy PROVE PolicyIInv'
<1>1. PolicyControl /\ Well(story, 2)
  BY PolicyPieces
<1>2. /\ doing = "plan" /\ doing' = "expand" /\ depth' = 1 /\ pending' = Nil /\ saw' = <<>>
      /\ UNCHANGED <<policy, ply, alive, asking, story, given>>
      /\ draft' = [Nil EXCEPT !.ids = System \o StateText(ply)]
  BY DEF StartPolicy
<1>3. ply \in Nat /\ policy.horizon \in Nat \ {0}
  BY <1>1, ThePolicy
<1>4. PolicyControl'
  BY <1>1, <1>2, <1>3, NothingPending DEF PolicyControl, PolicyTypeOK, PolicyPlaces
<1>5. GivenFits'
  BY <1>2 DEF GivenFits
<1>6. PICK ids : ids = System \o StateText(ply)
  OBVIOUS
<1>7. /\ Well(draft', 2) /\ draft'.ids = ids
      /\ \A i \in 1 .. Len(ids) : ~StartsText(ids[i]) /\ ids[i].depth = 0 /\ ids[i] \in PolicyToken
  BY ONLY <1>2, <1>3, <1>6, FirstIsWell
<1>8. AllIn(ids, EarlierOrShared(1))
  BY <1>7 DEF AllIn, EarlierOrShared
<1>9. Wrote(<<>>, ids)
  BY <1>7 DEF Wrote
<1>10. <<>> \in Seq(Notes) /\ draft' \in PolicyLists
  BY <1>7, EmptySeq DEF Well
<1>11. PlanLists'
  BY <1>2, <1>7, <1>8, <1>9, <1>10, PlanListsNow
<1> QED BY <1>1, <1>2, <1>4, <1>5, <1>11, PolicyPieces

LEMMA ExecuteTurnKeeps ==
  ASSUME PolicyIInv, NEW over \in SUBSET alive, ExecuteTurn(over) PROVE PolicyIInv'
<1>1. PolicyControl /\ Well(story, 2) /\ PlanLists /\ doing = "execute"
  BY PolicyPieces DEF ExecuteTurn
<1>2. /\ doing' \in {"think", "summarise"} /\ depth' = depth + 1
      /\ UNCHANGED <<policy, ply, pending, saw, story, given>>
      /\ alive' = (IF depth >= policy.horizon THEN {} ELSE alive \ over) /\ asking' = alive'
      /\ doing' = (IF depth' > policy.horizon \/ alive' = {} THEN "summarise" ELSE "think")
      /\ draft' = draft \/ draft' = Plus(draft, NotWritten(Passage("results", 0, 1)))
  BY DEF ExecuteTurn
<1>3. /\ ply \in Nat /\ depth \in Nat /\ depth \in 1 .. policy.horizon /\ policy.horizon \in Nat
      /\ ply <= policy.steps
  BY <1>1, ThePolicy DEF PolicyControl
<1>4. PolicyControl'
  <2>1. pending = Nil
    BY <1>1, NothingPending
  <2>2. doing' = "think" <=> asking' # {}
    BY <1>2, <1>3
  <2>3. doing' = "think" => depth' \in 1 .. policy.horizon
    BY <1>2, <1>3
  <2>4. alive' \subseteq 1 .. policy.trajs
    BY <1>1, <1>2 DEF PolicyControl, PolicyTypeOK
  <2>5. depth' \in 0 .. policy.horizon + 1
    BY <1>2, <1>3
  <2> QED BY <1>1, <1>2, <1>3, <2>1, <2>2, <2>3, <2>4, <2>5 DEF PolicyControl, PolicyTypeOK, PolicyPlaces
<1>5. GivenFits'
  BY <1>2 DEF GivenFits
<1>6. PICK p : p = Passage("results", 0, 1)
  OBVIOUS
<1>7. /\ Well(NotWritten(p), 0) /\ NotWritten(p).ids = p
      /\ \A k \in 1 .. Len(p) : ~StartsText(p[k])
  <2>1. "results" \in PolicyWhats \ {"moves", "summary"} /\ 0 \in Nat
    BY DEF PolicyWhats
  <2> QED BY ONLY <1>3, <1>6, <2>1, OtherText
<1>8. p \in Seq(PolicyToken) /\ AllIn(p, NotAfter(depth))
  <2>1. "results" \in PolicyWhats /\ 0 \in Nat /\ 1 \in Nat
    BY DEF PolicyWhats
  <2>2. \A u \in PolicyToken : u.depth = depth /\ u.traj = 0 => u \in NotAfter(depth)
    BY <1>3 DEF NotAfter
  <2>3. AllIn(Passage("results", 0, 1), NotAfter(depth))
    BY ONLY <1>3, <2>1, <2>2, AllOfPassage
  <2>4. Passage("results", 0, 1) \in Seq(PolicyToken)
    <3>1. PassageFits(Passage("results", 0, 1), "results", 0, 1)
      BY ONLY <1>3, <2>1, PassageIs, Zenon
    <3> QED BY ONLY <3>1 DEF PassageFits
  <2> QED BY <1>6, <2>3, <2>4
<1>9. /\ Well(draft, 2) /\ draft \in PolicyLists /\ draft.ids \in Seq(PolicyToken)
      /\ AllIn(draft.ids, NotAfter(depth)) /\ Wrote(saw, draft.ids) /\ saw \in Seq(Notes)
  BY <1>1 DEF PlanLists, TurnsInOrder, PolicyLists
<1>10. CASE draft' = draft
  <2>1. AllIn(draft'.ids, NotAfter(depth)) /\ Wrote(saw', draft'.ids) /\ Well(draft', 2)
    BY <1>2, <1>9, <1>10
  <2>2. /\ NotAfter(depth) \subseteq EarlierThan(depth + 1)
        /\ NotAfter(depth) \subseteq EarlierOrShared(depth + 1)
    BY <1>3 DEF NotAfter, EarlierThan, EarlierOrShared, PolicyToken
  <2>3. AllIn(draft'.ids, EarlierThan(depth')) /\ AllIn(draft'.ids, EarlierOrShared(depth'))
    BY <1>2, <2>1, <2>2, AllWider
  <2>4. pending' = Nil
    BY <1>1, <1>2, NothingPending
  <2>5. PlanLists'
    BY <1>2, <1>9, <2>1, <2>3, <2>4, PlanListsNow DEF Well
  <2> QED BY <1>1, <1>2, <1>4, <1>5, <2>5, PolicyPieces
<1>11. CASE draft' = Plus(draft, NotWritten(p))
  <2>0. PICK b \in Nat : b = 2
    OBVIOUS
  <2>1. Well(draft', b) /\ draft'.ids = draft.ids \o p
    <3>1. b \in Nat /\ Well(draft, b)
      BY <1>9, <2>0
    <3>2. Well(Plus(draft, NotWritten(p)), b) /\ Plus(draft, NotWritten(p)).ids = draft.ids \o NotWritten(p).ids
      BY ONLY <1>7, <3>1, PlusIsWell
    <3> QED BY <1>7, <1>11, <3>2
  <2>2. AllIn(draft'.ids, NotAfter(depth)) /\ Wrote(saw', draft'.ids) /\ Well(draft', 2)
    BY <1>2, <1>7, <1>8, <1>9, <2>0, <2>1, AllJoined, WroteNone
  <2>3. /\ NotAfter(depth) \subseteq EarlierThan(depth + 1)
        /\ NotAfter(depth) \subseteq EarlierOrShared(depth + 1)
    BY <1>3 DEF NotAfter, EarlierThan, EarlierOrShared, PolicyToken
  <2>4. AllIn(draft'.ids, EarlierThan(depth')) /\ AllIn(draft'.ids, EarlierOrShared(depth'))
    BY <1>2, <2>2, <2>3, AllWider
  <2>5. pending' = Nil
    BY <1>1, <1>2, NothingPending
  <2>6. PlanLists'
    BY <1>2, <1>9, <2>2, <2>4, <2>5, PlanListsNow DEF Well
  <2> QED BY <1>1, <1>2, <1>4, <1>5, <2>6, PolicyPieces
<1> QED BY <1>2, <1>6, <1>10, <1>11

-----------------------------------------------------------------------------
\* A text of the model, and the note of what it was made of.
LEMMA TextFollows ==
  ASSUME NEW s \in Seq(Notes), NEW ids \in Seq(PolicyToken), Wrote(s, ids),
         NEW what \in {"moves", "summary"}, NEW traj \in Nat, NEW n \in Nat,
         ply \in Nat, depth \in Nat, NEW made \in Seq(PolicyToken),
         \A u \in PolicyToken : u.depth = depth /\ u.traj = traj => Among(ids, NotOfOthers(u)) = made
  PROVE  /\ Append(s, [depth |-> depth, traj |-> traj, ids |-> made]) \in Seq(Notes)
         /\ Wrote(Append(s, [depth |-> depth, traj |-> traj, ids |-> made]),
                  ids \o Passage(what, traj, n))
<1>1. PICK note : note = [depth |-> depth, traj |-> traj, ids |-> made]
  OBVIOUS
<1>2. note \in Notes /\ note.depth = depth /\ note.traj = traj /\ note.ids = made
  BY <1>1 DEF Notes
<1>3. PICK a : a = Append(s, note)
  OBVIOUS
<1>4. a \in Seq(Notes) /\ Wrote(a, ids)
      /\ \A u : u.depth = depth /\ u.traj = traj => Made(a, u, made)
  BY <1>2, <1>3, MadeMore, WroteMore
<1>5. PICK p : p = Passage(what, traj, n)
  OBVIOUS
<1>6. /\ p \in Seq(PolicyToken)
      /\ \A k \in 1 .. Len(p) :
           /\ p[k] \in PolicyToken /\ p[k].depth = depth /\ p[k].traj = traj
           /\ StartsText(p[k]) => k = 1
  <2>1. what \in PolicyWhats /\ traj \in Nat /\ n \in Nat /\ ply \in Nat /\ depth \in Nat
    BY DEF PolicyWhats
  <2>2. /\ p \in Seq(PolicyToken) /\ Len(p) = n
        /\ \A k \in 1 .. n : p[k] \in PolicyToken /\ p[k].depth = depth /\ p[k].traj = traj
    <3>1. PassageFits(Passage(what, traj, n), what, traj, n)
      BY ONLY <2>1, PassageIs, Zenon
    <3> QED BY ONLY <1>5, <3>1 DEF PassageFits
  <2>3. \A k \in 1 .. Len(p) : StartsText(p[k]) => k = 1
    BY ONLY <1>5, <2>1, what \in {"moves", "summary"}, ModelText
  <2> QED BY <2>2, <2>3
<1>7. \A k \in 1 .. Len(p) : StartsText(p[k]) =>
        k = 1 /\ Made(a, p[1], Among(ids, NotOfOthers(p[1])))
  <2> SUFFICES ASSUME NEW k \in 1 .. Len(p), StartsText(p[k])
               PROVE  k = 1 /\ Made(a, p[1], Among(ids, NotOfOthers(p[1])))
    OBVIOUS
  <2>1. k = 1 /\ p[1] \in PolicyToken /\ p[1].depth = depth /\ p[1].traj = traj
    <3>1. p[k] \in PolicyToken /\ p[k].depth = depth /\ p[k].traj = traj
      BY ONLY <1>6, k \in 1 .. Len(p)
    <3>2. k = 1
      BY ONLY <1>6, k \in 1 .. Len(p), StartsText(p[k])
    <3> QED BY <3>1, <3>2
  <2>2. Among(ids, NotOfOthers(p[1])) = made
    BY <2>1
  <2> QED BY <1>4, <2>1, <2>2
<1>8. Wrote(a, ids \o p)
  BY ONLY ids \in Seq(PolicyToken), <1>4, <1>6, <1>7, WroteJoined
<1> QED BY <1>1, <1>3, <1>4, <1>5, <1>8

\* All that is earlier, or shared by the trajectories, the model is given.
LEMMA SharedIsGiven ==
  ASSUME NEW ids \in Seq(PolicyToken), depth \in Nat, AllIn(ids, EarlierOrShared(depth)),
         NEW u \in PolicyToken, u.depth = depth
  PROVE  Among(ids, NotOfOthers(u)) = ids
<1>1. \A i \in 1 .. Len(ids) : ids[i] \in NotOfOthers(u)
  <2> SUFFICES ASSUME NEW i \in 1 .. Len(ids) PROVE ids[i] \in NotOfOthers(u)
    OBVIOUS
  <2>1. PICK t : t = ids[i]
    OBVIOUS
  <2>2. t \in PolicyToken /\ (t.depth < depth \/ (t.depth = depth /\ t.traj = 0))
    BY <2>1 DEF AllIn, EarlierOrShared
  <2>3. t.depth \in Nat
    BY <2>2 DEF PolicyToken
  <2>4. ~(t.depth = u.depth /\ t.traj \notin {0, u.traj})
    BY <2>2, <2>3
  <2> QED BY <2>1, <2>2, <2>4 DEF NotOfOthers
<1> QED BY <1>1, AmongAll

\* A query, or the prompt for the summary.
LEMMA Asked ==
  ASSUME Well(draft, 2), NEW what \in PolicyWhats \ {"moves", "summary"}, NEW traj \in Nat,
         ply \in Nat, depth \in Nat, NEW s \in Seq(Notes), Wrote(s, draft.ids)
  PROVE  /\ Well(Plus(draft, NotWritten(Passage(what, traj, 1))), 2)
         /\ Plus(draft, NotWritten(Passage(what, traj, 1))).ids = draft.ids \o Passage(what, traj, 1)
         /\ Plus(draft, NotWritten(Passage(what, traj, 1))).ids \in Seq(PolicyToken)
         /\ Wrote(s, draft.ids \o Passage(what, traj, 1))
         /\ Passage(what, traj, 1) \in Seq(PolicyToken)
<1>1. PICK p : p = Passage(what, traj, 1)
  OBVIOUS
<1>2. /\ Well(NotWritten(p), 0) /\ NotWritten(p).ids = p
      /\ \A k \in 1 .. Len(p) : ~StartsText(p[k])
  BY <1>1, OtherText
<1>3. p \in Seq(PolicyToken)
  <2>1. what \in PolicyWhats /\ 1 \in Nat
    OBVIOUS
  <2>2. PassageFits(Passage(what, traj, 1), what, traj, 1)
    BY ONLY <2>1, traj \in Nat, ply \in Nat, depth \in Nat, PassageIs, Zenon
  <2> QED BY ONLY <1>1, <2>2 DEF PassageFits
<1>4. PICK b \in Nat : b = 2
  OBVIOUS
<1>5. b \in Nat /\ Well(draft, b)
  BY <1>4
<1>6. Well(Plus(draft, NotWritten(p)), b) /\ Plus(draft, NotWritten(p)).ids = draft.ids \o p
  <2>1. /\ Well(Plus(draft, NotWritten(p)), b)
        /\ Plus(draft, NotWritten(p)).ids = draft.ids \o NotWritten(p).ids
    BY ONLY <1>2, <1>5, PlusIsWell
  <2> QED BY <1>2, <2>1
<1>7. draft.ids \in Seq(PolicyToken)
  BY DEF Well, PolicyLists
<1>8. Wrote(s, draft.ids \o p)
  BY <1>2, <1>3, <1>7, WroteNone
<1>9. draft.ids \o p \in Seq(PolicyToken)
  BY ONLY <1>3, <1>7, ConcatProperties
<1> QED BY <1>1, <1>3, <1>4, <1>6, <1>8, <1>9

LEMMA DecideKeeps ==
  ASSUME PolicyIInv, NEW n \in TextLengths, Decide(n) PROVE PolicyIInv'
<1>1. PolicyControl /\ Well(story, 2) /\ PlanLists /\ doing = "summarise"
  BY PolicyPieces DEF Decide
<1>2. /\ ply \in Nat /\ depth \in Nat /\ ply <= policy.steps /\ n \in Nat
  BY <1>1, ThePolicy DEF PolicyControl
<1>3. /\ Well(draft, 2) /\ saw \in Seq(Notes) /\ Wrote(saw, draft.ids) /\ draft.ids \in Seq(PolicyToken)
      /\ AllIn(draft.ids, EarlierOrShared(depth))
  BY <1>1 DEF PlanLists, TurnsInOrder, PolicyLists
<1>4. PICK q : q = Passage("summary prompt", 0, 1)
  OBVIOUS
<1>5. PICK asked : asked = Plus(draft, NotWritten(q))
  OBVIOUS
<1>6. PICK p : p = Passage("summary", 0, n)
  OBVIOUS
<1>7. PICK full : full = Plus(asked, ModelWritten(p))
  OBVIOUS
<1>8. PICK cut : cut = [full EXCEPT !.ids = LastOf(@, Len(full.mask))]
  OBVIOUS
<1>9. /\ saw' = Append(saw, [depth |-> depth, traj |-> 0, ids |-> asked.ids])
      /\ draft' = full /\ story' = Plus(story, cut) /\ doing' = "act"
      /\ UNCHANGED <<policy, ply, depth, alive, asking, pending, given>>
  BY <1>4, <1>5, <1>6, <1>7, <1>8 DEF Decide, Note
<1>10. "summary prompt" \in PolicyWhats \ {"moves", "summary"} /\ 0 \in Nat /\ 1 \in Nat
       /\ "summary" \in {"moves", "summary"}
  BY DEF PolicyWhats
<1>11. /\ Well(asked, 2) /\ asked.ids = draft.ids \o q /\ asked.ids \in Seq(PolicyToken)
       /\ Wrote(saw, asked.ids) /\ q \in Seq(PolicyToken)
  <2>1. /\ Well(asked, 2) /\ asked.ids = draft.ids \o q /\ asked.ids \in Seq(PolicyToken)
        /\ Wrote(saw, draft.ids \o q) /\ q \in Seq(PolicyToken)
    BY ONLY <1>2, <1>3, <1>4, <1>5, <1>10, Asked
  <2> QED BY <2>1
<1>12. AllIn(asked.ids, EarlierOrShared(depth))
  <2>1. \A u \in PolicyToken : u.depth = depth /\ u.traj = 0 => u \in EarlierOrShared(depth)
    BY DEF EarlierOrShared
  <2>2. "summary prompt" \in PolicyWhats
    BY <1>10
  <2>3. AllIn(q, EarlierOrShared(depth))
    BY ONLY <1>2, <1>4, <1>10, <2>1, <2>2, AllOfPassage
  <2> QED BY <1>3, <1>11, <2>3, AllJoined
<1>13. \A u \in PolicyToken : u.depth = depth /\ u.traj = 0 => Among(asked.ids, NotOfOthers(u)) = asked.ids
  BY <1>2, <1>11, <1>12, SharedIsGiven
<1>14. saw' \in Seq(Notes) /\ Wrote(saw', asked.ids \o p)
  <2>1. PICK made : made = asked.ids
    OBVIOUS
  <2>2. made \in Seq(PolicyToken) /\ Wrote(saw, made) /\ saw \in Seq(Notes)
        /\ \A u \in PolicyToken : u.depth = depth /\ u.traj = 0 => Among(made, NotOfOthers(u)) = made
    BY <1>3, <1>11, <1>13, <2>1
  <2>3. /\ Append(saw, [depth |-> depth, traj |-> 0, ids |-> made]) \in Seq(Notes)
        /\ Wrote(Append(saw, [depth |-> depth, traj |-> 0, ids |-> made]), made \o p)
    BY ONLY <1>2, <1>6, <1>10, <2>2, TextFollows
  <2> QED BY <1>9, <2>1, <2>3
<1>15. Well(ModelWritten(p), 0) /\ ModelWritten(p).ids = p
  BY ONLY <1>2, <1>6, <1>10, ModelText
<1>16. PICK b \in Nat : b = 2
  OBVIOUS
<1>17. b \in Nat /\ Well(asked, b) /\ Well(story, b)
  BY <1>1, <1>11, <1>16
<1>18. Well(full, b) /\ full.ids = asked.ids \o p
  <2>1. Well(full, b) /\ full.ids = asked.ids \o ModelWritten(p).ids
    BY ONLY <1>7, <1>15, <1>17, PlusIsWell
  <2> QED BY <1>15, <2>1
<1>19. Well(cut, 0)
  BY ONLY <1>8, <1>17, <1>18, CutIsWell
<1>20. Well(story', 2)
  <2>1. Well(Plus(story, cut), b)
    BY ONLY <1>17, <1>19, PlusIsWell
  <2> QED BY <1>9, <1>16, <2>1
<1>21. PolicyControl'
  BY <1>1, <1>2, <1>9 DEF PolicyControl, PolicyTypeOK, PolicyPlaces
<1>22. PlanLists'
  <2>1. draft' \in PolicyLists /\ Wrote(saw', draft'.ids)
    BY <1>9, <1>14, <1>18 DEF Well
  <2>2. pending' = Nil
    BY <1>1, <1>9, NothingPending
  <2> QED BY <1>9, <1>14, <2>1, <2>2, PlanListsNow
<1>23. GivenFits'
  BY <1>9 DEF GivenFits
<1> QED BY <1>20, <1>21, <1>22, <1>23, PolicyPieces

LEMMA NameMovesKeeps ==
  ASSUME PolicyIInv, NEW n \in TextLengths, NEW found \in 0 .. policy.trajs, NameMoves(n, found)
  PROVE  PolicyIInv'
<1>1. PolicyControl /\ Well(story, 2) /\ PlanLists /\ doing = "expand"
  BY PolicyPieces DEF NameMoves
<1>2. /\ ply \in Nat /\ depth \in Nat /\ ply <= policy.steps /\ n \in Nat /\ policy.trajs \in Nat
      /\ depth \in 1 .. policy.horizon
  BY <1>1, ThePolicy DEF PolicyControl
<1>3. /\ Well(draft, 2) /\ saw \in Seq(Notes) /\ Wrote(saw, draft.ids) /\ draft.ids \in Seq(PolicyToken)
      /\ AllIn(draft.ids, EarlierOrShared(depth))
  BY <1>1 DEF PlanLists, TurnsInOrder, PolicyLists
<1>4. PICK q : q = Passage("query", 0, 1)
  OBVIOUS
<1>5. PICK asked : asked = Plus(draft, NotWritten(q))
  OBVIOUS
<1>6. PICK p : p = Passage("moves", 0, n)
  OBVIOUS
<1>7. PICK f : f = Passage("feedback", 0, 1)
  OBVIOUS
<1>8. PICK told : told = Plus(asked, ModelWritten(p))
  OBVIOUS
<1>9. /\ saw' = Append(saw, [depth |-> depth, traj |-> 0, ids |-> asked.ids])
      /\ draft' = Plus(told, NotWritten(f)) /\ alive' = 1 .. found
      /\ doing' = (IF found = 0 THEN "summarise" ELSE "execute")
      /\ UNCHANGED <<policy, ply, depth, asking, pending, story, given>>
  BY <1>4, <1>5, <1>6, <1>7, <1>8 DEF NameMoves, Note, Query
<1>10. "query" \in PolicyWhats \ {"moves", "summary"} /\ 0 \in Nat /\ 1 \in Nat
       /\ "moves" \in {"moves", "summary"} /\ "feedback" \in PolicyWhats \ {"moves", "summary"}
       /\ "query" \in PolicyWhats /\ "moves" \in PolicyWhats /\ "feedback" \in PolicyWhats
  BY DEF PolicyWhats
<1>11. /\ Well(asked, 2) /\ asked.ids = draft.ids \o q /\ asked.ids \in Seq(PolicyToken)
       /\ Wrote(saw, asked.ids) /\ q \in Seq(PolicyToken)
  <2>1. /\ Well(asked, 2) /\ asked.ids = draft.ids \o q /\ asked.ids \in Seq(PolicyToken)
        /\ Wrote(saw, draft.ids \o q) /\ q \in Seq(PolicyToken)
    BY ONLY <1>2, <1>3, <1>4, <1>5, <1>10, Asked
  <2> QED BY <2>1
<1>a. \A u \in PolicyToken : u.depth = depth /\ u.traj = 0 => u \in EarlierOrShared(depth)
  BY DEF EarlierOrShared
<1>12. AllIn(asked.ids, EarlierOrShared(depth))
  <2>3. AllIn(q, EarlierOrShared(depth))
    BY ONLY <1>2, <1>4, <1>10, <1>a, AllOfPassage
  <2> QED BY <1>3, <1>11, <2>3, AllJoined
<1>13. \A u \in PolicyToken : u.depth = depth /\ u.traj = 0 => Among(asked.ids, NotOfOthers(u)) = asked.ids
  BY <1>2, <1>11, <1>12, SharedIsGiven
<1>14. saw' \in Seq(Notes) /\ Wrote(saw', asked.ids \o p)
  <2>1. PICK made : made = asked.ids
    OBVIOUS
  <2>2. made \in Seq(PolicyToken) /\ Wrote(saw, made) /\ saw \in Seq(Notes)
        /\ \A u \in PolicyToken : u.depth = depth /\ u.traj = 0 => Among(made, NotOfOthers(u)) = made
    BY <1>3, <1>11, <1>13, <2>1
  <2>3. /\ Append(saw, [depth |-> depth, traj |-> 0, ids |-> made]) \in Seq(Notes)
        /\ Wrote(Append(saw, [depth |-> depth, traj |-> 0, ids |-> made]), made \o p)
    BY ONLY <1>2, <1>6, <1>10, <2>2, TextFollows
  <2> QED BY <1>9, <2>1, <2>3
<1>15. Well(ModelWritten(p), 0) /\ ModelWritten(p).ids = p
  BY ONLY <1>2, <1>6, <1>10, ModelText
<1>b. Well(NotWritten(f), 0) /\ NotWritten(f).ids = f /\ \A k \in 1 .. Len(f) : ~StartsText(f[k])
  BY ONLY <1>2, <1>7, <1>10, OtherText
<1>c. p \in Seq(PolicyToken) /\ f \in Seq(PolicyToken)
  <2>1. "moves" \in PolicyWhats /\ "feedback" \in PolicyWhats
    BY DEF PolicyWhats
  <2>2. PassageFits(Passage("moves", 0, n), "moves", 0, n)
    BY ONLY <1>2, <1>10, <2>1, PassageIs, Zenon
  <2>3. PassageFits(Passage("feedback", 0, 1), "feedback", 0, 1)
    BY ONLY <1>2, <1>10, <2>1, PassageIs, Zenon
  <2> QED BY ONLY <1>6, <1>7, <2>2, <2>3 DEF PassageFits
<1>16. PICK b \in Nat : b = 2
  OBVIOUS
<1>17. b \in Nat /\ Well(asked, b)
  BY <1>11, <1>16
<1>18. Well(told, b) /\ told.ids = asked.ids \o p
  <2>1. Well(told, b) /\ told.ids = asked.ids \o ModelWritten(p).ids
    BY ONLY <1>8, <1>15, <1>17, PlusIsWell
  <2> QED BY <1>15, <2>1
<1>19. Well(draft', b) /\ draft'.ids = told.ids \o f
  <2>1. Well(draft', b) /\ draft'.ids = told.ids \o NotWritten(f).ids
    BY ONLY <1>9, <1>b, <1>17, <1>18, PlusIsWell
  <2> QED BY <1>b, <2>1
<1>20. told.ids \in Seq(PolicyToken)
  BY ONLY <1>11, <1>c, <1>18, ConcatProperties
<1>21. Wrote(saw', draft'.ids)
  <2>1. Wrote(saw', told.ids)
    BY <1>14, <1>18
  <2>2. Wrote(saw', told.ids \o f)
    BY ONLY <1>b, <1>c, <1>20, <2>1, WroteNone
  <2> QED BY <1>19, <2>2
<1>22. AllIn(draft'.ids, EarlierOrShared(depth)) /\ AllIn(draft'.ids, NotAfter(depth))
  <2>1. AllIn(p, EarlierOrShared(depth)) /\ AllIn(f, EarlierOrShared(depth))
    BY ONLY <1>2, <1>6, <1>7, <1>10, <1>a, AllOfPassage
  <2>2. AllIn(told.ids, EarlierOrShared(depth))
    BY <1>11, <1>12, <1>c, <1>18, <2>1, AllJoined
  <2>3. AllIn(draft'.ids, EarlierOrShared(depth))
    BY <1>19, <1>20, <1>c, <2>1, <2>2, AllJoined
  <2>4. EarlierOrShared(depth) \subseteq NotAfter(depth)
    BY <1>2 DEF EarlierOrShared, NotAfter, PolicyToken
  <2> QED BY <2>3, <2>4, AllWider
<1>23. PolicyControl'
  <2>1. 1 .. found \subseteq 1 .. policy.trajs /\ asking = {} /\ pending = Nil
    BY <1>1, <1>2, NothingPending
  <2> QED BY <1>1, <1>2, <1>9, <2>1 DEF PolicyControl, PolicyTypeOK, PolicyPlaces
<1>24. PlanLists'
  <2>1. Well(draft', 2) /\ draft' \in PolicyLists
    BY <1>16, <1>19 DEF Well
  <2>2. pending' = Nil
    BY <1>1, <1>9, NothingPending
  <2>3. doing' \in {"summarise", "execute"} /\ depth' = depth
    BY <1>9
  <2> QED BY <1>14, <1>21, <1>22, <2>1, <2>2, <2>3, PlanListsNow
<1>25. GivenFits' /\ Well(story', 2)
  BY <1>1, <1>9 DEF GivenFits
<1> QED BY <1>23, <1>24, <1>25, PolicyPieces

-----------------------------------------------------------------------------
(* A later turn.                                                           *)

\* Of the trajectories' texts, each was made of the plan and its own query.
OwnTokens(i) == {u \in PolicyToken : u.traj = i}

LEMMA OwnIsGiven ==
  ASSUME NEW d \in Seq(PolicyToken), NEW w \in Seq(PolicyToken), NEW q \in Seq(PolicyToken),
         depth \in Nat, NEW i \in Nat, NEW trajs, i \in trajs,
         AllIn(d, EarlierThan(depth)), AllIn(w, OfOthers(depth, trajs)),
         AllIn(q, OwnTokens(i)), NEW u \in PolicyToken, u.depth = depth, u.traj = i
  PROVE  Among((d \o w) \o q, NotOfOthers(u)) = d \o q
<1>1. Among(d, NotOfOthers(u)) = d
  <2>1. EarlierThan(depth) \subseteq EarlierOrShared(depth)
    BY DEF EarlierThan, EarlierOrShared
  <2>2. AllIn(d, EarlierOrShared(depth))
    BY <2>1, AllWider
  <2> QED BY <2>2, SharedIsGiven
<1>2. Among(w, NotOfOthers(u)) = <<>>
  <2>1. \A k \in 1 .. Len(w) : w[k] \notin NotOfOthers(u)
    <3> SUFFICES ASSUME NEW k \in 1 .. Len(w) PROVE w[k] \notin NotOfOthers(u)
      OBVIOUS
    <3>1. PICK t : t = w[k]
      OBVIOUS
    <3>2. t \in PolicyToken /\ t.depth = depth /\ t.traj # 0 /\ t.traj # i
      BY <3>1 DEF AllIn, OfOthers
    <3> QED BY <3>1, <3>2 DEF NotOfOthers
  <2> QED BY <2>1, AmongNone
<1>3. Among(q, NotOfOthers(u)) = q
  <2>1. \A k \in 1 .. Len(q) : q[k] \in NotOfOthers(u)
    <3> SUFFICES ASSUME NEW k \in 1 .. Len(q) PROVE q[k] \in NotOfOthers(u)
      OBVIOUS
    <3>1. PICK t : t = q[k]
      OBVIOUS
    <3>2. t \in PolicyToken /\ t.traj = i
      BY <3>1 DEF AllIn, OwnTokens
    <3> QED BY <3>1, <3>2 DEF NotOfOthers
  <2> QED BY <2>1, AmongAll
<1>4. d \o w \in Seq(PolicyToken)
  BY ConcatProperties
<1>a. PICK kept : kept = NotOfOthers(u)
  OBVIOUS
<1>b. PICK dw : dw = d \o w
  OBVIOUS
<1>5. /\ Among(d \o w, NotOfOthers(u)) = d \o <<>>
      /\ Among((d \o w) \o q, NotOfOthers(u)) = Among(d \o w, NotOfOthers(u)) \o q
  <2>1. Among(d \o w, kept) = Among(d, kept) \o Among(w, kept)
    BY ONLY d \in Seq(PolicyToken), w \in Seq(PolicyToken), AmongJoined
  <2>2. dw \in Seq(PolicyToken)
    BY <1>4, <1>b
  <2>3. Among(dw \o q, kept) = Among(dw, kept) \o Among(q, kept)
    BY ONLY <2>2, q \in Seq(PolicyToken), AmongJoined
  <2> QED BY <1>1, <1>2, <1>3, <1>a, <1>b, <2>1, <2>3
<1>6. d \o <<>> = d
  BY ConcatEmptySeq
<1> QED BY <1>5, <1>6

\* Five lists, put together one after the other or not.
FiveFit(a, w, q, p, f) ==
  /\ a \o (w \o ((q \o p) \o f)) = (((a \o w) \o q) \o p) \o f
  /\ (a \o w) \o q \in Seq(PolicyToken) /\ ((a \o w) \o q) \o p \in Seq(PolicyToken)
  /\ a \o w \in Seq(PolicyToken) /\ a \o q \in Seq(PolicyToken)
  /\ q \o p \in Seq(PolicyToken) /\ (q \o p) \o f \in Seq(PolicyToken)

LEMMA FiveJoined ==
  ASSUME NEW a \in Seq(PolicyToken), NEW w \in Seq(PolicyToken), NEW q \in Seq(PolicyToken),
         NEW p \in Seq(PolicyToken), NEW f \in Seq(PolicyToken)
  PROVE  FiveFit(a, w, q, p, f)
<1>1. Regroups(q, p, f) /\ q \o p \in Seq(PolicyToken)
  BY Regrouping, Zenon
<1>2. Regroups(a, w, q) /\ a \o w \in Seq(PolicyToken)
  BY Regrouping, Zenon
<1>3. Regroups(a, q, p) /\ a \o q \in Seq(PolicyToken)
  BY Regrouping, Zenon
<1>4. Regroups(q \o p, f, f) /\ (q \o p) \o f \in Seq(PolicyToken)
  BY <1>1, Regrouping, Zenon
<1>5. Regroups(a, w, (q \o p) \o f)
  BY <1>4, Regrouping, Zenon
<1>6. Regroups(a \o w, q \o p, f)
  BY <1>1, <1>2, Regrouping, Zenon
<1>7. Regroups(a \o w, q, p) /\ (a \o w) \o q \in Seq(PolicyToken)
  BY <1>2, Regrouping, Zenon
<1>8. Regroups((a \o w) \o q, p, f) /\ ((a \o w) \o q) \o p \in Seq(PolicyToken)
  BY <1>7, Regrouping, Zenon
<1>9. a \o (w \o ((q \o p) \o f)) = (((a \o w) \o q) \o p) \o f
  BY ONLY <1>5, <1>6, <1>7 DEF Regroups
<1> QED BY ONLY <1>1, <1>2, <1>3, <1>4, <1>7, <1>8, <1>9 DEF FiveFit

\* The state after a turn that is not over, or is over with its texts in the
\* plan, or without them.
LEMMA TurnAdds ==
  ASSUME PlanLists, doing = "think", depth \in Nat, depth' = depth,
         saw' \in Seq(Notes), Wrote(saw', draft.ids), NEW all, Well(all, 0),
         Wrote(saw', draft.ids \o all.ids), AllIn(all.ids, OfOthers(depth, asking')),
         \/ draft' = draft /\ pending' = all /\ doing' = "think"
         \/ draft' = Plus(draft, all) /\ pending' = Nil /\ doing' = "execute"
         \/ draft' = draft /\ pending' = Nil /\ doing' = "execute"
  PROVE  PlanLists'
<1>1. /\ Well(draft, 2) /\ draft \in PolicyLists /\ draft.ids \in Seq(PolicyToken)
      /\ AllIn(draft.ids, EarlierThan(depth)) /\ all.ids \in Seq(PolicyToken)
  BY DEF PlanLists, TurnsInOrder, PolicyLists, Well
<1>2. /\ EarlierThan(depth) \subseteq NotAfter(depth)
      /\ OfOthers(depth, asking') \subseteq NotAfter(depth)
  BY DEF EarlierThan, NotAfter, OfOthers, PolicyToken
<1>3. AllIn(draft.ids, NotAfter(depth)) /\ AllIn(all.ids, NotAfter(depth))
  BY <1>1, <1>2, AllWider
<1>4. CASE draft' = draft /\ pending' = all /\ doing' = "think"
  <2>1. TurnsInOrder'
    BY <1>1, <1>4 DEF TurnsInOrder
  <2> QED BY <1>1, <1>4, <2>1 DEF PlanLists
<1>5. CASE draft' = Plus(draft, all) /\ pending' = Nil /\ doing' = "execute"
  <2>1. PICK b \in Nat : b = 2
    OBVIOUS
  <2>2. b \in Nat /\ Well(draft, b)
    BY <1>1, <2>1
  <2>3. Well(Plus(draft, all), b) /\ Plus(draft, all).ids = draft.ids \o all.ids
    BY ONLY <2>2, Well(all, 0), PlusIsWell
  <2>4. AllIn(draft'.ids, NotAfter(depth))
    BY <1>1, <1>3, <1>5, <2>3, AllJoined
  <2>5. Well(draft', 2) /\ Wrote(saw', draft'.ids)
    BY <1>5, <2>1, <2>3
  <2> QED BY <1>5, <2>4, <2>5, PlanListsNow DEF Well
<1>6. CASE draft' = draft /\ pending' = Nil /\ doing' = "execute"
  <2>1. /\ draft' \in PolicyLists /\ Well(draft', 2) /\ Wrote(saw', draft'.ids)
        /\ AllIn(draft'.ids, NotAfter(depth'))
    BY <1>1, <1>3, <1>6
  <2> QED BY <1>6, <2>1, PlanListsNow
<1> QED BY <1>4, <1>5, <1>6

LEMMA ThinkOnKeeps ==
  ASSUME PolicyIInv, NEW i \in asking, NEW n \in TextLengths, ThinkOn(i, n)
  PROVE  PolicyIInv'
<1>1. PolicyControl /\ Well(story, 2) /\ PlanLists /\ doing = "think"
  BY PolicyPieces DEF ThinkOn
<1>2. /\ ply \in Nat /\ depth \in Nat /\ ply <= policy.steps /\ n \in Nat /\ policy.trajs \in Nat
      /\ depth \in 1 .. policy.horizon /\ asking \subseteq alive /\ alive \subseteq 1 .. policy.trajs
  BY <1>1, ThePolicy DEF PolicyControl, PolicyTypeOK
<1>3. i \in Nat /\ i # 0
  BY <1>2
<1>4. /\ Well(draft, 2) /\ Well(pending, 0) /\ saw \in Seq(Notes) /\ Wrote(saw, draft.ids)
      /\ Wrote(saw, draft.ids \o pending.ids)
      /\ draft.ids \in Seq(PolicyToken) /\ pending.ids \in Seq(PolicyToken)
      /\ AllIn(draft.ids, EarlierThan(depth)) /\ AllIn(pending.ids, OfOthers(depth, asking))
  BY <1>1 DEF PlanLists, TurnsInOrder, PolicyLists, Well
<1>5. PICK q : q = Passage("query", i, 1)
  OBVIOUS
<1>6. PICK p : p = Passage("moves", i, n)
  OBVIOUS
<1>7. PICK f : f = Passage("feedback", i, 1)
  OBVIOUS
<1>8. PICK qp : qp = Plus(NotWritten(q), ModelWritten(p))
  OBVIOUS
<1>9. PICK texts : texts = Plus(qp, NotWritten(f))
  OBVIOUS
<1>10. PICK all : all = Plus(pending, texts)
  OBVIOUS
<1>11. PICK made : made = draft.ids \o q
  OBVIOUS
<1>12. /\ "query" \in PolicyWhats \ {"moves", "summary"} /\ 0 \in Nat /\ 1 \in Nat
       /\ "moves" \in {"moves", "summary"} /\ "feedback" \in PolicyWhats \ {"moves", "summary"}
       /\ "query" \in PolicyWhats /\ "moves" \in PolicyWhats /\ "feedback" \in PolicyWhats
  BY DEF PolicyWhats
<1>13. /\ Well(NotWritten(q), 0) /\ NotWritten(q).ids = q /\ \A k \in 1 .. Len(q) : ~StartsText(q[k])
       /\ Well(NotWritten(f), 0) /\ NotWritten(f).ids = f /\ \A k \in 1 .. Len(f) : ~StartsText(f[k])
  BY ONLY <1>2, <1>3, <1>5, <1>7, <1>12, OtherText
<1>14. Well(ModelWritten(p), 0) /\ ModelWritten(p).ids = p
  BY ONLY <1>2, <1>3, <1>6, <1>12, ModelText
<1>15. /\ p \in Seq(PolicyToken) /\ f \in Seq(PolicyToken) /\ q \in Seq(PolicyToken)
       /\ AllIn(q, OwnTokens(i))
  <2>1. p \in Seq(PolicyToken) /\ f \in Seq(PolicyToken) /\ q \in Seq(PolicyToken)
    <3>1. PassageFits(Passage("query", i, 1), "query", i, 1)
      BY ONLY <1>2, <1>3, <1>12, PassageIs, Zenon
    <3>2. PassageFits(Passage("moves", i, n), "moves", i, n)
      BY ONLY <1>2, <1>3, <1>12, PassageIs, Zenon
    <3>3. PassageFits(Passage("feedback", i, 1), "feedback", i, 1)
      BY ONLY <1>2, <1>3, <1>12, PassageIs, Zenon
    <3> QED BY ONLY <1>5, <1>6, <1>7, <3>1, <3>2, <3>3 DEF PassageFits
  <2>2. \A u \in PolicyToken : u.depth = depth /\ u.traj = i => u \in OwnTokens(i)
    BY DEF OwnTokens
  <2>3. AllIn(q, OwnTokens(i))
    BY ONLY <1>2, <1>3, <1>5, <1>12, <2>2, AllOfPassage
  <2> QED BY <2>1, <2>3
<1>16. Well(qp, 0) /\ qp.ids = q \o p /\ Well(texts, 0) /\ texts.ids = (q \o p) \o f
       /\ Well(all, 0) /\ all.ids = pending.ids \o ((q \o p) \o f)
  <2>1. PICK b \in Nat : b = 0
    OBVIOUS
  <2>2. b \in Nat /\ Well(NotWritten(q), b) /\ Well(pending, b)
    BY <1>4, <1>13, <2>1
  <2>3. Well(qp, b) /\ qp.ids = NotWritten(q).ids \o ModelWritten(p).ids
    BY ONLY <1>8, <1>14, <2>2, PlusIsWell
  <2>4. b \in Nat /\ Well(qp, b) /\ Well(NotWritten(f), 0)
    BY <1>13, <2>2, <2>3
  <2>5. Well(texts, b) /\ texts.ids = qp.ids \o NotWritten(f).ids
    BY ONLY <1>9, <2>4, PlusIsWell
  <2>6. Well(texts, 0)
    BY <2>1, <2>5
  <2>7. Well(all, b) /\ all.ids = pending.ids \o texts.ids
    BY ONLY <1>10, <2>2, <2>6, PlusIsWell
  <2>8. qp.ids = q \o p
    BY <1>13, <1>14, <2>3
  <2>9. texts.ids = (q \o p) \o f
    BY <1>13, <2>5, <2>8
  <2> QED BY <2>1, <2>3, <2>5, <2>7, <2>8, <2>9
<1>17. /\ saw' = Append(saw, [depth |-> depth, traj |-> i, ids |-> made])
       /\ asking' = asking \ {i}
       /\ UNCHANGED <<policy, ply, depth, alive, story, given>>
       /\ asking' = {} => /\ draft' = (IF policy.turn2 THEN Plus(draft, all) ELSE draft)
                          /\ pending' = Nil /\ doing' = "execute"
       /\ asking' # {} => pending' = all /\ draft' = draft /\ doing' = "think"
  <2>1. MadeOf(i).ids = made
    <3>1. MadeOf(i) = Plus(draft, NotWritten(q))
      BY <1>5 DEF MadeOf, Query
    <3>2. Plus(draft, NotWritten(q)).ids = draft.ids \o q
      BY <1>13 DEF Plus
    <3> QED BY <1>11, <3>1, <3>2
  <2>2. Query(i) = NotWritten(q)
    BY <1>5 DEF Query
  <2> QED BY <1>6, <1>7, <1>8, <1>9, <1>10, <2>1, <2>2 DEF ThinkOn, Note
<1>18. PICK d : d = draft.ids
  OBVIOUS
<1>19. PICK w : w = pending.ids
  OBVIOUS
<1>20. /\ d \in Seq(PolicyToken) /\ w \in Seq(PolicyToken) /\ Wrote(saw, d) /\ Wrote(saw, d \o w)
       /\ AllIn(d, EarlierThan(depth)) /\ AllIn(w, OfOthers(depth, asking)) /\ made = d \o q
       /\ all.ids = w \o ((q \o p) \o f)
  BY <1>4, <1>11, <1>16, <1>18, <1>19
<1>a. /\ d \in Seq(PolicyToken) /\ w \in Seq(PolicyToken) /\ q \in Seq(PolicyToken)
      /\ p \in Seq(PolicyToken) /\ f \in Seq(PolicyToken)
  BY <1>15, <1>20
<1>21. /\ d \o (w \o ((q \o p) \o f)) = (((d \o w) \o q) \o p) \o f
       /\ (d \o w) \o q \in Seq(PolicyToken) /\ ((d \o w) \o q) \o p \in Seq(PolicyToken)
       /\ d \o w \in Seq(PolicyToken) /\ made \in Seq(PolicyToken)
       /\ q \o p \in Seq(PolicyToken) /\ (q \o p) \o f \in Seq(PolicyToken)
  <2>1. FiveFit(d, w, q, p, f)
    BY ONLY <1>a, FiveJoined
  <2> QED BY <1>20, <2>1 DEF FiveFit
<1>22. \A u \in PolicyToken : u.depth = depth /\ u.traj = i =>
         Among((d \o w) \o q, NotOfOthers(u)) = made
  <2> SUFFICES ASSUME NEW u \in PolicyToken, u.depth = depth, u.traj = i
               PROVE  Among((d \o w) \o q, NotOfOthers(u)) = made
    OBVIOUS
  <2>1. Among((d \o w) \o q, NotOfOthers(u)) = d \o q
    <3>1. AllIn(d, EarlierThan(depth)) /\ AllIn(w, OfOthers(depth, asking))
          /\ AllIn(q, OwnTokens(i))
      BY <1>15, <1>20
    <3>2. depth \in Nat /\ i \in Nat /\ i \in asking /\ u \in PolicyToken
          /\ u.depth = depth /\ u.traj = i
      BY <1>2, <1>3
    <3> QED BY ONLY <1>a, <3>1, <3>2, OwnIsGiven
  <2> QED BY <1>20, <2>1
<1>23. PICK ids : ids = (d \o w) \o q
  OBVIOUS
<1>24. ids \in Seq(PolicyToken) /\ Wrote(saw, ids)
       /\ \A u \in PolicyToken : u.depth = depth /\ u.traj = i => Among(ids, NotOfOthers(u)) = made
  <2>1. Wrote(saw, (d \o w) \o q)
    BY ONLY <1>13, <1>15, <1>20, <1>21, WroteNone
  <2> QED BY <1>21, <1>22, <1>23, <2>1
<1>25. saw' \in Seq(Notes) /\ Wrote(saw', ids \o p)
  <2>1. /\ Append(saw, [depth |-> depth, traj |-> i, ids |-> made]) \in Seq(Notes)
        /\ Wrote(Append(saw, [depth |-> depth, traj |-> i, ids |-> made]), ids \o p)
    <3>1. saw \in Seq(Notes) /\ made \in Seq(PolicyToken)
      BY <1>4, <1>21
    <3> QED BY ONLY <1>2, <1>3, <1>6, <1>12, <1>24, <3>1, TextFollows
  <2> QED BY <1>17, <2>1
<1>26. Wrote(saw', d \o all.ids)
  <2>1. ids \o p \in Seq(PolicyToken)
    BY <1>21, <1>23
  <2>2. Wrote(saw', (ids \o p) \o f)
    BY ONLY <1>13, <1>15, <1>25, <2>1, WroteNone
  <2> QED BY <1>20, <1>21, <1>23, <2>2
<1>27. Wrote(saw', d)
  <2>1. [depth |-> depth, traj |-> i, ids |-> made] \in Notes
    BY <1>2, <1>3, <1>21 DEF Notes
  <2> QED BY <1>4, <1>17, <1>20, <2>1, WroteMore
<1>28. AllIn(all.ids, OfOthers(depth, asking'))
  <2>1. \A u \in PolicyToken : u.depth = depth /\ u.traj = i => u \in OfOthers(depth, asking')
    BY <1>3, <1>17 DEF OfOthers
  <2>2. AllIn(q, OfOthers(depth, asking')) /\ AllIn(p, OfOthers(depth, asking'))
        /\ AllIn(f, OfOthers(depth, asking'))
    BY ONLY <1>2, <1>3, <1>5, <1>6, <1>7, <1>12, <2>1, AllOfPassage
  <2>3. AllIn(w, OfOthers(depth, asking'))
    <3>1. OfOthers(depth, asking) \subseteq OfOthers(depth, asking')
      BY <1>17 DEF OfOthers
    <3> QED BY <1>20, <3>1, AllWider
  <2>4. AllIn(q \o p, OfOthers(depth, asking'))
    BY <1>15, <2>2, AllJoined
  <2>5. AllIn((q \o p) \o f, OfOthers(depth, asking'))
    BY <1>15, <1>21, <2>2, <2>4, AllJoined
  <2>6. AllIn(w \o ((q \o p) \o f), OfOthers(depth, asking'))
    BY <1>20, <1>21, <2>3, <2>5, AllJoined
  <2> QED BY <1>20, <2>6
<1>29. PlanLists'
  <2>1. \/ draft' = draft /\ pending' = all /\ doing' = "think"
        \/ draft' = Plus(draft, all) /\ pending' = Nil /\ doing' = "execute"
        \/ draft' = draft /\ pending' = Nil /\ doing' = "execute"
    BY <1>17
  <2>2. Wrote(saw', draft.ids) /\ Wrote(saw', draft.ids \o all.ids) /\ depth' = depth
    BY <1>17, <1>18, <1>26, <1>27
  <2>3. PlanLists /\ doing = "think" /\ depth \in Nat /\ Well(all, 0) /\ saw' \in Seq(Notes)
    BY <1>1, <1>2, <1>16, <1>25
  <2> QED BY ONLY <1>28, <2>1, <2>2, <2>3, TurnAdds
<1>30. PolicyControl'
  <2>1. doing' \in {"think", "execute"} /\ (doing' = "think" <=> asking' # {})
        /\ (pending' # Nil => doing' = "think")
    BY <1>17
  <2>2. asking' \subseteq alive'
    BY <1>2, <1>17
  <2> QED BY <1>1, <1>2, <1>17, <2>1, <2>2 DEF PolicyControl, PolicyTypeOK, PolicyPlaces
<1>31. GivenFits' /\ Well(story', 2)
  <2>1. doing' # "done"
    BY <1>17
  <2> QED BY <1>1, <1>17, <2>1 DEF GivenFits
<1> QED BY <1>29, <1>30, <1>31, PolicyPieces

-----------------------------------------------------------------------------
LEMMA PolicyInvariance == PolicySpec => []PolicyIInv
<1>1. PolicyInit => PolicyIInv
  BY PolicyStarts
<1>2. PolicyIInv /\ [PolicyNext]_policyVars => PolicyIInv'
  <2> SUFFICES ASSUME PolicyIInv, [PolicyNext]_policyVars PROVE PolicyIInv'
    OBVIOUS
  <2>1. CASE StartPolicy
    BY <2>1, StartPolicyKeeps
  <2>2. CASE \E n \in TextLengths, found \in 0 .. policy.trajs : NameMoves(n, found)
    BY <2>2, NameMovesKeeps
  <2>3. CASE \E i \in asking, n \in TextLengths : ThinkOn(i, n)
    BY <2>3, ThinkOnKeeps
  <2>4. CASE \E over \in SUBSET alive : ExecuteTurn(over)
    BY <2>4, ExecuteTurnKeeps
  <2>5. CASE \E n \in TextLengths : Decide(n)
    BY <2>5, DecideKeeps
  <2>6. CASE NoDecision
    <3>1. 0 \in Int
      OBVIOUS
    <3> QED BY <2>6, <3>1, PlayKeeps
  <2>7. CASE \E r \in {0, 1} : PlayAndEnd(r) \/ PlayAndGoOn(r)
    <3>1. PICK r \in {0, 1} : PlayAndEnd(r) \/ PlayAndGoOn(r)
      BY <2>7
    <3>2. r \in Int
      OBVIOUS
    <3> QED BY <3>1, <3>2, PlayKeeps
  <2>8. CASE GiveStory
    BY <2>8, GiveStoryKeeps
  <2>9. CASE UNCHANGED policyVars
    BY <2>9, PolicyStays
  <2> QED BY <2>1, <2>2, <2>3, <2>4, <2>5, <2>6, <2>7, <2>8, <2>9 DEF PolicyNext
<1> QED BY <1>1, <1>2, PTL DEF PolicySpec

(* The turns, trajectories and moves of an episode that the policy plans   *)
(* stay within the limits of its configuration, and trajectories wait to   *)
(* be asked only while the model thinks.                                   *)
THEOREM PoliciesAreBounded == PolicySpec => []PolicyTypeOK
<1>1. PolicyIInv => PolicyTypeOK
  BY DEF PolicyIInv
<1> QED BY <1>1, PolicyInvariance, PTL

(* What the model wrote it wrote after exactly the tokens that stand       *)
(* before it, but for those of the other trajectories of its turn; and     *)
(* tokens, mask and rewards agree in the plan, the episode and the sample. *)
THEOREM PoliciesLearnAsWritten == PolicySpec => []LearnsAsWritten
<1>1. PolicyIInv => LearnsAsWritten
  BY DEF PolicyIInv, LearnsAsWritten, WroteAfterWhatStandsBefore
<1> QED BY <1>1, PolicyInvariance, PTL

-----------------------------------------------------------------------------
(* The inference loops: the last tokens of texts, and their rewards.       *)

InBits(m) == m \in Seq({0, 1})

\* A list that goes on with n times the same.
GoesOn(new, old, n, b) ==
  /\ Len(new) = Len(old) + n
  /\ \A i \in 1 .. Len(old) : new[i] = old[i]
  /\ \A i \in Len(old) + 1 .. Len(old) + n : new[i] = b

LEMMA AllSame ==
  ASSUME NEW n \in Nat
  PROVE  /\ Zeros(n) \in Seq({0, 1}) /\ Ones(n) \in Seq({0, 1}) /\ Zeros(n) \in Seq(Int)
         /\ Len(Zeros(n)) = n /\ Len(Ones(n)) = n
         /\ \A i \in 1 .. n : Zeros(n)[i] = 0 /\ Ones(n)[i] = 1
BY DEF Zeros, Ones

LEMMA GoingOn ==
  ASSUME NEW S, NEW s \in Seq(S), NEW n \in Nat, NEW t \in Seq(S), NEW b,
         Len(t) = n, \A i \in 1 .. n : t[i] = b
  PROVE  s \o t \in Seq(S) /\ GoesOn(s \o t, s, n, b)
<1>1. PICK k \in Nat : k = Len(s)
  BY LenProperties
<1>2. /\ s \o t \in Seq(S) /\ Len(s \o t) = k + n
      /\ \A i \in 1 .. k + n : (s \o t)[i] = IF i <= k THEN s[i] ELSE t[i - k]
  BY <1>1, ConcatProperties
<1>3. ASSUME NEW i \in k + 1 .. k + n PROVE (s \o t)[i] = b
  <2>1. i \in 1 .. k + n /\ ~(i <= k) /\ i - k \in 1 .. n
    OBVIOUS
  <2>2. (s \o t)[i] = t[i - k]
    BY <1>2, <2>1
  <2> QED BY <2>1, <2>2
<1>4. \A i \in 1 .. k : (s \o t)[i] = s[i]
  BY <1>2
<1> QED BY <1>1, <1>2, <1>3, <1>4 DEF GoesOn

LEMMA EndsAreFinite ==
  ASSUME NEW m, InBits(m)
  PROVE  /\ IsFiniteSet(Ends(m)) /\ Cardinality(Ends(m)) \in Nat
         /\ \A i \in Nat : TextsTo(m, i) \in Nat
<1>1. Len(m) \in Nat
  BY LenProperties DEF InBits
<1>2. IsFiniteSet(1 .. Len(m))
  BY <1>1, FS_Interval
<1>3. Ends(m) \in SUBSET (1 .. Len(m))
  BY DEF Ends
<1>4. IsFiniteSet(Ends(m))
  BY <1>2, <1>3, FS_Subset
<1>5. ASSUME NEW i \in Nat PROVE TextsTo(m, i) \in Nat
  <2>1. {j \in Ends(m) : j <= i} \in SUBSET Ends(m)
    OBVIOUS
  <2> QED BY <1>4, <2>1, FS_Subset, FS_CardinalityType DEF TextsTo
<1> QED BY <1>4, <1>5, FS_CardinalityType

\* Adding what the model did not write ends no text.
LEMMA EndsAfterZeros ==
  ASSUME NEW m, InBits(m), NEW new, InBits(new), NEW n \in Nat, GoesOn(new, m, n, 0)
  PROVE  Ends(new) = Ends(m)
<1>1. PICK k \in Nat : k = Len(m)
  BY LenProperties DEF InBits
<1>2. /\ Len(new) = k + n
      /\ \A i \in 1 .. k : new[i] = m[i]
      /\ \A i \in k + 1 .. k + n : new[i] = 0
  BY <1>1 DEF GoesOn
<1>3. ASSUME NEW i \in 1 .. k + n
      PROVE  i \in Ends(new) <=> i \in Ends(m)
  <2>1. i \in Ends(new) <=> new[i] = 1 /\ (i < k + n => new[i + 1] = 0)
    BY <1>2 DEF Ends
  <2>2. i \in Ends(m) <=> i \in 1 .. k /\ m[i] = 1 /\ (i < k => m[i + 1] = 0)
    BY <1>1 DEF Ends
  <2>3. CASE i < k
    <3>1. i \in 1 .. k /\ i + 1 \in 1 .. k /\ i < k + n
      BY <2>3
    <3> QED BY <1>2, <2>1, <2>2, <2>3, <3>1
  <2>4. CASE i = k
    <3>1. i \in 1 .. k /\ (i < k + n => i + 1 \in k + 1 .. k + n)
      BY <2>4
    <3> QED BY <1>2, <2>1, <2>2, <2>4, <3>1
  <2>5. CASE i > k
    <3>1. i \in k + 1 .. k + n /\ i \notin 1 .. k
      BY <2>5
    <3>2. new[i] = 0
      BY <1>2, <3>1
    <3> QED BY <2>1, <2>2, <3>1, <3>2
  <2> QED BY <2>3, <2>4, <2>5
<1>4. Ends(new) \subseteq 1 .. k + n /\ Ends(m) \subseteq 1 .. k + n
  BY <1>1, <1>2 DEF Ends
<1> QED BY <1>3, <1>4

\* Adding a text of the model, after something else, adds its end.
LEMMA EndsAfterOnes ==
  ASSUME NEW m, InBits(m), NEW new, InBits(new), NEW n \in Nat \ {0}, GoesOn(new, m, n, 1),
         m = <<>> \/ m[Len(m)] = 0
  PROVE  Ends(new) = Ends(m) \cup {Len(m) + n} /\ Len(m) + n \notin Ends(m)
<1>1. PICK k \in Nat : k = Len(m)
  BY LenProperties DEF InBits
<1>2. /\ Len(new) = k + n
      /\ \A i \in 1 .. k : new[i] = m[i]
      /\ \A i \in k + 1 .. k + n : new[i] = 1
  BY <1>1 DEF GoesOn
<1>3. k = 0 \/ m[k] = 0
  BY <1>1 DEF InBits
<1>4. ASSUME NEW i \in 1 .. k + n
      PROVE  i \in Ends(new) <=> i \in Ends(m) \/ i = k + n
  <2>1. i \in Ends(new) <=> new[i] = 1 /\ (i < k + n => new[i + 1] = 0)
    BY <1>2 DEF Ends
  <2>2. i \in Ends(m) <=> i \in 1 .. k /\ m[i] = 1 /\ (i < k => m[i + 1] = 0)
    BY <1>1 DEF Ends
  <2>3. CASE i < k
    <3>1. i \in 1 .. k /\ i + 1 \in 1 .. k /\ i < k + n
      BY <2>3
    <3> QED BY <1>2, <2>1, <2>2, <2>3, <3>1
  <2>4. CASE i = k
    <3>1. i \in 1 .. k /\ i < k + n
      BY <2>4
    <3>2. m[i] = 0
      BY <1>3, <2>4
    <3> QED BY <1>2, <2>1, <2>2, <3>1, <3>2
  <2>5. CASE i > k /\ i < k + n
    <3>1. i \in k + 1 .. k + n /\ i + 1 \in k + 1 .. k + n /\ i \notin 1 .. k
      BY <2>5
    <3>2. new[i + 1] = 1
      BY <1>2, <3>1
    <3> QED BY <2>1, <2>2, <2>5, <3>1, <3>2
  <2>6. CASE i = k + n
    <3>1. i \in k + 1 .. k + n
      BY <2>6
    <3>2. new[i] = 1
      BY <1>2, <3>1
    <3> QED BY <2>1, <2>6, <3>2
  <2> QED BY <2>3, <2>4, <2>5, <2>6
<1>5. Ends(new) \subseteq 1 .. k + n /\ Ends(m) \subseteq 1 .. k /\ k + n \in 1 .. k + n /\ k + n \notin 1 .. k
  BY <1>1, <1>2 DEF Ends
<1> QED BY <1>1, <1>4, <1>5

LEMMA ZerosKeepRewards ==
  ASSUME NEW m, InBits(m), NEW new, InBits(new), NEW n \in Nat, GoesOn(new, m, n, 0),
         NEW r, NEW more, GoesOn(more, r, n, 0), NEW worth, RewardsAre(m, r, worth)
  PROVE  RewardsAre(new, more, worth)
<1>1. PICK k \in Nat : k = Len(m)
  BY LenProperties DEF InBits
<1>2. Ends(new) = Ends(m)
  BY EndsAfterZeros
<1>3. \A i \in 1 .. k + n : RewardAt(new, worth, i) = RewardAt(m, worth, i)
  BY <1>2 DEF RewardAt, TextsTo
<1>4. Len(r) = k /\ \A i \in 1 .. k : r[i] = RewardAt(m, worth, i)
  BY <1>1 DEF RewardsAre
<1>5. Len(more) = k + n /\ Len(new) = k + n
  BY <1>1, <1>4 DEF GoesOn
<1>6. ASSUME NEW i \in 1 .. k + n PROVE more[i] = RewardAt(new, worth, i)
  <2>1. CASE i <= k
    <3>1. i \in 1 .. k
      BY <2>1
    <3> QED BY <1>3, <1>4, <3>1 DEF GoesOn
  <2>2. CASE i > k
    <3>1. i \in k + 1 .. k + n /\ i \notin 1 .. k
      BY <2>2
    <3>2. i \notin Ends(m)
      BY <1>1, <3>1 DEF Ends
    <3>3. RewardAt(m, worth, i) = 0
      BY <3>2 DEF RewardAt
    <3> QED BY <1>3, <1>4, <3>1, <3>3 DEF GoesOn
  <2> QED BY <2>1, <2>2
<1> QED BY <1>5, <1>6 DEF RewardsAre

LEMMA OnesKeepRewards ==
  ASSUME NEW m, InBits(m), NEW new, InBits(new), NEW n \in Nat \ {0}, GoesOn(new, m, n, 1),
         m = <<>> \/ m[Len(m)] = 0,
         NEW r, NEW more, GoesOn(more, r, n, 0), NEW worth, RewardsAre(m, r, worth),
         NEW c, c = Cardinality(Ends(m)) + 1,
         ~(c % PerMove = 0 /\ c \div PerMove <= Len(worth))
  PROVE  RewardsAre(new, more, worth) /\ Cardinality(Ends(new)) = c
<1>1. PICK k \in Nat : k = Len(m)
  BY LenProperties DEF InBits
<1>2. Ends(new) = Ends(m) \cup {k + n} /\ k + n \notin Ends(m)
  BY <1>1, EndsAfterOnes
<1>3. Cardinality(Ends(new)) = c
  BY <1>2, EndsAreFinite, FS_AddElement
<1>4. Len(r) = k /\ \A i \in 1 .. k : r[i] = RewardAt(m, worth, i)
  BY <1>1 DEF RewardsAre
<1>5. Len(more) = k + n /\ Len(new) = k + n
  BY <1>1, <1>4 DEF GoesOn
<1>6. ASSUME NEW i \in 1 .. k + n PROVE more[i] = RewardAt(new, worth, i)
  <2>1. CASE i <= k
    <3>1. i \in 1 .. k
      BY <2>1
    <3>2. more[i] = r[i]
      BY <1>4, <3>1 DEF GoesOn
    <3>3. ~(k + n <= i) /\ i # k + n
      BY <3>1
    <3>4. {j \in Ends(new) : j <= i} = {j \in Ends(m) : j <= i} /\ (i \in Ends(new) <=> i \in Ends(m))
      BY <1>2, <3>3
    <3> QED BY <1>4, <3>1, <3>2, <3>4 DEF RewardAt, TextsTo
  <2>2. CASE i > k
    <3>1. i \in k + 1 .. k + n /\ i \notin 1 .. k
      BY <2>2
    <3>2. more[i] = 0
      BY <1>4, <3>1 DEF GoesOn
    <3>3. i \notin Ends(m)
      BY <1>1, <3>1 DEF Ends
    <3>4. CASE i # k + n
      BY <1>2, <3>2, <3>3, <3>4 DEF RewardAt
    <3>5. CASE i = k + n
      <4>1. \A j \in Ends(new) : j <= k + n
        BY <1>5 DEF Ends
      <4>2. {j \in Ends(new) : j <= i} = Ends(new)
        BY <3>5, <4>1
      <4>3. TextsTo(new, i) = c
        BY <1>3, <4>2 DEF TextsTo
      <4> QED BY <3>2, <4>3 DEF RewardAt
    <3> QED BY <3>4, <3>5
  <2> QED BY <2>1, <2>2
<1> QED BY <1>3, <1>5, <1>6 DEF RewardsAre

\* The reward of a move, at the end of the last text.
LEMMA RewardedAtEnd ==
  ASSUME NEW m, InBits(m), m # <<>>, m[Len(m)] = 1,
         NEW r \in Seq(Int), NEW x \in Int, NEW worth \in Seq(Int), RewardsAre(m, r, worth),
         Cardinality(Ends(m)) = PerMove * (Len(worth) + 1)
  PROVE  RewardsAre(m, [r EXCEPT ![Len(r)] = x], Append(worth, x))
<1>1. PICK k \in Nat \ {0} : k = Len(m)
  BY LenProperties DEF InBits
<1>2. PICK w \in Nat : w = Len(worth)
  BY LenProperties
<1>3. Len(r) = k /\ \A i \in 1 .. k : r[i] = RewardAt(m, worth, i)
  BY <1>1 DEF RewardsAre
<1>4. PICK s : s = [r EXCEPT ![Len(r)] = x]
  OBVIOUS
<1>5. Len(s) = k /\ s[k] = x /\ \A i \in 1 .. k : i # k => s[i] = r[i]
  BY <1>1, <1>3, <1>4, ExceptSeq
<1>6. PICK more : more = Append(worth, x)
  OBVIOUS
<1>7. Len(more) = w + 1 /\ more[w + 1] = x /\ \A i \in 1 .. w : more[i] = worth[i]
  BY <1>2, <1>6, AppendProperties
<1>8. PICK p \in {1, 2} : p = PerMove
  BY DEF PerMove
<1>9. PICK E : E = Ends(m)
  OBVIOUS
<1>10. IsFiniteSet(E) /\ Cardinality(E) = p * (w + 1) /\ k \in E /\ E \subseteq 1 .. k
  <2>1. IsFiniteSet(E) /\ Cardinality(E) = p * (w + 1)
    BY <1>2, <1>8, <1>9, EndsAreFinite
  <2>2. m[k] = 1 /\ k \in 1 .. k
    BY <1>1
  <2>3. k \in E /\ E \subseteq 1 .. k
    BY <1>1, <1>9, <2>2 DEF Ends
  <2> QED BY <2>1, <2>3
<1>11. ASSUME NEW i \in 1 .. k PROVE s[i] = RewardAt(m, more, i)
  <2>1. CASE i = k
    <3>1. {j \in E : j <= i} = E
      <4>1. \A j \in E : j <= k
        BY <1>10
      <4> QED BY <2>1, <4>1
    <3>2. TextsTo(m, i) = p * (w + 1)
      BY <1>9, <1>10, <3>1 DEF TextsTo
    <3>3. (p * (w + 1)) % p = 0 /\ (p * (w + 1)) \div p = w + 1
      OBVIOUS
    <3> QED BY <1>5, <1>7, <1>8, <1>9, <1>10, <2>1, <3>2, <3>3 DEF RewardAt
  <2>2. CASE i # k
    <3>1. PICK F : F = {j \in E : j <= i}
      OBVIOUS
    <3>2. F \in SUBSET (E \ {k})
      BY <1>10, <2>2, <3>1
    <3>3. IsFiniteSet(E \ {k}) /\ Cardinality(E \ {k}) = Cardinality(E) - 1
      BY <1>10, FS_RemoveElement
    <3>4. IsFiniteSet(F) /\ Cardinality(F) <= Cardinality(E \ {k})
      BY ONLY <3>2, <3>3, FS_Subset
    <3>5. PICK n \in Nat : n = Cardinality(F)
      BY <3>4, FS_CardinalityType
    <3>6. n < p * (w + 1) /\ TextsTo(m, i) = n
      BY <1>9, <1>10, <3>1, <3>3, <3>4, <3>5 DEF TextsTo
    <3>7. i \in Ends(m) => n > 0
      <4> SUFFICES ASSUME i \in E, n = 0 PROVE FALSE
        BY <1>9
      <4>1. F = {}
        BY <3>4, <3>5, FS_EmptySet
      <4> QED BY <3>1, <4>1
    <3>8. n % p = 0 => n \div p <= w /\ (n > 0 => n \div p \in 1 .. w)
      <4>1. CASE p = 1
        <5>1. n < w + 1 /\ n \div p = n
          BY <3>6, <4>1
        <5> QED BY <5>1
      <4>2. CASE p = 2
        <5>1. n < 2 * (w + 1)
          BY <3>6, <4>2
        <5>2. PICK q \in Nat : q = n \div 2 /\ (n % 2 = 0 => n = 2 * q)
          OBVIOUS
        <5> QED BY <4>2, <5>1, <5>2
      <4> QED BY <4>1, <4>2
    <3>9. n % p = 0 /\ i \in Ends(m) => n \div p <= w /\ more[n \div p] = worth[n \div p]
      BY <1>7, <3>7, <3>8
    <3>10. n % p = 0 => n \div p <= w + 1
      BY <3>8
    <3>11. RewardAt(m, more, i) = RewardAt(m, worth, i)
      BY <1>2, <1>7, <1>8, <3>6, <3>9, <3>10 DEF RewardAt
    <3> QED BY <1>3, <1>5, <2>2, <3>11
  <2> QED BY <2>1, <2>2
<1> QED BY <1>1, <1>4, <1>5, <1>6, <1>11 DEF RewardsAre

LEMMA WithZeros ==
  ASSUME NEW m, InBits(m), NEW r \in Seq(Int), NEW worth, RewardsAre(m, r, worth), NEW n \in Nat
  PROVE  /\ InBits(m \o Zeros(n)) /\ r \o Zeros(n) \in Seq(Int)
         /\ RewardsAre(m \o Zeros(n), r \o Zeros(n), worth)
         /\ Ends(m \o Zeros(n)) = Ends(m)
         /\ n = 1 => m \o Zeros(n) # <<>> /\ (m \o Zeros(n))[Len(m \o Zeros(n))] = 0
<1>1. InBits(m \o Zeros(n)) /\ GoesOn(m \o Zeros(n), m, n, 0)
  BY AllSame, GoingOn DEF InBits
<1>2. r \o Zeros(n) \in Seq(Int) /\ GoesOn(r \o Zeros(n), r, n, 0)
  BY AllSame, GoingOn
<1>3. Len(m) \in Nat
  BY LenProperties DEF InBits
<1>4. n = 1 => Len(m \o Zeros(n)) = Len(m) + 1 /\ (m \o Zeros(n))[Len(m) + 1] = 0
  BY <1>1, <1>3 DEF GoesOn
<1>5. m \o Zeros(n) = <<>> => Len(m \o Zeros(n)) = 0
  OBVIOUS
<1>6. RewardsAre(m \o Zeros(n), r \o Zeros(n), worth) /\ Ends(m \o Zeros(n)) = Ends(m)
  BY <1>1, <1>2, ZerosKeepRewards, EndsAfterZeros
<1> QED BY <1>1, <1>2, <1>3, <1>4, <1>5, <1>6

LEMMA WithOnes ==
  ASSUME NEW m, InBits(m), NEW r \in Seq(Int), NEW worth, RewardsAre(m, r, worth),
         NEW n \in Nat \ {0}, m = <<>> \/ m[Len(m)] = 0,
         NEW c, c = Cardinality(Ends(m)) + 1,
         ~(c % PerMove = 0 /\ c \div PerMove <= Len(worth))
  PROVE  /\ InBits(m \o Ones(n)) /\ r \o Zeros(n) \in Seq(Int)
         /\ RewardsAre(m \o Ones(n), r \o Zeros(n), worth)
         /\ Cardinality(Ends(m \o Ones(n))) = c
         /\ m \o Ones(n) # <<>> /\ (m \o Ones(n))[Len(m \o Ones(n))] = 1
<1>1. InBits(m \o Ones(n)) /\ GoesOn(m \o Ones(n), m, n, 1)
  BY AllSame, GoingOn DEF InBits
<1>2. r \o Zeros(n) \in Seq(Int) /\ GoesOn(r \o Zeros(n), r, n, 0)
  BY AllSame, GoingOn
<1>3. Len(m) \in Nat
  BY LenProperties DEF InBits
<1>4. Len(m \o Ones(n)) = Len(m) + n /\ (m \o Ones(n))[Len(m) + n] = 1
  BY <1>1, <1>3 DEF GoesOn
<1>5. m \o Ones(n) = <<>> => Len(m \o Ones(n)) = 0
  OBVIOUS
<1>6. RewardsAre(m \o Ones(n), r \o Zeros(n), worth) /\ Cardinality(Ends(m \o Ones(n))) = c
  BY ONLY <1>1, <1>2, OnesKeepRewards, InBits(m), n \in Nat \ {0}, m = <<>> \/ m[Len(m)] = 0,
     c = Cardinality(Ends(m)) + 1, ~(c % PerMove = 0 /\ c \div PerMove <= Len(worth)),
     RewardsAre(m, r, worth)
<1> QED BY <1>1, <1>2, <1>3, <1>4, <1>5, <1>6

LEMMA ZerosJoined ==
  ASSUME NEW k \in Nat, NEW n \in Nat
  PROVE  Zeros(k) \o Zeros(n) = Zeros(k + n)
<1>1. /\ Zeros(k) \in Seq({0, 1}) /\ Zeros(n) \in Seq({0, 1}) /\ Zeros(k + n) \in Seq({0, 1})
      /\ Len(Zeros(k)) = k /\ Len(Zeros(n)) = n /\ Len(Zeros(k + n)) = k + n
      /\ \A i \in 1 .. k : Zeros(k)[i] = 0
      /\ \A i \in 1 .. n : Zeros(n)[i] = 0
      /\ \A i \in 1 .. k + n : Zeros(k + n)[i] = 0
  BY AllSame
<1>2. Zeros(k) \o Zeros(n) \in Seq({0, 1}) /\ GoesOn(Zeros(k) \o Zeros(n), Zeros(k), n, 0)
  BY <1>1, GoingOn
<1>3. /\ Len(Zeros(k) \o Zeros(n)) = k + n
      /\ \A i \in 1 .. k + n : (Zeros(k) \o Zeros(n))[i] = 0
  <2>1. \A i \in 1 .. k + n : i \in 1 .. k \/ i \in k + 1 .. k + n
    OBVIOUS
  <2> QED BY <1>1, <1>2, <2>1 DEF GoesOn
<1> QED BY <1>1, <1>2, <1>3, SeqEqual

\* An inference keeps what was rewarded, and ends the texts of a move.
SpokenFits(m, s, r, worth) ==
  /\ InBits(s) /\ InBits(m \o s) /\ r \o Zeros(Len(s)) \in Seq(Int)
  /\ RewardsAre(m \o s, r \o Zeros(Len(s)), worth)
  /\ Cardinality(Ends(m \o s)) = PerMove * (Len(worth) + 1)
  /\ m \o s # <<>> /\ (m \o s)[Len(m \o s)] = 1

LEMMA SpokenKeeps ==
  ASSUME NEW m, InBits(m), NEW r \in Seq(Int), NEW worth \in Seq(Int), RewardsAre(m, r, worth),
         m = <<>> \/ m[Len(m)] = 0, Cardinality(Ends(m)) = PerMove * Len(worth),
         NEW n \in Nat \ {0}, NEW k \in Nat \ {0}
  PROVE  SpokenFits(m, MaskOfSpoken(n, k), r, worth)
<1>1. PICK w \in Nat : w = Len(worth)
  BY LenProperties
<1>2. CASE ~Value
  <2>1. PerMove = 1 /\ MaskOfSpoken(n, k) = Ones(k)
    BY <1>2 DEF PerMove, MaskOfSpoken
  <2>2. Len(Ones(k)) = k /\ InBits(Ones(k))
    BY AllSame DEF InBits
  <2>3. PICK c : c = w + 1
    OBVIOUS
  <2>4. c = Cardinality(Ends(m)) + 1 /\ ~(c % PerMove = 0 /\ c \div PerMove <= Len(worth))
        /\ c = PerMove * (Len(worth) + 1)
    BY <1>1, <2>1, <2>3
  <2>5. /\ InBits(m \o Ones(k)) /\ r \o Zeros(k) \in Seq(Int)
        /\ RewardsAre(m \o Ones(k), r \o Zeros(k), worth)
        /\ Cardinality(Ends(m \o Ones(k))) = c
        /\ m \o Ones(k) # <<>> /\ (m \o Ones(k))[Len(m \o Ones(k))] = 1
    BY <2>4, WithOnes
  <2> QED BY ONLY <2>1, <2>2, <2>4, <2>5 DEF SpokenFits
<1>3. CASE Value
  <2> DEFINE m1 == m \o Zeros(1)  m2 == m1 \o Ones(n)  m3 == m2 \o Zeros(1)  m4 == m3 \o Ones(k)
             r1 == r \o Zeros(1)  r2 == r1 \o Zeros(n)  r3 == r2 \o Zeros(1)  r4 == r3 \o Zeros(k)
  <2>1. PerMove = 2 /\ MaskOfSpoken(n, k) = ((Zeros(1) \o Ones(n)) \o Zeros(1)) \o Ones(k)
    BY <1>3 DEF PerMove, MaskOfSpoken
  <2>2. m \o MaskOfSpoken(n, k) = m4
    <3>1. /\ m \in Seq({0, 1}) /\ Zeros(1) \in Seq({0, 1})
          /\ Ones(n) \in Seq({0, 1}) /\ Ones(k) \in Seq({0, 1})
      BY AllSame DEF InBits
    <3>2. FourRegroup(m, Zeros(1), Ones(n), Zeros(1), Ones(k))
      BY <3>1, FourRegrouping, Zenon
    <3> QED BY ONLY <2>1, <3>2 DEF FourRegroup
  <2>3. InBits(MaskOfSpoken(n, k)) /\ Len(MaskOfSpoken(n, k)) = 1 + n + 1 + k
    <3>1. /\ Zeros(1) \in Seq({0, 1}) /\ Ones(n) \in Seq({0, 1}) /\ Ones(k) \in Seq({0, 1})
          /\ Len(Zeros(1)) = 1 /\ Len(Ones(n)) = n /\ Len(Ones(k)) = k
      BY AllSame
    <3>2. PICK x \in Seq({0, 1}) : x = Zeros(1) \o Ones(n) /\ Len(x) = 1 + n
      <4>1. Zeros(1) \o Ones(n) \in Seq({0, 1}) /\ Len(Zeros(1) \o Ones(n)) = Len(Zeros(1)) + Len(Ones(n))
        BY <3>1, ConcatProperties, Zenon
      <4> QED BY ONLY <3>1, <4>1
    <3>3. PICK y \in Seq({0, 1}) : y = x \o Zeros(1) /\ Len(y) = 1 + n + 1
      <4>1. x \o Zeros(1) \in Seq({0, 1}) /\ Len(x \o Zeros(1)) = Len(x) + Len(Zeros(1))
        BY <3>1, ConcatProperties, Zenon
      <4> QED BY ONLY <3>1, <3>2, <4>1
    <3>4. y \o Ones(k) \in Seq({0, 1}) /\ Len(y \o Ones(k)) = Len(y) + Len(Ones(k))
      BY <3>1, ConcatProperties, Zenon
    <3>5. Len(y) + Len(Ones(k)) = 1 + n + 1 + k
      BY ONLY <3>1, <3>3
    <3>6. MaskOfSpoken(n, k) = y \o Ones(k)
      BY ONLY <2>1, <3>2, <3>3
    <3> QED BY ONLY <3>4, <3>5, <3>6 DEF InBits
  <2>4. r \o Zeros(Len(MaskOfSpoken(n, k))) = r4
    <3>1. Zeros(1 + n + 1 + k) = ((Zeros(1) \o Zeros(n)) \o Zeros(1)) \o Zeros(k)
      <4>1. Zeros(1) \o Zeros(n) = Zeros(1 + n)
        BY ZerosJoined
      <4>2. PICK j \in Nat : j = 1 + n
        OBVIOUS
      <4>3. Zeros(j) \o Zeros(1) = Zeros(j + 1)
        BY ZerosJoined
      <4>4. PICK i \in Nat : i = 1 + n + 1
        OBVIOUS
      <4>5. Zeros(i) \o Zeros(k) = Zeros(i + k)
        BY ZerosJoined
      <4> QED BY <4>1, <4>2, <4>3, <4>4, <4>5
    <3>2. Zeros(1) \in Seq(Int) /\ Zeros(n) \in Seq(Int) /\ Zeros(k) \in Seq(Int)
      BY AllSame
    <3>3. FourRegroup(r, Zeros(1), Zeros(n), Zeros(1), Zeros(k))
      BY <3>2, FourRegrouping, Zenon
    <3> QED BY ONLY <2>3, <3>1, <3>3 DEF FourRegroup
  <2>5. /\ InBits(m1) /\ r1 \in Seq(Int) /\ RewardsAre(m1, r1, worth)
        /\ Cardinality(Ends(m1)) = 2 * w /\ m1[Len(m1)] = 0
    BY <1>1, <2>1, WithZeros
  <2>6. PICK c : c = 2 * w + 1
    OBVIOUS
  <2>7. c = Cardinality(Ends(m1)) + 1 /\ ~(c % PerMove = 0 /\ c \div PerMove <= Len(worth))
    BY <1>1, <2>1, <2>5, <2>6
  <2>8. /\ InBits(m2) /\ r2 \in Seq(Int) /\ RewardsAre(m2, r2, worth)
        /\ Cardinality(Ends(m2)) = c
    <3> HIDE DEF m1, r1
    <3> QED BY <2>5, <2>7, WithOnes
  <2>9. /\ InBits(m3) /\ r3 \in Seq(Int) /\ RewardsAre(m3, r3, worth)
        /\ Cardinality(Ends(m3)) = c /\ m3[Len(m3)] = 0
    <3> HIDE DEF m2, r2
    <3> QED BY <2>8, WithZeros
  <2>10. PICK d : d = 2 * w + 2
    OBVIOUS
  <2>11. d = Cardinality(Ends(m3)) + 1 /\ ~(d % PerMove = 0 /\ d \div PerMove <= Len(worth))
    BY <1>1, <2>1, <2>6, <2>9, <2>10
  <2>12. /\ InBits(m4) /\ r4 \in Seq(Int) /\ RewardsAre(m4, r4, worth)
         /\ Cardinality(Ends(m4)) = d /\ m4 # <<>> /\ m4[Len(m4)] = 1
    <3> HIDE DEF m3, r3
    <3> QED BY <2>9, <2>11, WithOnes
  <2>13. d = PerMove * (Len(worth) + 1)
    BY <1>1, <2>1, <2>10
  <2> HIDE DEF m4, r4
  <2>14. PICK s : s = MaskOfSpoken(n, k)
    OBVIOUS
  <2>15. /\ InBits(m \o s) /\ r \o Zeros(Len(s)) \in Seq(Int) /\ InBits(s)
         /\ RewardsAre(m \o s, r \o Zeros(Len(s)), worth)
         /\ Cardinality(Ends(m \o s)) = PerMove * (Len(worth) + 1)
         /\ m \o s # <<>> /\ (m \o s)[Len(m \o s)] = 1
    BY ONLY <2>2, <2>3, <2>4, <2>12, <2>13, <2>14
  <2> QED BY ONLY <2>14, <2>15 DEF SpokenFits
<1> QED BY <1>2, <1>3

-----------------------------------------------------------------------------
(* Who wrote each token.                                                   *)

\* Of a text and its mask.
Tells(text, m) ==
  /\ text \in Seq(InferToken) /\ m \in Seq({0, 1}) /\ Len(text) = Len(m)
  /\ \A i \in 1 .. Len(m) : (text[i].what \in Written) <=> (m[i] = 1)

LEMMA WordsTell ==
  ASSUME NEW what \in InferWhats, NEW n \in Nat, moves \in Nat
  PROVE  /\ Tells(Words(what, n), IF what \in Written THEN Ones(n) ELSE Zeros(n))
         /\ Words(what, n) \in Seq(InferToken) /\ Len(Words(what, n)) = n
<1>1. PICK w : w = Words(what, n)
  OBVIOUS
<1>2. ASSUME NEW k \in 1 .. n
      PROVE  /\ [what |-> what, move |-> moves, at |-> k] \in InferToken
             /\ [what |-> what, move |-> moves, at |-> k].what = what
  BY DEF InferToken
<1>3. w = [k \in 1 .. n |-> [what |-> what, move |-> moves, at |-> k]]
  BY <1>1 DEF Words
<1>4. w \in Seq(InferToken) /\ Len(w) = n
  BY <1>2, <1>3
<1>5. \A k \in 1 .. n : w[k].what = what
  BY <1>2, <1>3
<1>6. /\ Zeros(n) \in Seq({0, 1}) /\ Ones(n) \in Seq({0, 1})
      /\ Len(Zeros(n)) = n /\ Len(Ones(n)) = n
      /\ \A k \in 1 .. n : Zeros(n)[k] = 0 /\ Ones(n)[k] = 1
  BY AllSame
<1>7. CASE what \in Written
  BY <1>1, <1>4, <1>5, <1>6, <1>7 DEF Tells
<1>8. CASE what \notin Written
  BY <1>1, <1>4, <1>5, <1>6, <1>8 DEF Tells
<1> QED BY <1>1, <1>4, <1>7, <1>8

LEMMA TellsJoined ==
  ASSUME NEW t, NEW m, Tells(t, m), NEW u, NEW n, Tells(u, n)
  PROVE  Tells(t \o u, m \o n)
<1>1. PICK j \in Nat : j = Len(m)
  BY LenProperties DEF Tells
<1>2. PICK k \in Nat : k = Len(n)
  BY LenProperties DEF Tells
<1>3. /\ t \in Seq(InferToken) /\ u \in Seq(InferToken) /\ Len(t) = j /\ Len(u) = k
      /\ m \in Seq({0, 1}) /\ n \in Seq({0, 1})
      /\ \A i \in 1 .. j : (t[i].what \in Written) <=> (m[i] = 1)
      /\ \A i \in 1 .. k : (u[i].what \in Written) <=> (n[i] = 1)
  BY <1>1, <1>2 DEF Tells
<1>4. /\ t \o u \in Seq(InferToken) /\ Len(t \o u) = j + k
      /\ \A i \in 1 .. j + k : (t \o u)[i] = IF i <= j THEN t[i] ELSE u[i - j]
  BY <1>3, ConcatProperties
<1>5. /\ m \o n \in Seq({0, 1}) /\ Len(m \o n) = j + k
      /\ \A i \in 1 .. j + k : (m \o n)[i] = IF i <= j THEN m[i] ELSE n[i - j]
  BY <1>1, <1>2, <1>3, ConcatProperties
<1>6. ASSUME NEW i \in 1 .. j + k
      PROVE  ((t \o u)[i].what \in Written) <=> ((m \o n)[i] = 1)
  <2>1. CASE i <= j
    <3>1. i \in 1 .. j /\ (t \o u)[i] = t[i] /\ (m \o n)[i] = m[i]
      BY <1>4, <1>5, <2>1
    <3>2. (t[i].what \in Written) <=> (m[i] = 1)
      BY <1>3, <3>1
    <3> QED BY ONLY <3>1, <3>2, Zenon
  <2>2. CASE i > j
    <3>1. PICK h \in 1 .. k : h = i - j
      BY <2>2
    <3>2. (t \o u)[i] = u[h] /\ (m \o n)[i] = n[h]
      BY <1>4, <1>5, <2>2, <3>1
    <3>3. (u[h].what \in Written) <=> (n[h] = 1)
      BY <1>3
    <3> QED BY ONLY <3>2, <3>3, Zenon
  <2>3. i <= j \/ i > j
    OBVIOUS
  <2> QED BY ONLY <2>1, <2>2, <2>3, Zenon
<1> QED BY <1>4, <1>5, <1>6 DEF Tells

LEMMA SpokenTells ==
  ASSUME NEW n \in Nat, NEW k \in Nat, moves \in Nat
  PROVE  Tells(Spoken(n, k), MaskOfSpoken(n, k))
<1>1. /\ {"value prompt", "understanding", "move prompt", "move"} \subseteq InferWhats
      /\ "value prompt" \notin Written /\ "move prompt" \notin Written
      /\ "understanding" \in Written /\ "move" \in Written
  BY DEF InferWhats, Written
<1>2. Tells(Words("move", k), Ones(k)) /\ Tells(Words("understanding", n), Ones(n))
  BY <1>1, WordsTell
<1>3. Tells(Words("value prompt", 1), Zeros(1)) /\ Tells(Words("move prompt", 1), Zeros(1))
  BY <1>1, WordsTell
<1>4. Tells(Words("value prompt", 1) \o Words("understanding", n), Zeros(1) \o Ones(n))
  BY ONLY <1>2, <1>3, TellsJoined
<1>5. Tells(Words("value prompt", 1) \o Words("understanding", n) \o Words("move prompt", 1),
            Zeros(1) \o Ones(n) \o Zeros(1))
  BY ONLY <1>3, <1>4, TellsJoined
<1>6. Tells(Words("value prompt", 1) \o Words("understanding", n) \o Words("move prompt", 1)
              \o Words("move", k), Zeros(1) \o Ones(n) \o Zeros(1) \o Ones(k))
  BY ONLY <1>2, <1>5, TellsJoined
<1> QED BY <1>2, <1>6 DEF Spoken, MaskOfSpoken

LEMMA SaysOn ==
  ASSUME NEW ids \in Seq(InferToken), NEW m \in Seq({0, 1}), SaysWhoWrote(m, ids),
         NEW t, NEW n, Tells(t, n)
  PROVE  SaysWhoWrote(m \o n, ids \o t)
<1>1. PICK j \in Nat : j = Len(m)
  BY LenProperties
<1>2. PICK k \in Nat : k = Len(n)
  BY LenProperties DEF Tells
<1>3. /\ t \in Seq(InferToken) /\ Len(t) = k /\ n \in Seq({0, 1}) /\ Len(ids) = j + 2
      /\ \A i \in 1 .. j : (ids[i + 2].what \in Written) <=> (m[i] = 1)
      /\ \A i \in 1 .. k : (t[i].what \in Written) <=> (n[i] = 1)
  BY <1>1, <1>2 DEF Tells, SaysWhoWrote
<1>4. /\ Len(ids \o t) = j + 2 + k
      /\ \A i \in 1 .. j + 2 + k : (ids \o t)[i] = IF i <= j + 2 THEN ids[i] ELSE t[i - (j + 2)]
  <2>1. t \in Seq(InferToken)
    BY <1>3
  <2>2. /\ Len(ids \o t) = Len(ids) + Len(t)
        /\ \A i \in 1 .. Len(ids) + Len(t) :
             (ids \o t)[i] = IF i <= Len(ids) THEN ids[i] ELSE t[i - Len(ids)]
    BY <2>1, ConcatProperties
  <2>3. Len(ids) = j + 2 /\ Len(t) = k
    BY <1>3
  <2> QED BY ONLY <2>2, <2>3
<1>5. /\ Len(m \o n) = j + k
      /\ \A i \in 1 .. j + k : (m \o n)[i] = IF i <= j THEN m[i] ELSE n[i - j]
  BY <1>1, <1>2, <1>3, ConcatProperties
<1>6. ASSUME NEW i \in 1 .. j + k
      PROVE  ((ids \o t)[i + 2].what \in Written) <=> ((m \o n)[i] = 1)
  <2>1. i + 2 \in 1 .. j + 2 + k
    OBVIOUS
  <2>2. CASE i <= j
    <3>1. i \in 1 .. j /\ (ids \o t)[i + 2] = ids[i + 2] /\ (m \o n)[i] = m[i]
      BY <1>4, <1>5, <2>1, <2>2
    <3>2. (ids[i + 2].what \in Written) <=> (m[i] = 1)
      BY <1>3, <3>1
    <3> QED BY ONLY <3>1, <3>2, Zenon
  <2>3. CASE i > j
    <3>1. PICK h \in 1 .. k : h = i - j /\ h = i + 2 - (j + 2)
      BY <2>3
    <3>2. (ids \o t)[i + 2] = t[h] /\ (m \o n)[i] = n[h]
      BY <1>4, <1>5, <2>1, <2>3, <3>1
    <3>3. (t[h].what \in Written) <=> (n[h] = 1)
      BY <1>3
    <3> QED BY ONLY <3>2, <3>3, Zenon
  <2>4. i <= j \/ i > j
    OBVIOUS
  <2> QED BY ONLY <2>2, <2>3, <2>4, Zenon
<1> QED BY <1>1, <1>2, <1>4, <1>5, <1>6 DEF SaysWhoWrote


-----------------------------------------------------------------------------
(* The messages of the turns.                                              *)

InferTexts == [what : {"query", "answer", "feedback"}, move : Nat]

LEMMA MessagesAre ==
  ASSUME NEW m \in Nat, NEW n \in Nat
  PROVE  /\ QueryOf(m) \in InferMessage /\ AnswerOf(m) \in InferMessage
         /\ FeedbackOf(m, n) \in InferMessage
         /\ QueryOf(m).role = "user" /\ AnswerOf(m).role = "assistant"
         /\ FeedbackOf(m, n).role = "user"
<1>1. PICK q : q = [what |-> "query", move |-> m]
  OBVIOUS
<1>2. PICK a : a = [what |-> "answer", move |-> m]
  OBVIOUS
<1>3. PICK f : f = [what |-> "feedback", move |-> m]
  OBVIOUS
<1>4. PICK z : z = [what |-> "query", move |-> m + 1]
  OBVIOUS
<1>5. q \in InferTexts /\ a \in InferTexts /\ f \in InferTexts /\ z \in InferTexts
  BY <1>1, <1>2, <1>3, <1>4 DEF InferTexts
<1>6. <<q>> \in Seq(InferTexts) /\ <<a>> \in Seq(InferTexts) /\ <<f>> \in Seq(InferTexts)
  BY <1>5
<1>7. [i \in 1 .. n |-> z] \in Seq(InferTexts)
  BY <1>5
<1>8. <<f>> \o [i \in 1 .. n |-> z] \in Seq(InferTexts)
  BY <1>6, <1>7, ConcatProperties
<1>9. /\ QueryOf(m) = [role |-> "user", texts |-> <<q>>]
      /\ AnswerOf(m) = [role |-> "assistant", texts |-> <<a>>]
      /\ FeedbackOf(m, n) = [role |-> "user", texts |-> <<f>> \o [i \in 1 .. n |-> z]]
  BY ONLY <1>1, <1>2, <1>3, <1>4 DEF QueryOf, AnswerOf, FeedbackOf
<1>10. InferMessage = [role : {"user", "assistant"}, texts : Seq(InferTexts)]
  BY DEF InferMessage, InferTexts
<1> QED BY ONLY <1>6, <1>8, <1>9, <1>10

\* The query of the next turn is added to a feedback.
LEMMA FeedbackMore ==
  ASSUME NEW m \in Nat, NEW n \in Nat
  PROVE  [FeedbackOf(m, n) EXCEPT !.texts = @ \o QueryOf(m + 1).texts] = FeedbackOf(m, n + 1)
<1>1. PICK f : f = [what |-> "feedback", move |-> m]
  OBVIOUS
<1>2. PICK z : z = [what |-> "query", move |-> m + 1]
  OBVIOUS
<1>3. PICK a : a = [i \in 1 .. n |-> z]
  OBVIOUS
<1>4. PICK b : b = [i \in 1 .. n + 1 |-> z]
  OBVIOUS
<1>5. f \in InferTexts /\ z \in InferTexts
  BY <1>1, <1>2 DEF InferTexts
<1>6. /\ a \in Seq(InferTexts) /\ Len(a) = n /\ b \in Seq(InferTexts) /\ Len(b) = n + 1
      /\ \A i \in 1 .. n : a[i] = z
      /\ \A i \in 1 .. n + 1 : b[i] = z
  BY <1>3, <1>4, <1>5
<1>7. b = Append(a, z)
  <2>1. PICK c : c = Append(a, z)
    OBVIOUS
  <2>2. /\ c \in Seq(InferTexts) /\ Len(c) = n + 1
        /\ \A i \in 1 .. n : c[i] = a[i]
        /\ c[n + 1] = z
    BY <1>5, <1>6, <2>1, AppendProperties
  <2>3. ASSUME NEW i \in 1 .. n + 1 PROVE b[i] = c[i]
    <3>1. i \in 1 .. n \/ i = n + 1
      OBVIOUS
    <3> QED BY <1>6, <2>2, <3>1
  <2>4. b \in Seq(InferTexts) /\ c \in Seq(InferTexts) /\ Len(b) = Len(c)
        /\ \A i \in 1 .. Len(b) : b[i] = c[i]
    BY <1>6, <2>2, <2>3
  <2>5. b = c
    BY ONLY <2>4, SeqEqual
  <2> QED BY <2>1, <2>5
<1>8. (<<f>> \o a) \o <<z>> = <<f>> \o b
  <2>1. <<f>> \in Seq(InferTexts) /\ <<z>> \in Seq(InferTexts)
    BY <1>5
  <2>2. Append(a, z) = a \o <<z>>
    BY <1>5, <1>6, AppendIsConcat
  <2>3. Regroups(<<f>>, a, <<z>>)
    BY <1>6, <2>1, Regrouping, Zenon
  <2> QED BY ONLY <1>7, <2>2, <2>3 DEF Regroups
<1>9. /\ FeedbackOf(m, n) = [role |-> "user", texts |-> <<f>> \o a]
      /\ FeedbackOf(m, n + 1) = [role |-> "user", texts |-> <<f>> \o b]
      /\ QueryOf(m + 1).texts = <<z>>
  BY ONLY <1>1, <1>2, <1>3, <1>4 DEF FeedbackOf, QueryOf
<1>10. PICK x : x = FeedbackOf(m, n)
  OBVIOUS
<1>11. PICK s : s = <<f>> \o a
  OBVIOUS
<1>12. PICK u : u = s \o <<z>>
  OBVIOUS
<1>13. x = [role |-> "user", texts |-> s] /\ x.texts = s
  BY ONLY <1>9, <1>10, <1>11
<1>14. [x EXCEPT !.texts = u] = [role |-> "user", texts |-> u]
  BY ONLY <1>13
<1>15. [FeedbackOf(m, n) EXCEPT !.texts = @ \o QueryOf(m + 1).texts] = [x EXCEPT !.texts = u]
  BY ONLY <1>9, <1>10, <1>12, <1>13
<1> QED BY ONLY <1>8, <1>9, <1>11, <1>12, <1>14, <1>15

\* A turn of two messages or of three, the last of which has n queries.
Turn(t, k, n) ==
  \/ t = <<QueryOf(k - 1), AnswerOf(k - 1)>>
  \/ t = <<QueryOf(k - 1), AnswerOf(k - 1), FeedbackOf(k - 1, n)>>

LEMMA TurnIs ==
  ASSUME NEW k \in Nat \ {0}, NEW n \in Nat, NEW t
  PROVE  /\ t = <<QueryOf(k - 1), AnswerOf(k - 1)>> =>
              t \in Seq(InferMessage) /\ Len(t) = 2 /\ t[1].role = "user" /\ Last(t).role # "user"
         /\ t = <<QueryOf(k - 1), AnswerOf(k - 1), FeedbackOf(k - 1, n)>> =>
              t \in Seq(InferMessage) /\ Len(t) = 3 /\ t[1].role = "user" /\ Last(t).role = "user"
<1>1. PICK m \in Nat : m = k - 1
  OBVIOUS
<1>2. PICK q : q = QueryOf(m)
  OBVIOUS
<1>3. PICK a : a = AnswerOf(m)
  OBVIOUS
<1>4. PICK f : f = FeedbackOf(m, n)
  OBVIOUS
<1>5. /\ q \in InferMessage /\ a \in InferMessage /\ f \in InferMessage
      /\ q.role = "user" /\ a.role = "assistant" /\ f.role = "user"
  BY <1>2, <1>3, <1>4, MessagesAre
<1>6. ASSUME t = <<q, a>>
      PROVE  t \in Seq(InferMessage) /\ Len(t) = 2 /\ t[1].role = "user" /\ Last(t).role # "user"
  BY <1>5, <1>6 DEF Last
<1>7. ASSUME t = <<q, a, f>>
      PROVE  t \in Seq(InferMessage) /\ Len(t) = 3 /\ t[1].role = "user" /\ Last(t).role = "user"
  BY <1>5, <1>7 DEF Last
<1> QED BY <1>1, <1>2, <1>3, <1>4, <1>6, <1>7

\* The query of the next turn is added to the last message of a turn.
Added(t, k) == [t EXCEPT ![Len(t)].texts = @ \o QueryOf(k).texts]

LEMMA TurnMerges ==
  ASSUME NEW k \in Nat \ {0}, NEW n \in Nat, NEW t,
         t = <<QueryOf(k - 1), AnswerOf(k - 1), FeedbackOf(k - 1, n)>>
  PROVE  Added(t, k) = <<QueryOf(k - 1), AnswerOf(k - 1), FeedbackOf(k - 1, n + 1)>>
<1>1. PICK m \in Nat : m = k - 1 /\ k = m + 1
  OBVIOUS
<1>2. PICK q : q = QueryOf(m)
  OBVIOUS
<1>3. PICK a : a = AnswerOf(m)
  OBVIOUS
<1>4. PICK f : f = FeedbackOf(m, n)
  OBVIOUS
<1>5. PICK g : g = FeedbackOf(m, n + 1)
  OBVIOUS
<1>6. PICK s : s = QueryOf(k).texts
  OBVIOUS
<1>7. [f EXCEPT !.texts = f.texts \o s] = g
  BY <1>1, <1>4, <1>5, <1>6, FeedbackMore
<1>8. t = <<q, a, f>>
  BY <1>1, <1>2, <1>3, <1>4
<1>9. [t EXCEPT ![3] = g] = <<q, a, g>>
  BY <1>8
<1>10. Len(t) = 3 /\ t[3] = f
  BY <1>8
<1>11. Added(t, k) = [t EXCEPT ![3] = [t[3] EXCEPT !.texts = t[3].texts \o s]]
  BY ONLY <1>6, <1>10 DEF Added
<1>12. Added(t, k) = [t EXCEPT ![3] = g]
  BY ONLY <1>7, <1>10, <1>11
<1> QED BY <1>1, <1>2, <1>3, <1>5, <1>9, <1>12


\* One prompt more shows turn k with the next one, when both are in the window.
LEMMA TogetherOnce ==
  ASSUME NEW k \in Nat \ {0}, NEW w \in Nat, game.window = w, moves \in Nat, k <= moves
  PROVE  /\ Together(k, moves) \in Nat /\ Together(k, moves + 1) \in Nat
         /\ w = 0 => Together(k, moves + 1) = Together(k, moves)
         /\ w > 0 => Together(k, moves + 1)
              = IF k >= (IF moves + 1 > w THEN moves + 1 - w + 1 ELSE 1)
                  THEN Together(k, moves) + 1 ELSE Together(k, moves)
BY DEF Together

\* The prompt made of messages changes each turn as it is to.
LEMMA MergeKeepsTurns ==
  ASSUME NEW w \in Nat \ {0}, game.window = w, moves \in Nat, NEW ts, TurnsAre(ts, moves),
         ts[moves + 1] = <<QueryOf(moves)>>, NEW new, new = Merge(ts, First(ts, w))
  PROVE  TurnsAre(new, moves + 1) /\ new[moves + 1] = ts[moves + 1]
<1>1. PICK l \in Nat : l = moves
  OBVIOUS
<1>2. /\ ts \in Seq(Seq(InferMessage)) /\ Len(ts) = l + 1
      /\ \A k \in 1 .. l : Turn(ts[k], k, Together(k, l))
      /\ ts[l + 1] = <<QueryOf(l)>>
  BY <1>1 DEF TurnsAre, Turn
<1>3. PICK from : from = IF l + 1 > w THEN l + 1 - w + 1 ELSE 1
  OBVIOUS
<1>4. First(ts, w) = from
  BY <1>2, <1>3 DEF First
<1>5. new = [k \in 1 .. l + 1 |->
               IF k >= from /\ UserTwice(ts, k)
                 THEN [ts[k] EXCEPT ![Len(ts[k])].texts = @ \o ts[k + 1][1].texts]
                 ELSE ts[k]]
  BY ONLY <1>2, <1>4, new = Merge(ts, First(ts, w)) DEF Merge
<1>6. \A k \in 1 .. l + 1 : UserTwice(ts, k) <=> k <= l /\ Last(ts[k]).role = "user"
  BY <1>2 DEF UserTwice
<1>7. new[l + 1] = ts[l + 1]
  <2>1. l + 1 \in 1 .. l + 1 /\ ~(l + 1 <= l)
    OBVIOUS
  <2> QED BY ONLY <1>5, <1>6, <2>1
<1>8. \A k \in 1 .. l : ts[k + 1][1] = QueryOf(k)
  <2> SUFFICES ASSUME NEW k \in 1 .. l PROVE ts[k + 1][1] = QueryOf(k)
    OBVIOUS
  <2>1. CASE k = l
    BY <1>2, <2>1
  <2>2. CASE k < l
    <3>1. k + 1 \in 1 .. l /\ (k + 1) - 1 = k
      BY <2>2
    <3>2. Turn(ts[k + 1], k + 1, Together(k + 1, l))
      BY <1>2, <3>1
    <3>3. PICK t : t = ts[k + 1]
      OBVIOUS
    <3>4. PICK q : q = QueryOf(k)
      OBVIOUS
    <3>5. \/ t = <<q, AnswerOf(k)>>
          \/ t = <<q, AnswerOf(k), FeedbackOf(k, Together(k + 1, l))>>
      BY ONLY <3>1, <3>2, <3>3, <3>4 DEF Turn
    <3>6. t[1] = q
      BY ONLY <3>5
    <3> QED BY ONLY <3>3, <3>4, <3>6
  <2> QED BY <2>1, <2>2
<1>9. ASSUME NEW k \in 1 .. l PROVE Turn(new[k], k, Together(k, l + 1)) /\ new[k] \in Seq(InferMessage)
  <2>1. PICK n : n = Together(k, l)
    OBVIOUS
  <2>2. PICK o : o = Together(k, l + 1)
    OBVIOUS
  <2>3. n \in Nat /\ o = (IF k >= from THEN n + 1 ELSE n)
    BY <1>1, <1>3, <2>1, <2>2, TogetherOnce
  <2>4. PICK t : t = ts[k]
    OBVIOUS
  <2>5. Turn(t, k, n)
    BY <1>2, <2>1, <2>4
  <2>6. k \in Nat \ {0} /\ k \in 1 .. l + 1 /\ k <= l /\ o \in Nat
    BY <2>3
  <2>7. new[k] = IF k >= from /\ Last(t).role = "user" THEN Added(t, k) ELSE t
    <3>1. new[k] = IF k >= from /\ UserTwice(ts, k)
                     THEN [ts[k] EXCEPT ![Len(ts[k])].texts = @ \o ts[k + 1][1].texts] ELSE ts[k]
      BY ONLY <1>5, <2>6
    <3>2. UserTwice(ts, k) <=> Last(t).role = "user"
      BY ONLY <1>6, <2>4, <2>6
    <3>3. [ts[k] EXCEPT ![Len(ts[k])].texts = @ \o ts[k + 1][1].texts] = Added(t, k)
      BY ONLY <1>8, <2>4, k \in 1 .. l DEF Added
    <3> QED BY ONLY <2>4, <3>1, <3>2, <3>3
  <2>8. CASE t = <<QueryOf(k - 1), AnswerOf(k - 1)>>
    <3>1. t \in Seq(InferMessage) /\ Last(t).role # "user"
      BY ONLY <2>3, <2>6, <2>8, TurnIs
    <3>2. new[k] = t
      BY ONLY <2>7, <3>1
    <3> QED BY ONLY <2>2, <2>8, <3>1, <3>2, <1>1 DEF Turn
  <2>9. CASE t = <<QueryOf(k - 1), AnswerOf(k - 1), FeedbackOf(k - 1, n)>>
    <3>1. t \in Seq(InferMessage) /\ Last(t).role = "user"
      BY ONLY <2>3, <2>6, <2>9, TurnIs
    <3>2. CASE k >= from
      <4>1. new[k] = <<QueryOf(k - 1), AnswerOf(k - 1), FeedbackOf(k - 1, n + 1)>> /\ o = n + 1
        BY ONLY <2>3, <2>6, <2>7, <2>9, <3>1, <3>2, TurnMerges
      <4>2. new[k] = <<QueryOf(k - 1), AnswerOf(k - 1), FeedbackOf(k - 1, o)>>
        BY ONLY <4>1
      <4>3. new[k] \in Seq(InferMessage)
        BY ONLY <2>6, <4>2, TurnIs
      <4> QED BY ONLY <1>1, <2>2, <4>2, <4>3 DEF Turn
    <3>3. CASE ~(k >= from)
      <4>1. new[k] = t /\ o = n
        BY ONLY <2>3, <2>7, <3>3
      <4> QED BY ONLY <1>1, <2>2, <2>9, <3>1, <4>1 DEF Turn
    <3> QED BY <3>2, <3>3
  <2> QED BY <2>5, <2>8, <2>9 DEF Turn
<1>10. new \in Seq(Seq(InferMessage)) /\ Len(new) = l + 1
  <2>1. ASSUME NEW k \in 1 .. l + 1 PROVE new[k] \in Seq(InferMessage)
    <3>1. k \in 1 .. l \/ k = l + 1
      OBVIOUS
    <3>2. ts[l + 1] \in Seq(InferMessage)
      <4>1. l + 1 \in 1 .. Len(ts) /\ ts \in Seq(Seq(InferMessage))
        BY <1>2
      <4> QED BY ONLY <4>1, ElementOfSeq
    <3> QED BY <1>7, <1>9, <3>1, <3>2
  <2>2. DOMAIN new = 1 .. l + 1 /\ new = [k \in 1 .. l + 1 |-> new[k]]
    BY ONLY <1>5
  <2>3. new \in [1 .. l + 1 -> Seq(InferMessage)]
    BY ONLY <2>1, <2>2
  <2>4. l + 1 \in Nat
    BY <1>1
  <2> QED BY ONLY <2>2, <2>3, <2>4
<1>11. TurnsAre(new, l + 1)
  BY ONLY <1>1, <1>9, <1>10 DEF TurnsAre, Turn
<1> QED BY <1>1, <1>7, <1>11


\* The present turn gets a message more.
TurnsWith(new, ts, p, s) ==
  /\ TurnsAre(new, p) /\ new[moves + 1] = Append(ts[moves + 1], s)
  /\ \A k \in 1 .. moves : new[k] = ts[k]

LEMMA MessageMore ==
  ASSUME moves \in Nat, NEW p, NEW ts, TurnsAre(ts, p), NEW s \in InferMessage, NEW new,
         new = [ts EXCEPT ![Len(ts)] = Append(@, s)]
  PROVE  TurnsWith(new, ts, p, s)
<1>1. PICK l \in Nat : l = moves
  OBVIOUS
<1>2. ts \in Seq(Seq(InferMessage)) /\ Len(ts) = l + 1 /\ l + 1 \in 1 .. Len(ts)
  BY <1>1 DEF TurnsAre
<1>3. PICK t : t = Append(ts[l + 1], s)
  OBVIOUS
<1>4. t \in Seq(InferMessage)
  BY ONLY <1>2, <1>3, s \in InferMessage, ElementOfSeq, AppendProperties
<1>5. new = [ts EXCEPT ![l + 1] = t]
  BY ONLY <1>2, <1>3, new = [ts EXCEPT ![Len(ts)] = Append(@, s)]
<1>6. /\ new \in Seq(Seq(InferMessage)) /\ Len(new) = l + 1
      /\ \A j \in 1 .. l + 1 : new[j] = IF j = l + 1 THEN t ELSE ts[j]
  BY ONLY <1>2, <1>4, <1>5, ExceptSeq
<1>7. \A k \in 1 .. l : new[k] = ts[k]
  BY ONLY <1>6, l \in Nat
<1>8. new[l + 1] = t
  BY ONLY <1>6, l \in Nat
<1>9. TurnsAre(new, p)
  BY ONLY <1>1, <1>6, <1>7, TurnsAre(ts, p) DEF TurnsAre
<1> QED BY ONLY <1>1, <1>3, <1>7, <1>8, <1>9 DEF TurnsWith

\* Every turn begins with a query.
LEMMA TurnBegins ==
  ASSUME NEW k \in Nat \ {0}, NEW n \in Nat, NEW t, Turn(t, k, n)
  PROVE  t # <<>> /\ t[1].role = "user"
<1>1. CASE t = <<QueryOf(k - 1), AnswerOf(k - 1)>>
  <2>1. t \in Seq(InferMessage) /\ Len(t) = 2 /\ t[1].role = "user"
    BY <1>1, TurnIs, Zenon
  <2>2. t # <<>>
    <3>1. Len(t) # 0
      BY ONLY <2>1
    <3> QED BY ONLY <3>1
  <2> QED BY ONLY <2>1, <2>2
<1>2. CASE t = <<QueryOf(k - 1), AnswerOf(k - 1), FeedbackOf(k - 1, n)>>
  <2>1. t \in Seq(InferMessage) /\ Len(t) = 3 /\ t[1].role = "user"
    BY <1>2, TurnIs, Zenon
  <2>2. t # <<>>
    <3>1. Len(t) # 0
      BY ONLY <2>1
    <3> QED BY ONLY <3>1
  <2> QED BY ONLY <2>1, <2>2
<1> QED BY ONLY <1>1, <1>2, Turn(t, k, n) DEF Turn

LEMMA TurnsBegin ==
  ASSUME moves \in Nat, game.window \in Nat, NEW p \in Nat, moves <= p, NEW ts, TurnsAre(ts, p),
         ts[moves + 1] # <<>>, ts[moves + 1][1].role = "user"
  PROVE  \A k \in 1 .. Len(ts) : ts[k] # <<>> /\ ts[k][1].role = "user"
<1> SUFFICES ASSUME NEW k \in 1 .. Len(ts) PROVE ts[k] # <<>> /\ ts[k][1].role = "user"
  OBVIOUS
<1>1. Len(ts) = moves + 1
  BY DEF TurnsAre
<1>2. CASE k = moves + 1
  BY <1>2
<1>3. CASE k \in 1 .. moves
  <2>1. PICK n : n = Together(k, p)
    OBVIOUS
  <2>2. n \in Nat /\ k \in Nat \ {0}
    BY <1>3, <2>1 DEF Together
  <2>3. Turn(ts[k], k, n)
    BY <1>3, <2>1 DEF TurnsAre, Turn
  <2> QED BY ONLY <2>2, <2>3, TurnBegins
<1> QED BY <1>1, <1>2, <1>3

-----------------------------------------------------------------------------
(* The steps.                                                              *)

LEMMA TheGame ==
  ASSUME InferTypeOK
  PROVE  /\ game \in InferConfigType /\ game.window \in Nat /\ game.steps \in Nat
         /\ moves \in Nat /\ moves <= game.steps + 1 /\ PerMove \in {1, 2}
BY InferAssumption DEF InferTypeOK, InferConfigType, PerMove

\* What a step leaves of the predicates when the game is the same.
LEMMA SameGame ==
  ASSUME game' = game
  PROVE  PerMove' = PerMove /\ (Aliased' <=> Aliased)
BY DEF PerMove, Aliased, Value

LEMMA RewardsNext ==
  ASSUME game' = game, RewardsAre(mask', rewards', earned'),
         ~Aliased => SaysWhoWrote(mask', tokens')
  PROVE  MovesRewarded'
<1>1. PerMove' = PerMove /\ (Aliased' <=> Aliased)
  BY SameGame
<1> QED BY <1>1 DEF MovesRewarded, RewardsAre, RewardAt, TextsTo, Ends, SaysWhoWrote

LEMMA InferStep == ASSUME InferIInv, Infer PROVE InferIInv'
<1>1. InferTypeOK /\ tokens \in Seq(InferToken) /\ EndsOK /\ TurnsOK /\ MovesRewarded
      /\ moves <= game.steps /\ stage = "infer"
  BY DEF InferIInv, Infer
<1>2. PICK n \in InferLengths, k \in InferLengths :
        /\ tokens' = Appended(Spoken(n, k))
        /\ mask' = mask \o MaskOfSpoken(n, k)
        /\ rewards' = rewards \o Zeros(Len(MaskOfSpoken(n, k)))
  BY DEF Infer
<1>3. n \in Nat \ {0} /\ k \in Nat \ {0}
  BY InferAssumption
<1>4. stage' = "act" /\ game' = game /\ moves' = moves /\ earned' = earned
  BY DEF Infer
<1>5. PICK s : s = MaskOfSpoken(n, k)
  OBVIOUS
<1>6. PICK t : t = Spoken(n, k)
  OBVIOUS
<1>7. /\ InBits(mask) /\ rewards \in Seq(Int) /\ earned \in Seq(Int)
      /\ RewardsAre(mask, rewards, earned) /\ (mask = <<>> \/ mask[Len(mask)] = 0)
      /\ Cardinality(Ends(mask)) = PerMove * Len(earned)
  BY <1>1 DEF InferTypeOK, InBits, MovesRewarded, EndsOK
<1>8. /\ InBits(s) /\ InBits(mask \o s) /\ rewards \o Zeros(Len(s)) \in Seq(Int)
      /\ RewardsAre(mask \o s, rewards \o Zeros(Len(s)), earned)
      /\ Cardinality(Ends(mask \o s)) = PerMove * (Len(earned) + 1)
      /\ mask \o s # <<>> /\ (mask \o s)[Len(mask \o s)] = 1
  <2>1. SpokenFits(mask, MaskOfSpoken(n, k), rewards, earned)
    BY ONLY <1>3, <1>7, SpokenKeeps, Zenon
  <2> QED BY ONLY <1>5, <2>1 DEF SpokenFits
<1>9. Tells(t, s)
  <2>1. moves \in Nat
    BY <1>1, TheGame
  <2> QED BY ONLY <1>3, <1>5, <1>6, <2>1, SpokenTells
<1>10. /\ mask' \in Seq({0, 1}) /\ rewards' \in Seq(Int) /\ RewardsAre(mask', rewards', earned')
       /\ Cardinality(Ends(mask')) = PerMove * (Len(earned') + 1)
       /\ mask' # <<>> /\ mask'[Len(mask')] = 1
  BY ONLY <1>2, <1>4, <1>5, <1>8 DEF InBits
<1>11. EndsOK'
  <2>1. PerMove' = PerMove
    BY <1>4, SameGame
  <2> QED BY ONLY <1>4, <1>10, <2>1 DEF EndsOK, Ends
<1>12. tokens' \in Seq(InferToken) /\ Len(tokens') >= Len(mask') + 2
  <2>1. t \in Seq(InferToken) /\ s \in Seq({0, 1}) /\ Len(t) = Len(s)
    BY <1>9 DEF Tells
  <2>2. /\ Len(mask) \in Nat /\ Len(s) \in Nat /\ Len(tokens) \in Nat
        /\ Len(mask') = Len(mask) + Len(s) /\ Len(tokens) >= Len(mask) + 2
    <3>1. mask \in Seq({0, 1}) /\ Len(tokens) >= Len(mask) + 2
      BY <1>1 DEF InferTypeOK
    <3>2. Len(mask \o s) = Len(mask) + Len(s)
      BY ONLY <2>1, <3>1, ConcatProperties
    <3> QED BY <1>1, <1>2, <1>5, <2>1, <3>1, <3>2, LenProperties
  <2>3. CASE Aliased
    <3>1. t \o t \in Seq(InferToken) /\ Len(t \o t) = Len(t) + Len(t)
      BY <2>1, ConcatProperties
    <3>2. tokens \o (t \o t) \in Seq(InferToken) /\ Len(tokens \o (t \o t)) = Len(tokens) + Len(t \o t)
      BY <1>1, <3>1, ConcatProperties
    <3>3. tokens' = tokens \o (t \o t)
      BY <1>2, <1>6, <2>3 DEF Appended
    <3> QED BY ONLY <2>1, <2>2, <3>1, <3>2, <3>3
  <2>4. CASE ~Aliased
    <3>1. tokens \o t \in Seq(InferToken) /\ Len(tokens \o t) = Len(tokens) + Len(t)
      BY <1>1, <2>1, ConcatProperties
    <3>2. tokens' = tokens \o t
      BY <1>2, <1>6, <2>4 DEF Appended
    <3> QED BY ONLY <2>1, <2>2, <3>1, <3>2
  <2> QED BY <2>3, <2>4
<1>13. MovesRewarded'
  <2>1. ASSUME ~Aliased PROVE SaysWhoWrote(mask', tokens')
    <3>1. SaysWhoWrote(mask, tokens) /\ mask \in Seq({0, 1}) /\ tokens \in Seq(InferToken)
      BY <1>1, <2>1 DEF MovesRewarded, InferTypeOK
    <3>2. SaysWhoWrote(mask \o s, tokens \o t)
      BY ONLY <1>9, <3>1, SaysOn
    <3>3. tokens' = tokens \o t /\ mask' = mask \o s
      BY <1>2, <1>5, <1>6, <2>1 DEF Appended
    <3> QED BY ONLY <3>2, <3>3
  <2> QED BY <1>4, <1>10, <2>1, RewardsNext
<1>14. TurnsOK' /\ \A j \in 1 .. Len(turns') : turns'[j] # <<>> /\ turns'[j][1].role = "user"
  <2>1. moves \in Nat /\ game.window \in Nat
    BY <1>1, TheGame
  <2>2. TurnsAre(turns, moves) /\ turns[moves + 1] = <<QueryOf(moves)>>
    BY <1>1 DEF TurnsOK
  <2>3. PICK merged : merged = IF game.window = 0 THEN turns ELSE Merge(turns, First(turns, game.window))
    OBVIOUS
  <2>4. turns' = [merged EXCEPT ![Len(merged)] = Append(@, AnswerOf(moves))]
    BY <2>3 DEF Infer, Says, AnswerOf
  <2>5. TurnsAre(merged, moves + 1) /\ merged[moves + 1] = <<QueryOf(moves)>>
    <3>1. CASE game.window = 0
      <4>1. \A j \in 1 .. moves : Together(j, moves + 1) = Together(j, moves)
        BY ONLY <3>1 DEF Together
      <4> QED BY ONLY <2>2, <2>3, <3>1, <4>1 DEF TurnsAre
    <3>2. CASE game.window # 0
      <4>1. game.window \in Nat \ {0} /\ merged = Merge(turns, First(turns, game.window))
        BY <2>1, <2>3, <3>2
      <4> QED BY ONLY <2>1, <2>2, <4>1, MergeKeepsTurns
    <3> QED BY <3>1, <3>2
  <2>6. AnswerOf(moves) \in InferMessage /\ QueryOf(moves) \in InferMessage /\ QueryOf(moves).role = "user"
    BY <2>1, MessagesAre
  <2>7. TurnsAre(turns', moves + 1) /\ turns'[moves + 1] = Append(merged[moves + 1], AnswerOf(moves))
    <3>1. TurnsWith(turns', merged, moves + 1, AnswerOf(moves))
      BY ONLY <2>1, <2>4, <2>5, <2>6, MessageMore, Zenon
    <3> QED BY ONLY <3>1 DEF TurnsWith
  <2>8. turns'[moves + 1] = <<QueryOf(moves), AnswerOf(moves)>>
    <3>1. PICK q : q = QueryOf(moves)
      OBVIOUS
    <3>2. PICK a : a = AnswerOf(moves)
      OBVIOUS
    <3>3. Append(<<q>>, a) = <<q, a>>
      <4>1. q \in InferMessage /\ a \in InferMessage
        BY <2>6, <3>1, <3>2
      <4> QED BY ONLY <4>1, PairIs
    <3>4. turns'[moves + 1] = Append(<<q>>, a)
      BY ONLY <2>5, <2>7, <3>1, <3>2, Zenon
    <3> QED BY ONLY <3>1, <3>2, <3>3, <3>4, Zenon
  <2>9. turns'[moves + 1] # <<>> /\ turns'[moves + 1][1].role = "user"
    BY ONLY <2>6, <2>8
  <2>10. \A j \in 1 .. Len(turns') : turns'[j] # <<>> /\ turns'[j][1].role = "user"
    <3>1. moves + 1 \in Nat /\ moves <= moves + 1
      BY <2>1
    <3> QED BY ONLY <2>1, <2>7, <2>9, <3>1, TurnsBegin
  <2>11. TurnsOK'
    <3>1. \A j \in 1 .. moves : Together(j, moves + 1)' = Together(j, moves + 1)
      BY <1>4 DEF Together
    <3> QED BY ONLY <1>4, <2>7, <2>8, <3>1 DEF TurnsOK, TurnsAre, QueryOf, AnswerOf, FeedbackOf
  <2> QED BY <2>10, <2>11
<1>15. InferTypeOK'
  <2>1. game \in InferConfigs /\ moves \in 0 .. game.steps + 1 /\ earned \in Seq(Int)
    BY <1>1 DEF InferTypeOK
  <2> QED BY ONLY <1>4, <1>10, <1>12, <1>14, <2>1 DEF InferTypeOK
<1> QED BY <1>1, <1>4, <1>11, <1>12, <1>13, <1>14, <1>15 DEF InferIInv


\* What is told is not of the model.
LEMMA TellStep ==
  ASSUME InferTypeOK, tokens \in Seq(InferToken), NEW what \in InferWhats \ Written,
         Tell(Words(what, 1))
  PROVE  /\ mask' = mask \o Zeros(1) /\ tokens' \in Seq(InferToken)
         /\ Len(tokens') >= Len(mask') + 2
         /\ SaysWhoWrote(mask, tokens) => SaysWhoWrote(mask', tokens')
<1>1. moves \in Nat /\ mask \in Seq({0, 1}) /\ Len(tokens) >= Len(mask) + 2
  BY TheGame DEF InferTypeOK
<1>2. PICK t : t = Words(what, 1)
  OBVIOUS
<1>3. Tells(t, Zeros(1)) /\ t \in Seq(InferToken) /\ Len(t) = 1
  <2>1. what \in InferWhats /\ what \notin Written /\ 1 \in Nat
    OBVIOUS
  <2> QED BY ONLY <1>1, <1>2, <2>1, WordsTell
<1>4. mask' = mask \o Zeros(1) /\ tokens' = tokens \o t
  BY <1>2, <1>3 DEF Tell
<1>5. Zeros(1) \in Seq({0, 1}) /\ Len(Zeros(1)) = 1
  BY AllSame
<1>6. /\ mask \o Zeros(1) \in Seq({0, 1}) /\ Len(mask \o Zeros(1)) = Len(mask) + 1
      /\ tokens \o t \in Seq(InferToken) /\ Len(tokens \o t) = Len(tokens) + 1
  <2>1. mask \o Zeros(1) \in Seq({0, 1}) /\ Len(mask \o Zeros(1)) = Len(mask) + Len(Zeros(1))
    BY <1>1, <1>5, ConcatProperties, Zenon
  <2>2. tokens \o t \in Seq(InferToken) /\ Len(tokens \o t) = Len(tokens) + Len(t)
    BY <1>3, ConcatProperties, Zenon
  <2> QED BY ONLY <1>3, <1>5, <2>1, <2>2
<1>7. Len(mask) \in Nat /\ Len(tokens) \in Nat
  BY <1>1, LenProperties
<1>8. Len(tokens') >= Len(mask') + 2
  BY ONLY <1>1, <1>4, <1>6, <1>7
<1>9. SaysWhoWrote(mask, tokens) => SaysWhoWrote(mask \o Zeros(1), tokens \o t)
  BY <1>1, <1>3, SaysOn
<1> QED BY ONLY <1>4, <1>6, <1>8, <1>9

LEMMA NoMoveStep == ASSUME InferIInv, NoMove PROVE InferIInv'
<1>1. InferTypeOK /\ tokens \in Seq(InferToken) /\ EndsOK /\ MovesRewarded
  BY DEF InferIInv
<1>2. /\ stage' = "return" /\ game' = game /\ moves' = moves /\ turns' = turns /\ earned' = earned
      /\ Tell(Words("no move", 1)) /\ rewards' = Append(rewards, 0)
  BY DEF NoMove
<1>3. "no move" \in InferWhats \ Written
  BY DEF InferWhats, Written
<1>4. /\ mask' = mask \o Zeros(1) /\ tokens' \in Seq(InferToken)
      /\ Len(tokens') >= Len(mask') + 2
      /\ SaysWhoWrote(mask, tokens) => SaysWhoWrote(mask', tokens')
  BY <1>1, <1>2, <1>3, TellStep
<1>5. rewards' = rewards \o Zeros(1) /\ rewards \in Seq(Int)
  <2>1. Zeros(1) = <<0>>
    <3>1. PICK z : z = Zeros(1)
      OBVIOUS
    <3>2. z \in Seq(Int) /\ Len(z) = 1 /\ z[1] = 0
      BY ONLY <3>1 DEF Zeros
    <3>3. PICK o : o = <<0>>
      OBVIOUS
    <3>4. o \in Seq(Int) /\ Len(o) = 1 /\ o[1] = 0
      BY <3>3
    <3>5. \A i \in 1 .. Len(z) : z[i] = o[i]
      BY <3>2, <3>4
    <3>6. z = o
      BY ONLY <3>2, <3>4, <3>5, SeqEqual
    <3> QED BY <3>1, <3>3, <3>6
  <2>2. rewards \in Seq(Int)
    BY <1>1 DEF InferTypeOK
  <2>3. Append(rewards, 0) = rewards \o <<0>>
    BY <2>2, AppendIsConcat
  <2> QED BY ONLY <1>2, <2>1, <2>2, <2>3
<1>6. /\ mask' \in Seq({0, 1}) /\ rewards' \in Seq(Int)
      /\ RewardsAre(mask', rewards', earned')
  <2>1. InBits(mask) /\ RewardsAre(mask, rewards, earned)
    BY <1>1 DEF InBits, InferTypeOK, MovesRewarded
  <2>2. /\ InBits(mask \o Zeros(1)) /\ rewards \o Zeros(1) \in Seq(Int)
        /\ RewardsAre(mask \o Zeros(1), rewards \o Zeros(1), earned)
    BY <1>5, <2>1, WithZeros
  <2> QED BY ONLY <1>2, <1>4, <1>5, <2>2 DEF InBits
<1>7. MovesRewarded'
  <2>1. ~Aliased => SaysWhoWrote(mask', tokens')
    BY <1>1, <1>4 DEF MovesRewarded
  <2> QED BY <1>2, <1>6, <2>1, RewardsNext
<1>8. InferTypeOK'
  BY <1>1, <1>2, <1>4, <1>6 DEF InferTypeOK
<1> QED BY <1>2, <1>4, <1>7, <1>8 DEF InferIInv, EndsOK, TurnsOK

LEMMA HandOverStep == ASSUME InferIInv, HandOver PROVE InferIInv'
<1>1. /\ stage' = "done" /\ stage = "return"
      /\ UNCHANGED <<game, moves, tokens, mask, rewards, turns, shown, earned>>
  BY DEF HandOver
<1>2. InferTypeOK' /\ tokens' \in Seq(InferToken)
  BY <1>1 DEF InferIInv, InferTypeOK
<1>3. MovesRewarded'
  <2>1. RewardsAre(mask, rewards, earned) /\ (~Aliased => SaysWhoWrote(mask, tokens))
    BY DEF InferIInv, MovesRewarded
  <2> QED BY <1>1, <2>1, RewardsNext
<1> QED BY <1>1, <1>2, <1>3 DEF InferIInv, EndsOK, TurnsOK

\* The turn that a move ends.
LEMMA PlayedTurns ==
  ASSUME moves \in Nat, game.window \in Nat, TurnsAre(turns, moves + 1),
         turns[moves + 1] = <<QueryOf(moves), AnswerOf(moves)>>, NEW told,
         told = turns \/ told = [turns EXCEPT ![Len(turns)] = Append(@, FeedbackOf(moves, 0))]
  PROVE  /\ told \in Seq(Seq(InferMessage)) /\ Len(told) = moves + 1
         /\ \A k \in 1 .. moves + 1 : Turn(told[k], k, Together(k, moves + 1))
<1>1. PICK l \in Nat : l = moves
  OBVIOUS
<1>2. PICK q : q = QueryOf(l)
  OBVIOUS
<1>3. PICK a : a = AnswerOf(l)
  OBVIOUS
<1>4. PICK f : f = FeedbackOf(l, 0)
  OBVIOUS
<1>5. q \in InferMessage /\ a \in InferMessage /\ f \in InferMessage
  BY <1>2, <1>3, <1>4, MessagesAre
<1>6. Together(l + 1, l + 1) = 0
  BY DEF Together
<1>7. /\ turns \in Seq(Seq(InferMessage)) /\ Len(turns) = l + 1
      /\ \A k \in 1 .. l : Turn(turns[k], k, Together(k, l + 1))
      /\ turns[l + 1] = <<q, a>>
  BY <1>1, <1>2, <1>3 DEF TurnsAre, Turn
<1>8. /\ told \in Seq(Seq(InferMessage)) /\ Len(told) = l + 1
      /\ \A k \in 1 .. l : told[k] = turns[k]
      /\ told[l + 1] = <<q, a>> \/ told[l + 1] = <<q, a, f>>
  <2>1. CASE told = turns
    BY ONLY <1>7, <2>1
  <2>2. CASE told = [turns EXCEPT ![Len(turns)] = Append(@, FeedbackOf(moves, 0))]
    <3>1. told = [turns EXCEPT ![Len(turns)] = Append(@, f)]
      BY ONLY <1>1, <1>4, <2>2
    <3>2. TurnsWith(told, turns, l + 1, f)
      BY <1>1, <1>5, <3>1, MessageMore, Zenon
    <3>3. Append(<<q, a>>, f) = <<q, a, f>>
      BY ONLY <1>5, TripleIs
    <3> QED BY ONLY <1>1, <1>7, <3>2, <3>3 DEF TurnsWith, TurnsAre
  <2> QED BY <2>1, <2>2
<1>9. ASSUME NEW k \in 1 .. l + 1 PROVE Turn(told[k], k, Together(k, l + 1))
  <2>1. CASE k \in 1 .. l
    BY ONLY <1>7, <1>8, <2>1
  <2>2. CASE k = l + 1
    <3>1. k - 1 = l
      BY <2>2
    <3> QED BY ONLY <1>2, <1>3, <1>4, <1>6, <1>8, <2>2, <3>1 DEF Turn
  <2> QED BY <2>1, <2>2
<1> QED BY ONLY <1>1, <1>8, <1>9

LEMMA PlayStep ==
  ASSUME InferIInv, NEW r \in MoveRewards, NEW valid \in BOOLEAN, NEW over \in BOOLEAN,
         Play(r, valid, over), ~over => moves + 1 <= game.steps
  PROVE  InferIInv'
<1>1. /\ InferTypeOK /\ tokens \in Seq(InferToken) /\ EndsOK /\ TurnsOK /\ MovesRewarded
      /\ moves <= game.steps /\ stage = "act"
  BY DEF InferIInv, Play
<1>2. PICK text : text = Words(IF over THEN "end" ELSE "state", 1)
  OBVIOUS
<1>3. PICK x : x = Worth(r, valid)
  OBVIOUS
<1>4. /\ game' = game /\ moves' = moves + 1 /\ stage' = (IF over THEN "return" ELSE "infer")
      /\ earned' = Append(earned, x) /\ rewards' = Reward(x, text) /\ Tell(text)
  BY <1>2, <1>3 DEF Play
<1>5. PICK told : told = (IF Value \/ ~valid \/ game.validate
                            THEN [turns EXCEPT ![Len(turns)] = Append(@, Says("user", "feedback"))]
                            ELSE turns)
  OBVIOUS
<1>6. turns' = IF over THEN told
                 ELSE Append(told, <<[role |-> "user", texts |-> <<[what |-> "query", move |-> moves + 1]>>]>>)
  BY <1>5 DEF Play
<1>7. /\ moves \in Nat /\ game.window \in Nat /\ game.steps \in Nat /\ PerMove \in {1, 2}
      /\ game \in InferConfigs
  BY <1>1, TheGame DEF InferTypeOK
<1>8. x \in Int
  BY <1>3, InferAssumption DEF Worth, Penalty
<1>9. /\ mask' = mask \o Zeros(1) /\ tokens' \in Seq(InferToken)
      /\ Len(tokens') >= Len(mask') + 2
      /\ SaysWhoWrote(mask, tokens) => SaysWhoWrote(mask', tokens')
  <2>1. PICK what \in InferWhats \ Written : what = IF over THEN "end" ELSE "state"
    BY DEF InferWhats, Written
  <2>2. Tell(Words(what, 1))
    BY <1>2, <1>4, <2>1
  <2> QED BY <1>1, <2>2, TellStep
<1>10. /\ InBits(mask) /\ mask # <<>> /\ mask[Len(mask)] = 1 /\ rewards \in Seq(Int)
       /\ earned \in Seq(Int) /\ RewardsAre(mask, rewards, earned)
       /\ Cardinality(Ends(mask)) = PerMove * (Len(earned) + 1)
  BY <1>1 DEF InBits, InferTypeOK, EndsOK, MovesRewarded
<1>11. RewardsAre(mask, [rewards EXCEPT ![Len(rewards)] = x], Append(earned, x))
  BY <1>8, <1>10, RewardedAtEnd
<1>12. PICK credited : credited = [rewards EXCEPT ![Len(rewards)] = x]
  OBVIOUS
<1>13. credited \in Seq(Int) /\ Append(earned, x) \in Seq(Int) /\ Len(Append(earned, x)) = Len(earned) + 1
  <2>1. Len(rewards) = Len(mask) /\ Len(mask) \in Nat /\ Len(mask) # 0
    BY <1>10, LenProperties, EmptySeq DEF RewardsAre, InBits
  <2>2. Len(rewards) \in 1 .. Len(rewards)
    BY <2>1
  <2> QED BY <1>8, <1>10, <1>12, <2>2, ExceptSeq, AppendProperties
<1>14. rewards' = credited \o Zeros(1)
  <2>1. Len(text) = 1
    BY <1>2 DEF Words
  <2> QED BY <1>4, <1>12, <2>1 DEF Reward
<1>15. /\ InBits(mask \o Zeros(1)) /\ credited \o Zeros(1) \in Seq(Int)
       /\ RewardsAre(mask \o Zeros(1), credited \o Zeros(1), Append(earned, x))
       /\ Ends(mask \o Zeros(1)) = Ends(mask)
       /\ mask \o Zeros(1) # <<>> /\ (mask \o Zeros(1))[Len(mask \o Zeros(1))] = 0
  <2>1. RewardsAre(mask, credited, Append(earned, x)) /\ 1 \in Nat
    BY <1>11, <1>12
  <2> QED BY <1>10, <1>13, <2>1, WithZeros
<1>16. /\ mask' \in Seq({0, 1}) /\ rewards' \in Seq(Int) /\ earned' \in Seq(Int)
       /\ RewardsAre(mask', rewards', earned') /\ mask' # <<>> /\ mask'[Len(mask')] = 0
       /\ Cardinality(Ends(mask')) = PerMove * Len(earned')
  BY ONLY <1>4, <1>9, <1>10, <1>13, <1>14, <1>15 DEF InBits
<1>17. EndsOK'
  <2>1. PerMove' = PerMove
    BY <1>4, SameGame
  <2> QED BY ONLY <1>4, <1>16, <2>1 DEF EndsOK, Ends
<1>18. MovesRewarded'
  <2>1. ~Aliased => SaysWhoWrote(mask', tokens')
    BY <1>1, <1>9 DEF MovesRewarded
  <2> QED BY <1>4, <1>16, <2>1, RewardsNext
<1>19. /\ told \in Seq(Seq(InferMessage)) /\ Len(told) = moves + 1
       /\ \A k \in 1 .. moves + 1 : Turn(told[k], k, Together(k, moves + 1))
  <2>1. TurnsAre(turns, moves + 1) /\ turns[moves + 1] = <<QueryOf(moves), AnswerOf(moves)>>
    BY <1>1 DEF TurnsOK
  <2>2. Says("user", "feedback") = FeedbackOf(moves, 0)
    BY DEF Says, FeedbackOf
  <2>3. told = turns \/ told = [turns EXCEPT ![Len(turns)] = Append(@, FeedbackOf(moves, 0))]
    BY ONLY <1>5, <2>2
  <2> QED BY ONLY <1>7, <2>1, <2>3, PlayedTurns
<1>20. \A k \in 1 .. moves + 1 : told[k] # <<>> /\ told[k][1].role = "user"
  <2> SUFFICES ASSUME NEW k \in 1 .. moves + 1 PROVE told[k] # <<>> /\ told[k][1].role = "user"
    OBVIOUS
  <2>1. PICK n : n = Together(k, moves + 1)
    OBVIOUS
  <2>2. n \in Nat /\ k \in Nat \ {0}
    BY <1>7, <2>1 DEF Together
  <2>3. Turn(told[k], k, n)
    BY <1>19, <2>1
  <2> QED BY ONLY <2>2, <2>3, TurnBegins
<1>21. /\ TurnsOK'
       /\ \A k \in 1 .. Len(turns') : turns'[k] # <<>> /\ turns'[k][1].role = "user"
  <2>1. CASE over
    <3>1. turns' = told /\ stage' = "return"
      BY <1>4, <1>6, <2>1
    <3> QED BY <1>19, <1>20, <3>1 DEF TurnsOK
  <2>2. CASE ~over
    <3>1. PICK q : q = QueryOf(moves + 1)
      OBVIOUS
    <3>2. q \in InferMessage /\ q.role = "user"
      <4>1. moves + 1 \in Nat
        BY <1>7
      <4> QED BY ONLY <3>1, <4>1, MessagesAre
    <3>3. <<q>> \in Seq(InferMessage) /\ Len(<<q>>) = 1 /\ <<q>>[1] = q /\ <<q>> # <<>>
      BY ONLY <3>2
    <3>4. turns' = Append(told, <<q>>) /\ stage' = "infer"
      BY <1>4, <1>6, <2>2, <3>1 DEF QueryOf
    <3>5. PICK l \in Nat : l = moves
      BY <1>7
    <3>6. /\ turns' \in Seq(Seq(InferMessage)) /\ Len(turns') = l + 2
          /\ \A k \in 1 .. l + 1 : turns'[k] = told[k]
          /\ turns'[l + 2] = <<q>>
      <4>1. PICK new : new = Append(told, <<q>>)
        OBVIOUS
      <4>2. /\ new \in Seq(Seq(InferMessage)) /\ Len(new) = Len(told) + 1
            /\ \A k \in 1 .. Len(told) : new[k] = told[k]
            /\ new[Len(told) + 1] = <<q>>
        BY ONLY <1>19, <3>3, <4>1, AppendProperties
      <4>3. Len(told) = l + 1
        BY ONLY <1>19, <3>5
      <4>4. Len(new) = l + 2 /\ new[l + 2] = <<q>>
        BY ONLY <4>2, <4>3, l \in Nat
      <4> QED BY ONLY <3>4, <4>1, <4>2, <4>3, <4>4
    <3>7. \A k \in 1 .. Len(turns') : turns'[k] # <<>> /\ turns'[k][1].role = "user"
      <4>1. ASSUME NEW k \in 1 .. l + 2 PROVE k \in 1 .. l + 1 \/ k = l + 2
        BY ONLY l \in Nat, k \in 1 .. l + 2
      <4> QED BY ONLY <1>20, <3>2, <3>3, <3>5, <3>6, <4>1
    <3>8. TurnsOK'
      <4>1. moves' = l + 1 /\ l + 1 + 1 = l + 2 /\ game' = game
        BY <1>4, <3>5
      <4>2. \A k \in 1 .. l + 1 : Turn(turns'[k], k, Together(k, l + 1))
        BY ONLY <1>19, <3>5, <3>6
      <4>3. \A k \in 1 .. l + 1 : Together(k, l + 1)' = Together(k, l + 1)
        BY ONLY <4>1 DEF Together
      <4>4. TurnsAre(turns, moves)'
        BY ONLY <3>6, <4>1, <4>2, <4>3 DEF TurnsAre, Turn, QueryOf, AnswerOf, FeedbackOf
      <4>5. turns'[moves' + 1] = <<QueryOf(moves')>>
        BY ONLY <3>1, <3>5, <3>6, <4>1
      <4> QED BY ONLY <3>4, <4>4, <4>5 DEF TurnsOK, QueryOf
    <3> QED BY <3>7, <3>8
  <2> QED BY <2>1, <2>2
<1>22. InferTypeOK'
  <2>1. moves' \in 0 .. game'.steps + 1 /\ stage' \in {"infer", "act", "return", "done"}
    BY <1>1, <1>4, <1>7
  <2> QED BY ONLY <1>4, <1>7, <1>9, <1>16, <1>21, <2>1 DEF InferTypeOK
<1>23. stage' \in {"infer", "act"} => moves' <= game'.steps
  BY <1>4, ~over => moves + 1 <= game.steps
<1> QED BY <1>9, <1>17, <1>18, <1>21, <1>22, <1>23 DEF InferIInv

LEMMA InferStart == InferInit => InferIInv
<1> SUFFICES ASSUME InferInit PROVE InferIInv
  OBVIOUS
<1>1. /\ game \in InferConfigs /\ stage = "infer" /\ moves = 0
      /\ tokens = Words("instruction", 1) \o Words("query", 1)
      /\ mask = <<>> /\ rewards = <<>> /\ earned = <<>>
      /\ turns = <<<<Says("user", "query")>>>>
  BY DEF InferInit
<1>2. game.steps \in Nat /\ game.window \in Nat /\ PerMove \in {1, 2}
  BY <1>1, InferAssumption DEF InferConfigType, PerMove
<1>3. tokens \in Seq(InferToken) /\ Len(tokens) = 2
  <2>1. PICK a : a = Words("instruction", 1)
    OBVIOUS
  <2>2. PICK b : b = Words("query", 1)
    OBVIOUS
  <2>3. a \in Seq(InferToken) /\ Len(a) = 1 /\ b \in Seq(InferToken) /\ Len(b) = 1
    <3>1. "instruction" \in InferWhats /\ "query" \in InferWhats /\ moves \in Nat /\ 1 \in Nat
      BY <1>1 DEF InferWhats
    <3> QED BY ONLY <2>1, <2>2, <3>1, WordsTell
  <2>4. a \o b \in Seq(InferToken) /\ Len(a \o b) = Len(a) + Len(b)
    BY ONLY <2>3, ConcatProperties
  <2> QED BY ONLY <1>1, <2>1, <2>2, <2>3, <2>4
<1>4. mask \in Seq({0, 1}) /\ rewards \in Seq(Int) /\ earned \in Seq(Int) /\ Len(mask) = 0
      /\ Len(rewards) = 0 /\ Len(earned) = 0
  BY <1>1
<1>5. Cardinality(Ends(mask)) = 0
  <2>1. Ends(mask) = {}
    BY <1>4 DEF Ends
  <2> QED BY <2>1, FS_EmptySet
<1>6. EndsOK
  BY <1>1, <1>2, <1>4, <1>5 DEF EndsOK
<1>7. MovesRewarded
  BY <1>3, <1>4 DEF MovesRewarded, RewardsAre, SaysWhoWrote
<1>8. PICK q : q = QueryOf(0)
  OBVIOUS
<1>9. q \in InferMessage /\ q.role = "user" /\ turns = <<<<q>>>>
  BY <1>1, <1>8, MessagesAre DEF Says, QueryOf
<1>10. /\ turns \in Seq(Seq(InferMessage)) /\ Len(turns) = 1 /\ turns[1] = <<q>>
       /\ turns[1] # <<>> /\ turns[1][1].role = "user"
  BY ONLY <1>9
<1>11. TurnsOK
  BY <1>1, <1>8, <1>10 DEF TurnsOK, TurnsAre
<1>12. InferTypeOK
  BY <1>1, <1>2, <1>3, <1>4, <1>10 DEF InferTypeOK
<1> QED BY <1>1, <1>2, <1>3, <1>6, <1>7, <1>11, <1>12 DEF InferIInv

LEMMA InferKeeps == InferIInv /\ [InferNext]_inferVars => InferIInv'
<1> SUFFICES ASSUME InferIInv, [InferNext]_inferVars PROVE InferIInv'
  OBVIOUS
<1>1. CASE Infer
  BY <1>1, InferStep
<1>2. CASE NoMove
  BY <1>2, NoMoveStep
<1>3. CASE GoOn
  BY <1>3, PlayStep DEF GoOn
<1>4. CASE EndGame
  BY <1>4, PlayStep DEF EndGame
<1>5. CASE HandOver
  BY <1>5, HandOverStep
<1>6. CASE UNCHANGED inferVars
  <2>1. /\ game' = game /\ stage' = stage /\ moves' = moves /\ tokens' = tokens /\ mask' = mask
        /\ rewards' = rewards /\ turns' = turns /\ earned' = earned
    BY <1>6 DEF inferVars
  <2>2. InferTypeOK' /\ tokens' \in Seq(InferToken)
    BY <2>1 DEF InferIInv, InferTypeOK
  <2>3. PerMove' = PerMove
    BY <2>1, SameGame
  <2>4. EndsOK'
    BY <2>1, <2>3 DEF InferIInv, EndsOK, Ends
  <2>5. MovesRewarded'
    <3>1. RewardsAre(mask, rewards, earned) /\ (~Aliased => SaysWhoWrote(mask, tokens))
      BY DEF InferIInv, MovesRewarded
    <3> QED BY <2>1, <3>1, RewardsNext
  <2>6. TurnsOK'
    BY <2>1 DEF InferIInv, TurnsOK, TurnsAre, Together, QueryOf, AnswerOf, FeedbackOf
  <2> QED BY <2>1, <2>2, <2>4, <2>5, <2>6 DEF InferIInv
<1> QED BY <1>1, <1>2, <1>3, <1>4, <1>5, <1>6 DEF InferNext

LEMMA InferInvariance == InferSpec => []InferIInv
BY InferStart, InferKeeps, PTL DEF InferSpec

(* An episode makes at most max_steps + 1 moves, its mask is of bits, its  *)
(* tokens begin with a prompt and every turn with a query, in both loops   *)
(* and for every configuration (run_mdp).                                  *)
THEOREM InferTypeCorrect == InferSpec => []InferTypeOK
<1>1. InferIInv => InferTypeOK
  BY DEF InferIInv
<1> QED BY <1>1, InferInvariance, PTL

(* The reward of each move is on the last token the model wrote for it and *)
(* nowhere else (reward_lst[-1] = reward), and the mask says who wrote     *)
(* each token unless the inference extends the episode's own list.         *)
THEOREM MovesAreRewarded == InferSpec => []MovesRewarded
<1>1. InferIInv => MovesRewarded
  BY DEF InferIInv
<1> QED BY <1>1, InferInvariance, PTL

\* What is handed over is cut and padded alike: with SaysWhoWrote its mask is
\* right.
LEMMA HandsOverMarked ==
  ASSUME InferIInv, HandOver, ~Aliased
  PROVE  MaskIsOfModel'
<1>1. /\ tokens \in Seq(InferToken) /\ mask \in Seq({0, 1}) /\ SaysWhoWrote(mask, tokens)
      /\ game \in InferConfigType
  BY InferAssumption DEF InferIInv, InferTypeOK, MovesRewarded
<1>2. PICK m : m = mask
  OBVIOUS
<1>3. PICK n \in Nat : n = Len(m)
  BY <1>1, <1>2, LenProperties
<1>4. PICK c : c = LastOf(tokens, n)
  OBVIOUS
<1>5. c \in Seq(InferToken) /\ Len(c) = n /\ \A i \in 1 .. n : c[i] = tokens[i + 2]
  <2>1. Len(tokens) = n + 2
    BY <1>1, <1>2, <1>3 DEF SaysWhoWrote
  <2>2. TailFits(c, tokens, n, 2, InferToken)
    BY <1>1, <1>4, <2>1, LastOfIs
  <2> QED BY ONLY <2>2 DEF TailFits
<1>6. PICK l \in Nat : l = game.length
  BY <1>1 DEF InferConfigType
<1>7. PICK r : r = FirstOf(c, l)
  OBVIOUS
<1>8. PICK k : k = FirstOf(m, l)
  OBVIOUS
<1>9. Len(r) = (IF l < n THEN l ELSE n) /\ \A i \in 1 .. Len(r) : r[i] = c[i]
  BY <1>5, <1>6, <1>7, FirstAre
<1>10. Len(k) = (IF l < n THEN l ELSE n) /\ \A i \in 1 .. Len(k) : k[i] = m[i]
  <2>1. m \in Seq({0, 1})
    BY <1>1, <1>2
  <2>2. Len(k) = (IF l < Len(m) THEN l ELSE Len(m)) /\ \A i \in 1 .. Len(k) : k[i] = m[i]
    BY ONLY <2>1, <1>6, <1>8, FirstAre
  <2> QED BY <1>3, <2>2
<1>11. PICK p : p = Padded(k, r)
  OBVIOUS
<1>12. \A i \in 1 .. Len(r) : p[i] = m[i] /\ r[i] = tokens[i + 2] /\ i \in 1 .. n
  <2>1. \A i \in 1 .. Len(r) : i \in 1 .. n /\ i \in 1 .. Len(k) /\ i <= Len(k)
    BY <1>3, <1>6, <1>9, <1>10
  <2>2. \A i \in 1 .. Len(r) : p[i] = k[i]
    BY <1>11, <2>1 DEF Padded
  <2> QED BY <1>5, <1>9, <1>10, <2>1, <2>2
<1>13. \A i \in 1 .. Len(r) : p[i] = 1 <=> r[i].what \in Written
  <2>1. \A i \in 1 .. n : (tokens[i + 2].what \in Written) <=> (m[i] = 1)
    BY <1>1, <1>2, <1>3 DEF SaysWhoWrote
  <2> QED BY <1>12, <2>1
<1>14. handed'.response = r /\ handed'.mask = p
  BY <1>2, <1>3, <1>4, <1>6, <1>7, <1>8, <1>11 DEF HandOver
<1> QED BY <1>13, <1>14 DEF MaskIsOfModel

(* What the trainer is told of a response, 1 for the tokens the model      *)
(* wrote and 0 for the others, is true of every response of the local loop *)
(* and of the value loop with a window: only the list that the inference   *)
(* extends itself (max_window_size None) makes it false.                   *)
THEOREM MaskTellsUnlessAliased == InferSpec => [](~Aliased => MaskIsOfModel)
<1>1. InferInit => (~Aliased => MaskIsOfModel)
  BY DEF InferInit, MaskIsOfModel
<1>2. InferIInv /\ (~Aliased => MaskIsOfModel) /\ [InferNext]_inferVars
        => (~Aliased => MaskIsOfModel)'
  <2> SUFFICES ASSUME InferIInv, ~Aliased => MaskIsOfModel, [InferNext]_inferVars, ~Aliased'
               PROVE  MaskIsOfModel'
    OBVIOUS
  <2>1. ~Aliased
    <3>1. game' = game
      BY DEF InferNext, Infer, NoMove, GoOn, EndGame, Play, HandOver, inferVars
    <3> QED BY <3>1, SameGame
  <2>2. CASE HandOver
    BY <2>1, <2>2, HandsOverMarked
  <2>3. CASE Infer \/ NoMove \/ GoOn \/ EndGame
    <3>1. stage' # "done"
      BY <2>3 DEF Infer, NoMove, GoOn, EndGame, Play
    <3> QED BY <3>1 DEF MaskIsOfModel
  <2>4. CASE UNCHANGED inferVars
    BY <2>1, <2>4 DEF MaskIsOfModel, inferVars
  <2> QED BY <2>2, <2>3, <2>4 DEF InferNext
<1> QED BY <1>1, <1>2, InferInvariance, PTL DEF InferSpec

-----------------------------------------------------------------------------
(* What a prompt shows.  A turn, without its query if that was added to    *)
(* the turn before, is a block of texts.                                   *)

QueryText(m) == [what |-> "query", move |-> m]
AnswerText(m) == [what |-> "answer", move |-> m]

LateTexts(m) == {x \in InferTexts : x.move >= m}

\* A block of turn m + 1: so many copies of its query, of its answer, and of
\* the query of the next turn.
BlockIs(b, m, q, a, n) ==
  /\ b \in Seq(LateTexts(m))
  /\ \A x \in Nat :
       /\ Occurrences(b, QueryText(x)) = IF x = m THEN q ELSE IF x = m + 1 THEN n ELSE 0
       /\ Occurrences(b, AnswerText(x)) = IF x = m THEN a ELSE 0

LEMMA QueryBlock == ASSUME NEW m \in Nat PROVE BlockIs(QueryOf(m).texts, m, 1, 0, 0)
<1>1. PICK b : b = <<QueryText(m)>>
  OBVIOUS
<1>2. QueryOf(m).texts = b
  BY <1>1 DEF QueryOf, QueryText
<1>3. QueryText(m) \in LateTexts(m)
  BY DEF QueryText, LateTexts, InferTexts
<1>4. b \in Seq(LateTexts(m)) /\ Len(b) = 1 /\ \A i \in 1 .. Len(b) : b[i] = QueryText(m)
  BY <1>1, <1>3
<1>5. ASSUME NEW x \in Nat
      PROVE  /\ Occurrences(b, QueryText(x)) = IF x = m THEN 1 ELSE IF x = m + 1 THEN 0 ELSE 0
             /\ Occurrences(b, AnswerText(x)) = IF x = m THEN 0 ELSE 0
  <2>1. QueryText(m) # AnswerText(x)
    BY DEF QueryText, AnswerText
  <2>2. Occurrences(b, AnswerText(x)) = 0
    <3>1. \A i \in 1 .. Len(b) : b[i] # AnswerText(x)
      BY ONLY <1>4, <2>1, Zenon
    <3> QED BY ONLY <1>4, <3>1, NoCopies
  <2>3. CASE x = m
    <3>1. Occurrences(b, QueryText(m)) = Len(b)
      BY ONLY <1>4, AllCopies
    <3> QED BY ONLY <1>4, <2>2, <2>3, <3>1
  <2>4. CASE x # m
    <3>1. QueryText(m) # QueryText(x)
      BY <2>4 DEF QueryText
    <3>2. \A i \in 1 .. Len(b) : b[i] # QueryText(x)
      BY ONLY <1>4, <3>1, Zenon
    <3>3. Occurrences(b, QueryText(x)) = 0
      BY ONLY <1>4, <3>2, NoCopies
    <3> QED BY ONLY <2>2, <2>4, <3>3
  <2> QED BY <2>3, <2>4
<1> QED BY <1>2, <1>4, <1>5 DEF BlockIs

LEMMA AnswerBlock == ASSUME NEW m \in Nat PROVE BlockIs(AnswerOf(m).texts, m, 0, 1, 0)
<1>1. PICK b : b = <<AnswerText(m)>>
  OBVIOUS
<1>2. AnswerOf(m).texts = b
  BY <1>1 DEF AnswerOf, AnswerText
<1>3. AnswerText(m) \in LateTexts(m)
  BY DEF AnswerText, LateTexts, InferTexts
<1>4. b \in Seq(LateTexts(m)) /\ Len(b) = 1 /\ \A i \in 1 .. Len(b) : b[i] = AnswerText(m)
  BY <1>1, <1>3
<1>5. ASSUME NEW x \in Nat
      PROVE  /\ Occurrences(b, QueryText(x)) = IF x = m THEN 0 ELSE IF x = m + 1 THEN 0 ELSE 0
             /\ Occurrences(b, AnswerText(x)) = IF x = m THEN 1 ELSE 0
  <2>1. AnswerText(m) # QueryText(x)
    BY DEF QueryText, AnswerText
  <2>2. Occurrences(b, QueryText(x)) = 0
    <3>1. \A i \in 1 .. Len(b) : b[i] # QueryText(x)
      BY ONLY <1>4, <2>1, Zenon
    <3> QED BY ONLY <1>4, <3>1, NoCopies
  <2>3. CASE x = m
    <3>1. Occurrences(b, AnswerText(m)) = Len(b)
      BY ONLY <1>4, AllCopies
    <3> QED BY ONLY <1>4, <2>2, <2>3, <3>1
  <2>4. CASE x # m
    <3>1. AnswerText(m) # AnswerText(x)
      BY <2>4 DEF AnswerText
    <3>2. \A i \in 1 .. Len(b) : b[i] # AnswerText(x)
      BY ONLY <1>4, <3>1, Zenon
    <3>3. Occurrences(b, AnswerText(x)) = 0
      BY ONLY <1>4, <3>2, NoCopies
    <3> QED BY ONLY <2>2, <2>4, <3>3
  <2> QED BY <2>3, <2>4
<1> QED BY <1>2, <1>4, <1>5 DEF BlockIs

LEMMA FeedbackBlock ==
  ASSUME NEW m \in Nat, NEW n \in Nat PROVE BlockIs(FeedbackOf(m, n).texts, m, 0, 0, n)
<1>1. PICK f : f = [what |-> "feedback", move |-> m]
  OBVIOUS
<1>2. PICK a : a = <<f>>
  OBVIOUS
<1>3. PICK b : b = [i \in 1 .. n |-> QueryText(m + 1)]
  OBVIOUS
<1>4. FeedbackOf(m, n).texts = a \o b
  BY <1>1, <1>2, <1>3 DEF FeedbackOf, QueryText
<1>5. f \in LateTexts(m) /\ QueryText(m + 1) \in LateTexts(m)
  BY <1>1 DEF QueryText, LateTexts, InferTexts
<1>6. a \in Seq(LateTexts(m)) /\ \A i \in 1 .. Len(a) : a[i] = f
  BY <1>2, <1>5
<1>7. b \in Seq(LateTexts(m)) /\ Len(b) = n /\ \A i \in 1 .. Len(b) : b[i] = QueryText(m + 1)
  BY <1>3, <1>5
<1>8. a \o b \in Seq(LateTexts(m))
  BY <1>6, <1>7, ConcatProperties
<1>9. ASSUME NEW x \in Nat
      PROVE  /\ Occurrences(a \o b, QueryText(x)) = IF x = m THEN 0 ELSE IF x = m + 1 THEN n ELSE 0
             /\ Occurrences(a \o b, AnswerText(x)) = IF x = m THEN 0 ELSE 0
  <2>1. /\ f # QueryText(x) /\ f # AnswerText(x) /\ QueryText(m + 1) # AnswerText(x)
        /\ x # m + 1 => QueryText(m + 1) # QueryText(x)
    BY <1>1 DEF QueryText, AnswerText
  <2>2. Occurrences(a, QueryText(x)) = 0 /\ Occurrences(a, AnswerText(x)) = 0
    <3>1. \A i \in 1 .. Len(a) : a[i] # QueryText(x)
      BY ONLY <1>6, <2>1, Zenon
    <3>2. \A i \in 1 .. Len(a) : a[i] # AnswerText(x)
      BY ONLY <1>6, <2>1, Zenon
    <3>3. Occurrences(a, QueryText(x)) = 0
      BY ONLY <1>6, <3>1, NoCopies
    <3>4. Occurrences(a, AnswerText(x)) = 0
      BY ONLY <1>6, <3>2, NoCopies
    <3> QED BY ONLY <3>3, <3>4
  <2>3. Occurrences(b, AnswerText(x)) = 0
    <3>1. \A i \in 1 .. Len(b) : b[i] # AnswerText(x)
      BY ONLY <1>7, <2>1, Zenon
    <3> QED BY ONLY <1>7, <3>1, NoCopies
  <2>4. Occurrences(b, QueryText(x)) = IF x = m + 1 THEN n ELSE 0
    <3>1. CASE x = m + 1
      <4>1. Occurrences(b, QueryText(m + 1)) = Len(b)
        BY ONLY <1>7, AllCopies
      <4> QED BY ONLY <1>7, <3>1, <4>1
    <3>2. CASE x # m + 1
      <4>1. \A i \in 1 .. Len(b) : b[i] # QueryText(x)
        BY ONLY <1>7, <2>1, <3>2, Zenon
      <4>2. Occurrences(b, QueryText(x)) = 0
        BY ONLY <1>7, <4>1, NoCopies
      <4> QED BY ONLY <3>2, <4>2
    <3> QED BY <3>1, <3>2
  <2>5. Occurrences(a \o b, QueryText(x)) = Occurrences(a, QueryText(x)) + Occurrences(b, QueryText(x))
    BY ONLY <1>6, <1>7, CopiesJoined
  <2>6. Occurrences(a \o b, AnswerText(x)) = Occurrences(a, AnswerText(x)) + Occurrences(b, AnswerText(x))
    BY ONLY <1>6, <1>7, CopiesJoined
  <2> QED BY ONLY <2>2, <2>3, <2>4, <2>5, <2>6, m \in Nat, n \in Nat, x \in Nat
<1> QED BY <1>4, <1>8, <1>9 DEF BlockIs

\* Blocks of the same turn, one after another.
LEMMA NoBlock == ASSUME NEW m \in Nat PROVE BlockIs(Joined(<<>>), m, 0, 0, 0)
<1>1. PICK b : b = Joined(<<>>)
  OBVIOUS
<1>2. b = <<>> /\ b \in Seq(LateTexts(m))
  BY <1>1, JoinedEmpty, EmptySeq
<1>3. \A e : Occurrences(b, e) = 0
  BY ONLY <1>2, NoCopiesInEmpty
<1> QED BY ONLY <1>1, <1>2, <1>3 DEF BlockIs

LEMMA OneBlock ==
  ASSUME NEW m \in Nat, NEW q \in Nat, NEW a \in Nat, NEW n \in Nat, NEW b, BlockIs(b, m, q, a, n)
  PROVE  BlockIs(Joined(<<b>>), m, q, a, n)
<1>1. b \in Seq(LateTexts(m)) /\ <<b>> \in Seq(Seq(LateTexts(m)))
  BY DEF BlockIs
<1>2. PICK j : j = Joined(<<b>>)
  OBVIOUS
<1>3. j \in Seq(LateTexts(m))
  BY ONLY <1>1, <1>2, JoinedType
<1>4. \A e : Occurrences(j, e) = Occurrences(b, e)
  <2> SUFFICES ASSUME NEW e PROVE Occurrences(j, e) = Occurrences(b, e)
    OBVIOUS
  <2>1. FewHave(b, b, b, e)
    BY ONLY <1>1, CopiesInFew, Zenon
  <2> QED BY ONLY <1>2, <2>1 DEF FewHave
<1> QED BY <1>2, <1>3, <1>4 DEF BlockIs

LEMMA TwoBlocks ==
  ASSUME NEW m \in Nat, NEW q \in Nat, NEW a \in Nat, NEW n \in Nat, NEW b, BlockIs(b, m, q, a, n),
         NEW r \in Nat, NEW c \in Nat, NEW o \in Nat, NEW d, BlockIs(d, m, r, c, o)
  PROVE  BlockIs(Joined(<<b, d>>), m, q + r, a + c, n + o)
<1>1. b \in Seq(LateTexts(m)) /\ d \in Seq(LateTexts(m)) /\ <<b, d>> \in Seq(Seq(LateTexts(m)))
  BY DEF BlockIs
<1>2. PICK j : j = Joined(<<b, d>>)
  OBVIOUS
<1>3. j \in Seq(LateTexts(m))
  BY ONLY <1>1, <1>2, JoinedType
<1>4. \A e : Occurrences(j, e) = Occurrences(b, e) + Occurrences(d, e)
  <2> SUFFICES ASSUME NEW e PROVE Occurrences(j, e) = Occurrences(b, e) + Occurrences(d, e)
    OBVIOUS
  <2>1. FewHave(b, d, b, e)
    BY ONLY <1>1, CopiesInFew, Zenon
  <2> QED BY ONLY <1>2, <2>1 DEF FewHave
<1>5. ASSUME NEW x \in Nat
      PROVE  /\ Occurrences(j, QueryText(x)) = IF x = m THEN q + r ELSE IF x = m + 1 THEN n + o ELSE 0
             /\ Occurrences(j, AnswerText(x)) = IF x = m THEN a + c ELSE 0
  BY <1>4 DEF BlockIs
<1> QED BY <1>2, <1>3, <1>5 DEF BlockIs

LEMMA ThreeBlocks ==
  ASSUME NEW m \in Nat, NEW q \in Nat, NEW a \in Nat, NEW n \in Nat, NEW b, BlockIs(b, m, q, a, n),
         NEW r \in Nat, NEW c \in Nat, NEW o \in Nat, NEW d, BlockIs(d, m, r, c, o),
         NEW s \in Nat, NEW g \in Nat, NEW p \in Nat, NEW h, BlockIs(h, m, s, g, p)
  PROVE  BlockIs(Joined(<<b, d, h>>), m, q + r + s, a + c + g, n + o + p)
<1>1. /\ b \in Seq(LateTexts(m)) /\ d \in Seq(LateTexts(m)) /\ h \in Seq(LateTexts(m))
      /\ <<b, d, h>> \in Seq(Seq(LateTexts(m)))
  BY DEF BlockIs
<1>2. PICK j : j = Joined(<<b, d, h>>)
  OBVIOUS
<1>3. j \in Seq(LateTexts(m))
  BY ONLY <1>1, <1>2, JoinedType
<1>4. \A e : Occurrences(j, e) = Occurrences(b, e) + Occurrences(d, e) + Occurrences(h, e)
  <2> SUFFICES ASSUME NEW e PROVE Occurrences(j, e) = Occurrences(b, e) + Occurrences(d, e) + Occurrences(h, e)
    OBVIOUS
  <2>1. FewHave(b, d, h, e)
    BY ONLY <1>1, CopiesInFew, Zenon
  <2> QED BY ONLY <1>2, <2>1 DEF FewHave
<1>5. ASSUME NEW x \in Nat
      PROVE  /\ Occurrences(j, QueryText(x))
                  = IF x = m THEN q + r + s ELSE IF x = m + 1 THEN n + o + p ELSE 0
             /\ Occurrences(j, AnswerText(x)) = IF x = m THEN a + c + g ELSE 0
  <2>1. /\ Occurrences(b, QueryText(x)) = IF x = m THEN q ELSE IF x = m + 1 THEN n ELSE 0
        /\ Occurrences(b, AnswerText(x)) = IF x = m THEN a ELSE 0
    BY ONLY BlockIs(b, m, q, a, n), x \in Nat DEF BlockIs
  <2>2. /\ Occurrences(d, QueryText(x)) = IF x = m THEN r ELSE IF x = m + 1 THEN o ELSE 0
        /\ Occurrences(d, AnswerText(x)) = IF x = m THEN c ELSE 0
    BY ONLY BlockIs(d, m, r, c, o), x \in Nat DEF BlockIs
  <2>3. /\ Occurrences(h, QueryText(x)) = IF x = m THEN s ELSE IF x = m + 1 THEN p ELSE 0
        /\ Occurrences(h, AnswerText(x)) = IF x = m THEN g ELSE 0
    BY ONLY BlockIs(h, m, s, g, p), x \in Nat DEF BlockIs
  <2>4. /\ Occurrences(j, QueryText(x))
             = Occurrences(b, QueryText(x)) + Occurrences(d, QueryText(x)) + Occurrences(h, QueryText(x))
        /\ Occurrences(j, AnswerText(x))
             = Occurrences(b, AnswerText(x)) + Occurrences(d, AnswerText(x)) + Occurrences(h, AnswerText(x))
    BY ONLY <1>4
  <2> QED BY ONLY <2>1, <2>2, <2>3, <2>4
<1> QED BY <1>2, <1>3, <1>5 DEF BlockIs

LEMMA TextsOfFew ==
  ASSUME NEW x, NEW y, NEW z
  PROVE  /\ TextsOf(<<x>>) = Joined(<<x.texts>>) /\ TextsOf(<<x, y>>) = Joined(<<x.texts, y.texts>>)
         /\ TextsOf(<<x, y, z>>) = Joined(<<x.texts, y.texts, z.texts>>)
<1>1. [i \in 1 .. Len(<<x>>) |-> <<x>>[i].texts] = <<x.texts>>
  OBVIOUS
<1>2. [i \in 1 .. Len(<<x, y>>) |-> <<x, y>>[i].texts] = <<x.texts, y.texts>>
  OBVIOUS
<1>3. [i \in 1 .. Len(<<x, y, z>>) |-> <<x, y, z>>[i].texts] = <<x.texts, y.texts, z.texts>>
  OBVIOUS
<1> QED BY ONLY <1>1, <1>2, <1>3 DEF TextsOf

LEMMA TextsOfNone == TextsOf(<<>>) = Joined(<<>>)
<1>1. [i \in 1 .. Len(<<>>) |-> <<>>[i].texts] = <<>>
  OBVIOUS
<1> QED BY ONLY <1>1 DEF TextsOf

LEMMA TailsOfFew ==
  ASSUME NEW x, NEW y
  PROVE  Tail(<<x>>) = <<>> /\ Tail(<<x, y>>) = <<y>>
OBVIOUS

LEMMA TailOfThree == ASSUME NEW x, NEW y, NEW z PROVE Tail(<<x, y, z>>) = <<y, z>>
OBVIOUS

\* The texts of a turn, without its query if that was shown before.
Uncut(t, cut) == IF cut THEN Tail(t) ELSE t
Once(cut) == IF cut THEN 0 ELSE 1

LEMMA QueryShown ==
  ASSUME NEW m \in Nat, NEW t, t = <<QueryOf(m)>>, NEW cut \in BOOLEAN
  PROVE  BlockIs(TextsOf(Uncut(t, cut)), m, Once(cut), 0, 0)
<1>1. PICK q : q = QueryOf(m)
  OBVIOUS
<1>2. BlockIs(q.texts, m, 1, 0, 0)
  BY <1>1, QueryBlock
<1>3. CASE cut
  <2>1. TextsOf(Uncut(t, cut)) = Joined(<<>>)
    BY <1>1, <1>3, TailsOfFew, TextsOfNone DEF Uncut
  <2> QED BY <1>3, <2>1, NoBlock DEF Once
<1>4. CASE ~cut
  <2>1. TextsOf(Uncut(t, cut)) = Joined(<<q.texts>>)
    BY <1>1, <1>4, TextsOfFew DEF Uncut
  <2>2. BlockIs(Joined(<<q.texts>>), m, 1, 0, 0)
    BY ONLY m \in Nat, <1>2, OneBlock
  <2> QED BY <1>4, <2>1, <2>2 DEF Once
<1> QED BY <1>3, <1>4

LEMMA TurnShown ==
  ASSUME NEW k \in Nat \ {0}, NEW n \in Nat, NEW t, Turn(t, k, n), NEW cut \in BOOLEAN
  PROVE  BlockIs(TextsOf(Uncut(t, cut)), k - 1, Once(cut), 1, IF Last(t).role = "user" THEN n ELSE 0)
<1>1. PICK m \in Nat : m = k - 1
  OBVIOUS
<1>2. PICK q : q = QueryOf(m)
  OBVIOUS
<1>3. PICK a : a = AnswerOf(m)
  OBVIOUS
<1>4. PICK f : f = FeedbackOf(m, n)
  OBVIOUS
<1>5. BlockIs(q.texts, m, 1, 0, 0) /\ BlockIs(a.texts, m, 0, 1, 0) /\ BlockIs(f.texts, m, 0, 0, n)
  BY <1>2, <1>3, <1>4, QueryBlock, AnswerBlock, FeedbackBlock
<1>6. 0 \in Nat /\ 1 \in Nat
  OBVIOUS
<1>7. CASE t = <<q, a>>
  <2>1. Last(t).role # "user"
    BY <1>1, <1>2, <1>3, <1>7, TurnIs, Zenon
  <2>2. CASE cut
    <3>1. TextsOf(Uncut(t, cut)) = Joined(<<a.texts>>)
      BY <1>7, <2>2, TailsOfFew, TextsOfFew DEF Uncut
    <3>2. BlockIs(Joined(<<a.texts>>), m, 0, 1, 0)
      BY ONLY m \in Nat, <1>5, OneBlock
    <3> QED BY <1>1, <2>1, <2>2, <3>1, <3>2 DEF Once
  <2>3. CASE ~cut
    <3>1. TextsOf(Uncut(t, cut)) = Joined(<<q.texts, a.texts>>)
      BY <1>7, <2>3, TextsOfFew DEF Uncut
    <3>2. BlockIs(Joined(<<q.texts, a.texts>>), m, 1 + 0, 0 + 1, 0 + 0)
      BY ONLY m \in Nat, <1>5, <1>6, TwoBlocks, Zenon
    <3>3. 1 + 0 = 1 /\ 0 + 1 = 1 /\ 0 + 0 = 0
      OBVIOUS
    <3> QED BY ONLY <1>1, <2>1, <2>3, <3>1, <3>2, <3>3 DEF Once
  <2> QED BY <2>2, <2>3
<1>8. CASE t = <<q, a, f>>
  <2>1. Last(t).role = "user"
    BY <1>1, <1>2, <1>3, <1>4, <1>8, TurnIs, Zenon
  <2>2. CASE cut
    <3>1. TextsOf(Uncut(t, cut)) = Joined(<<a.texts, f.texts>>)
      <4>1. Tail(<<q, a, f>>) = <<a, f>>
        BY ONLY TailOfThree
      <4>2. TextsOf(<<a, f>>) = Joined(<<a.texts, f.texts>>)
        BY ONLY TextsOfFew, Zenon
      <4> QED BY ONLY <1>8, <2>2, <4>1, <4>2 DEF Uncut
    <3>2. BlockIs(Joined(<<a.texts, f.texts>>), m, 0 + 0, 1 + 0, 0 + n)
      BY ONLY m \in Nat, n \in Nat, <1>5, <1>6, TwoBlocks, Zenon
    <3>3. 0 + 0 = 0 /\ 1 + 0 = 1 /\ 0 + n = n
      OBVIOUS
    <3> QED BY ONLY <1>1, <2>1, <2>2, <3>1, <3>2, <3>3 DEF Once
  <2>3. CASE ~cut
    <3>1. TextsOf(Uncut(t, cut)) = Joined(<<q.texts, a.texts, f.texts>>)
      BY <1>8, <2>3, TextsOfFew DEF Uncut
    <3>2. BlockIs(Joined(<<q.texts, a.texts, f.texts>>), m, 1 + 0 + 0, 0 + 1 + 0, 0 + 0 + n)
      BY ONLY m \in Nat, n \in Nat, <1>5, <1>6, ThreeBlocks, Zenon
    <3>3. 1 + 0 + 0 = 1 /\ 0 + 1 + 0 = 1 /\ 0 + 0 + n = n
      OBVIOUS
    <3> QED BY ONLY <1>1, <2>1, <2>3, <3>1, <3>2, <3>3 DEF Once
  <2> QED BY <2>2, <2>3
<1> QED BY <1>1, <1>2, <1>3, <1>4, <1>7, <1>8 DEF Turn

\* Turn k as it is shown from turn "from" on, after move l.
BlockShown(b, ts, from, l, k) ==
  BlockIs(b, k - 1, IF k > from /\ UserTwice(ts, k - 1) THEN 0 ELSE 1, IF k <= l THEN 1 ELSE 0,
          IF UserTwice(ts, k) THEN Together(k, l + 1) ELSE 0)

LEMMA TurnsShown ==
  ASSUME NEW l \in Nat, moves = l, game.window \in Nat, NEW ts, TurnsAre(ts, l + 1),
         ts[l + 1] = <<QueryOf(l)>>, NEW from \in 1 .. l + 1, NEW k \in from .. l + 1
  PROVE  BlockShown(TextsOf(Uncut(ts[k], k > from /\ UserTwice(ts, k - 1))), ts, from, l, k)
<1>1. PICK cut \in BOOLEAN : cut = (k > from /\ UserTwice(ts, k - 1))
  BY DEF UserTwice
<1>2. Len(ts) = l + 1 /\ \A i \in 1 .. l : Turn(ts[i], i, Together(i, l + 1))
  BY DEF TurnsAre, Turn
<1>3. k \in Nat \ {0} /\ k - 1 \in Nat
  OBVIOUS
<1>4. CASE k = l + 1
  <2>1. BlockIs(TextsOf(Uncut(ts[k], cut)), l, Once(cut), 0, 0)
    BY <1>4, QueryShown
  <2>2. ~UserTwice(ts, k)
    BY <1>2, <1>4 DEF UserTwice
  <2>3. k - 1 = l /\ ~(k <= l)
    BY <1>4
  <2> QED BY ONLY <1>1, <2>1, <2>2, <2>3 DEF BlockShown, Once
<1>5. CASE k # l + 1
  <2>1. k \in 1 .. l /\ k <= l
    BY <1>5
  <2>2. PICK n : n = Together(k, l + 1)
    OBVIOUS
  <2>3. n \in Nat
    BY <2>1, <2>2 DEF Together
  <2>4. Turn(ts[k], k, n)
    BY <1>2, <2>1, <2>2
  <2>5. BlockIs(TextsOf(Uncut(ts[k], cut)), k - 1, Once(cut), 1,
                IF Last(ts[k]).role = "user" THEN n ELSE 0)
    BY ONLY <1>3, <2>3, <2>4, TurnShown
  <2>6. UserTwice(ts, k) <=> Last(ts[k]).role = "user"
    BY <1>2, <2>1 DEF UserTwice
  <2> QED BY ONLY <1>1, <2>1, <2>2, <2>5, <2>6 DEF BlockShown, Once
<1> QED BY <1>4, <1>5

\* What is shown of the queries and the answers of the turns from "from" on.
ShownAre(all, ts, from, l) ==
  /\ all \in Seq(LateTexts(from - 1))
  /\ \A x \in from - 1 .. l :
       Occurrences(all, QueryText(x)) = IF x >= from /\ UserTwice(ts, x) THEN Together(x, l + 1) ELSE 1
  /\ \A x \in from - 1 .. l - 1 : Occurrences(all, AnswerText(x)) = 1

LEMMA BlocksShown ==
  ASSUME NEW l \in Nat, NEW from \in 1 .. l + 1, NEW ts, NEW ss, Len(ts) = l + 1,
         ss = [j \in 1 .. l + 1 - from + 1 |-> ss[j]],
         \A j \in 1 .. l + 1 - from + 1 : BlockShown(ss[j], ts, from, l, from + j - 1)
  PROVE  ShownAre(Joined(ss), ts, from, l)
<1>1. PICK n \in Nat : n = l + 1 - from + 1
  OBVIOUS
<1>2. PICK u : u = [k \in Nat |-> IF UserTwice(ts, k) THEN 1 ELSE 0]
  OBVIOUS
<1>3. /\ \A k \in Nat : u[k] = IF UserTwice(ts, k) THEN 1 ELSE 0
      /\ u[l + 1] = 0
  BY <1>2 DEF UserTwice
<1>4. PICK g : g = [k \in Nat |-> Together(k, l + 1)]
  OBVIOUS
<1>5. ASSUME NEW j \in 1 .. n
      PROVE  /\ ss[j] \in Seq(LateTexts(from - 1))
             /\ \A x \in Nat :
                  /\ Occurrences(ss[j], QueryText(x))
                       = IF x = from + j - 2 THEN (IF j > 1 /\ u[x] = 1 THEN 0 ELSE 1)
                         ELSE IF x = from + j - 1 THEN (IF u[x] = 1 THEN g[x] ELSE 0)
                         ELSE 0
                  /\ Occurrences(ss[j], AnswerText(x))
                       = IF x = from + j - 2 THEN (IF x < l THEN 1 ELSE 0) ELSE 0
  <2>1. PICK k \in Nat : k = from + j - 1
    OBVIOUS
  <2>2. /\ k \in Nat \ {0} /\ k - 1 \in Nat /\ k - 1 = from + j - 2 /\ (k > from <=> j > 1)
        /\ k - 1 >= from - 1 /\ (k <= l <=> k - 1 < l) /\ k = (k - 1) + 1
    BY <2>1
  <2>3. BlockIs(ss[j], k - 1, IF k > from /\ UserTwice(ts, k - 1) THEN 0 ELSE 1,
                IF k <= l THEN 1 ELSE 0, IF UserTwice(ts, k) THEN Together(k, l + 1) ELSE 0)
    BY <1>1, <2>1 DEF BlockShown
  <2>4. BlockIs(ss[j], k - 1, IF j > 1 /\ u[k - 1] = 1 THEN 0 ELSE 1,
                IF k - 1 < l THEN 1 ELSE 0, IF u[k] = 1 THEN g[k] ELSE 0)
    <3>1. u[k] = IF UserTwice(ts, k) THEN 1 ELSE 0
      BY ONLY <1>3, <2>2
    <3>2. u[k - 1] = IF UserTwice(ts, k - 1) THEN 1 ELSE 0
      BY ONLY <1>3, <2>2
    <3>3. g[k] = Together(k, l + 1)
      BY ONLY <1>4, <2>2
    <3> QED BY ONLY <2>2, <2>3, <3>1, <3>2, <3>3
  <2>5. ss[j] \in Seq(LateTexts(from - 1))
    <3>1. ss[j] \in Seq(LateTexts(k - 1))
      BY ONLY <2>4 DEF BlockIs
    <3>2. LateTexts(k - 1) \subseteq LateTexts(from - 1)
      BY <2>2 DEF LateTexts, InferTexts
    <3> QED BY ONLY <3>1, <3>2
  <2>6. ASSUME NEW x \in Nat
        PROVE  /\ Occurrences(ss[j], QueryText(x))
                    = IF x = from + j - 2 THEN (IF j > 1 /\ u[x] = 1 THEN 0 ELSE 1)
                      ELSE IF x = from + j - 1 THEN (IF u[x] = 1 THEN g[x] ELSE 0)
                      ELSE 0
               /\ Occurrences(ss[j], AnswerText(x))
                    = IF x = from + j - 2 THEN (IF x < l THEN 1 ELSE 0) ELSE 0
    <3>1. /\ Occurrences(ss[j], QueryText(x))
               = IF x = k - 1 THEN (IF j > 1 /\ u[k - 1] = 1 THEN 0 ELSE 1)
                 ELSE IF x = (k - 1) + 1 THEN (IF u[k] = 1 THEN g[k] ELSE 0) ELSE 0
          /\ Occurrences(ss[j], AnswerText(x)) = IF x = k - 1 THEN (IF k - 1 < l THEN 1 ELSE 0) ELSE 0
      BY ONLY <2>4, x \in Nat DEF BlockIs
    <3> QED BY ONLY <2>1, <2>2, <3>1
  <2> QED BY ONLY <2>5, <2>6
<1>6. ss \in Seq(Seq(LateTexts(from - 1))) /\ Len(ss) = n
  <2>1. ss \in [1 .. n -> Seq(LateTexts(from - 1))]
    BY <1>1, <1>5
  <2> QED BY ONLY <2>1, n \in Nat
<1>7. Joined(ss) \in Seq(LateTexts(from - 1))
  BY ONLY <1>6, JoinedType
<1>8. ASSUME NEW x \in from - 1 .. l
      PROVE  Occurrences(Joined(ss), QueryText(x))
               = IF x >= from /\ UserTwice(ts, x) THEN Together(x, l + 1) ELSE 1
  <2>1. x \in Nat /\ (u[x] = 1 <=> UserTwice(ts, x)) /\ g[x] = Together(x, l + 1)
    BY <1>3, <1>4
  <2>2. CASE x >= from /\ u[x] = 1
    <3>1. PICK b \in 1 .. n : x = from + b - 1
      <4>1. x + 1 - from \in 1 .. n /\ x = from + (x + 1 - from) - 1
        BY <1>1, <2>2
      <4> QED BY <4>1
    <3>2. \A j \in 1 .. n : j # b => Occurrences(ss[j], QueryText(x)) = 0
      <4> SUFFICES ASSUME NEW j \in 1 .. n, j # b PROVE Occurrences(ss[j], QueryText(x)) = 0
        OBVIOUS
      <4>1. x # from + j - 1 /\ (x = from + j - 2 => j > 1)
        BY <3>1
      <4> QED BY ONLY <1>5, <2>1, <2>2, <4>1, j \in 1 .. n
    <3>3. Occurrences(ss[b], QueryText(x)) = g[x]
      <4>1. x # from + b - 2
        BY <3>1
      <4> QED BY ONLY <1>5, <2>1, <2>2, <3>1, <4>1
    <3>4. b \in 1 .. Len(ss) /\ \A j \in 1 .. Len(ss) : j # b => Occurrences(ss[j], QueryText(x)) = 0
      BY ONLY <1>6, <3>1, <3>2
    <3>5. Occurrences(Joined(ss), QueryText(x)) = Occurrences(ss[b], QueryText(x))
      BY ONLY <1>6, <3>4, CopiesInOne
    <3> QED BY ONLY <2>1, <2>2, <3>3, <3>5
  <2>3. CASE ~(x >= from /\ u[x] = 1)
    <3>1. PICK b \in 1 .. n : x = from + b - 2
      <4>1. x + 2 - from \in 1 .. n /\ x = from + (x + 2 - from) - 2
        BY <1>1
      <4> QED BY <4>1
    <3>2. \A j \in 1 .. n : j # b => Occurrences(ss[j], QueryText(x)) = 0
      <4> SUFFICES ASSUME NEW j \in 1 .. n, j # b PROVE Occurrences(ss[j], QueryText(x)) = 0
        OBVIOUS
      <4>1. x # from + j - 2 /\ (x = from + j - 1 => x >= from)
        BY ONLY <3>1, j \in 1 .. n, j # b, n \in Nat, x \in from - 1 .. l, from \in 1 .. l + 1, l \in Nat
      <4> QED BY ONLY <1>5, <2>1, <2>3, <4>1, j \in 1 .. n
    <3>3. Occurrences(ss[b], QueryText(x)) = 1
      <4>1. b > 1 => x >= from
        BY <3>1
      <4> QED BY ONLY <1>5, <2>1, <2>3, <3>1, <4>1
    <3>4. b \in 1 .. Len(ss) /\ \A j \in 1 .. Len(ss) : j # b => Occurrences(ss[j], QueryText(x)) = 0
      BY ONLY <1>6, <3>1, <3>2
    <3>5. Occurrences(Joined(ss), QueryText(x)) = Occurrences(ss[b], QueryText(x))
      BY ONLY <1>6, <3>4, CopiesInOne
    <3> QED BY ONLY <2>1, <2>3, <3>3, <3>5
  <2> QED BY <2>2, <2>3
<1>9. ASSUME NEW x \in from - 1 .. l - 1 PROVE Occurrences(Joined(ss), AnswerText(x)) = 1
  <2>1. x \in Nat /\ x < l
    OBVIOUS
  <2>2. PICK b \in 1 .. n : x = from + b - 2
    <3>1. x + 2 - from \in 1 .. n /\ x = from + (x + 2 - from) - 2
      BY <1>1
    <3> QED BY <3>1
  <2>3. \A j \in 1 .. n : j # b => Occurrences(ss[j], AnswerText(x)) = 0
    <3> SUFFICES ASSUME NEW j \in 1 .. n, j # b PROVE Occurrences(ss[j], AnswerText(x)) = 0
      OBVIOUS
    <3>1. x # from + j - 2
      BY <2>2
    <3> QED BY ONLY <1>5, <2>1, <3>1, j \in 1 .. n
  <2>4. Occurrences(ss[b], AnswerText(x)) = 1
    BY ONLY <1>5, <2>1, <2>2
  <2>5. b \in 1 .. Len(ss) /\ \A j \in 1 .. Len(ss) : j # b => Occurrences(ss[j], AnswerText(x)) = 0
    BY ONLY <1>6, <2>2, <2>3
  <2>6. Occurrences(Joined(ss), AnswerText(x)) = Occurrences(ss[b], AnswerText(x))
    BY ONLY <1>6, <2>5, CopiesInOne
  <2> QED BY ONLY <2>4, <2>6
<1> QED BY ONLY <1>7, <1>8, <1>9 DEF ShownAre

LEMMA WindowShown ==
  ASSUME NEW l \in Nat, moves = l, NEW w \in Nat \ {0}, game.window = w, NEW ts, TurnsAre(ts, l + 1),
         ts[l + 1] = <<QueryOf(l)>>, NEW from, from = First(ts, w)
  PROVE  from \in 1 .. l + 1 /\ ShownAre(Shown(ts, from), ts, from, l)
<1>1. Len(ts) = l + 1
  BY DEF TurnsAre
<1>2. from \in 1 .. l + 1
  BY <1>1 DEF First
<1>3. PICK n \in Nat : n = l + 1 - from + 1
  BY <1>2
<1>4. PICK ss : ss = [j \in 1 .. n |->
                       TextsOf(Uncut(ts[from + j - 1], from + j - 1 > from /\ UserTwice(ts, from + j - 2)))]
  OBVIOUS
<1>5. Shown(ts, from) = Joined(ss)
  <2>1. \A j \in 1 .. n : (from + j - 1) - 1 = from + j - 2
    BY <1>2
  <2>2. Len(ts) - from + 1 = n
    BY <1>1, <1>2, <1>3
  <2>3. ss = [j \in 1 .. Len(ts) - from + 1 |->
                LET k == from + j - 1
                IN  TextsOf(IF k > from /\ UserTwice(ts, k - 1) THEN Tail(ts[k]) ELSE ts[k])]
    BY ONLY <1>4, <2>1, <2>2 DEF Uncut
  <2> QED BY ONLY <2>3, Zenon DEF Shown
<1>6. ss = [j \in 1 .. l + 1 - from + 1 |-> ss[j]]
  BY ONLY <1>3, <1>4
<1>7. ASSUME NEW j \in 1 .. l + 1 - from + 1 PROVE BlockShown(ss[j], ts, from, l, from + j - 1)
  <2>1. PICK k \in from .. l + 1 : k = from + j - 1 /\ k - 1 = from + j - 2
    BY <1>2
  <2>2. BlockShown(TextsOf(Uncut(ts[k], k > from /\ UserTwice(ts, k - 1))), ts, from, l, k)
    BY ONLY <1>2, l \in Nat, moves = l, game.window = w, w \in Nat \ {0}, TurnsAre(ts, l + 1),
            ts[l + 1] = <<QueryOf(l)>>, k \in from .. l + 1, TurnsShown
  <2>3. ss[j] = TextsOf(Uncut(ts[k], k > from /\ UserTwice(ts, k - 1)))
    BY ONLY <1>3, <1>4, <2>1, j \in 1 .. l + 1 - from + 1
  <2> QED BY ONLY <2>1, <2>2, <2>3
<1>8. ShownAre(Joined(ss), ts, from, l)
  BY ONLY <1>1, <1>2, <1>6, <1>7, l \in Nat, BlocksShown
<1> QED BY ONLY <1>2, <1>5, <1>8

\* The last turns, counted from the prompt that is made.
LEMMA TogetherBound ==
  ASSUME NEW l \in Nat, NEW w \in Nat \ {0}, game.window = w, NEW from,
         from = IF l + 1 > w THEN l + 1 - w + 1 ELSE 1, NEW x \in from .. l
  PROVE  Together(x, l + 1) \in 1 .. (IF w > 2 THEN w - 1 ELSE 1)
BY DEF Together

LEMMA InferShows == ASSUME InferIInv, Infer PROVE ShownIsWindow'
<1> SUFFICES ASSUME game'.window > 0 PROVE ShownIsWindow'
  BY DEF ShownIsWindow
<1>1. InferTypeOK /\ TurnsOK /\ stage = "infer" /\ game' = game /\ moves' = moves
  BY DEF InferIInv, Infer
<1>2. PICK l \in Nat : l = moves
  BY <1>1, TheGame
<1>3. PICK w \in Nat \ {0} : w = game.window
  BY <1>1, TheGame
<1>4. TurnsAre(turns, l) /\ turns[l + 1] = <<QueryOf(l)>>
  BY <1>1, <1>2 DEF TurnsOK
<1>5. PICK from : from = First(turns, w)
  OBVIOUS
<1>6. PICK ts : ts = Merge(turns, from)
  OBVIOUS
<1>7. TurnsAre(ts, l + 1) /\ ts[l + 1] = <<QueryOf(l)>>
  BY ONLY <1>2, <1>3, <1>4, <1>5, <1>6, MergeKeepsTurns
<1>8. Len(turns) = l + 1 /\ Len(ts) = l + 1
  BY ONLY <1>2, <1>4, <1>7 DEF TurnsAre
<1>9. from = First(ts, w) /\ from = IF l + 1 > w THEN l + 1 - w + 1 ELSE 1
  BY ONLY <1>5, <1>8 DEF First
<1>10. from \in 1 .. l + 1 /\ ShownAre(Shown(ts, from), ts, from, l)
  BY ONLY <1>2, <1>3, <1>7, <1>9, WindowShown
<1>11. shown' = Shown(ts, from)
  BY <1>3, <1>5, <1>6 DEF Infer
<1>12. Len(turns') = l + 1
  <2>1. InferIInv' /\ stage' = "act"
    BY InferStep DEF Infer
  <2>2. Len(turns') = moves' + 1
    BY ONLY <2>1 DEF InferIInv, TurnsOK, TurnsAre
  <2> QED BY ONLY <1>1, <1>2, <2>2
<1>13. First(turns', game'.window) = from
  <2>1. game'.window = w
    BY ONLY <1>1, <1>3
  <2>2. First(turns', w) = from
    BY ONLY <1>9, <1>12 DEF First
  <2> QED BY ONLY <2>1, <2>2
<1>14. PICK s : s = shown'
  OBVIOUS
<1>15. PICK most : most = IF w > 2 THEN w - 1 ELSE 1
  OBVIOUS
<1>16. s \in Seq(LateTexts(from - 1)) /\ ShownAre(s, ts, from, l)
  BY ONLY <1>10, <1>11, <1>14 DEF ShownAre
<1>17. \A i \in 1 .. Len(s) : s[i].move >= from - 1
  BY ONLY <1>16, ElementOfSeq DEF LateTexts
<1>18. ASSUME NEW x \in from - 1 .. l
       PROVE  Cardinality({i \in 1 .. Len(s) : s[i] = [what |-> "query", move |-> x]}) \in 1 .. most
  <2>1. Occurrences(s, QueryText(x))
          = IF x >= from /\ UserTwice(ts, x) THEN Together(x, l + 1) ELSE 1
    BY ONLY <1>16, x \in from - 1 .. l DEF ShownAre
  <2>2. Occurrences(s, QueryText(x)) \in 1 .. most
    <3>1. CASE x >= from
      <4>1. x \in from .. l
        BY <1>10, <3>1
      <4>2. Together(x, l + 1) \in 1 .. most
        BY ONLY <1>3, <1>9, <1>15, <4>1, l \in Nat, TogetherBound
      <4>3. 1 \in 1 .. most
        BY <1>15
      <4> QED BY ONLY <2>1, <4>2, <4>3
    <3>2. CASE ~(x >= from)
      <4>1. 1 \in 1 .. most
        BY <1>15
      <4> QED BY ONLY <2>1, <3>2, <4>1
    <3> QED BY <3>1, <3>2
  <2>3. Cardinality({i \in 1 .. Len(s) : s[i] = QueryText(x)}) = Occurrences(s, QueryText(x))
    BY ONLY <1>16, CopiesAre
  <2> QED BY ONLY <2>2, <2>3 DEF QueryText
<1>19. ASSUME NEW x \in from - 1 .. l - 1
       PROVE  Cardinality({i \in 1 .. Len(s) : s[i] = [what |-> "answer", move |-> x]}) = 1
  <2>1. Occurrences(s, AnswerText(x)) = 1
    BY ONLY <1>16, x \in from - 1 .. l - 1 DEF ShownAre
  <2>2. Cardinality({i \in 1 .. Len(s) : s[i] = AnswerText(x)}) = Occurrences(s, AnswerText(x))
    BY ONLY <1>16, CopiesAre
  <2> QED BY ONLY <2>1, <2>2 DEF AnswerText
<1> QED BY ONLY <1>1, <1>2, <1>3, <1>13, <1>14, <1>15, <1>17, <1>18, <1>19 DEF ShownIsWindow

(* The prompts of the inference loops show the last turns, all of them and *)
(* nothing before them: max_window_size of MultiTurnDialogueAgentLoop.     *)
THEOREM PromptsShowTheWindow == InferSpec => []ShownIsWindow
<1>1. InferInit => ShownIsWindow
  BY DEF InferInit, ShownIsWindow
<1>2. InferIInv /\ ShownIsWindow /\ [InferNext]_inferVars => ShownIsWindow'
  <2> SUFFICES ASSUME InferIInv, ShownIsWindow, [InferNext]_inferVars PROVE ShownIsWindow'
    OBVIOUS
  <2>1. CASE Infer
    BY <2>1, InferShows
  <2>2. CASE NoMove \/ GoOn \/ EndGame \/ HandOver
    <3>1. stage' # "act"
      BY <2>2 DEF NoMove, GoOn, EndGame, Play, HandOver
    <3> QED BY ONLY <3>1 DEF ShownIsWindow
  <2>3. CASE UNCHANGED inferVars
    BY <2>3 DEF inferVars, ShownIsWindow
  <2> QED BY <2>1, <2>2, <2>3 DEF InferNext
<1> QED BY <1>1, <1>2, InferInvariance, PTL DEF InferSpec
=============================================================================
