-------------------------- MODULE TokenStreamsProofs --------------------------
(***************************************************************************)
(* Theorems about the token streams, for any configurations, number of     *)
(* trajectories and lengths of texts: the lists stay in step, the mask the *)
(* trainer gets marks what the model wrote, every reward reaches it on a   *)
(* token of the model, and student and teacher of the distillation differ  *)
(* in what they are meant to differ in.  The inductive invariant is IInv   *)
(* of TokenStreams, which follows, token by token, who wrote what; what    *)
(* the rewards and the second version need is added where they are.        *)
(***************************************************************************)
EXTENDS TokenStreams, ListProofs

-----------------------------------------------------------------------------
(* Sequences.                                                              *)

LEMMA ThreeJoined ==
  ASSUME NEW S, NEW a \in Seq(S), NEW b \in Seq(S), NEW c \in Seq(S)
  PROVE  /\ a \o b \o c \in Seq(S)
         /\ Len(a \o b \o c) = Len(a) + Len(b) + Len(c)
<1>1. a \o b \in Seq(S) /\ Len(a \o b) = Len(a) + Len(b)
  BY AppendIs
<1> QED BY <1>1, AppendIs

LEMMA FourJoined ==
  ASSUME NEW S, NEW a \in Seq(S), NEW b \in Seq(S), NEW c \in Seq(S), NEW d \in Seq(S)
  PROVE  /\ a \o b \o c \o d \in Seq(S)
         /\ Len(a \o b \o c \o d) = Len(a) + Len(b) + Len(c) + Len(d)
<1>1. a \o b \o c \in Seq(S) /\ Len(a \o b \o c) = Len(a) + Len(b) + Len(c)
  BY ThreeJoined
<1> QED BY <1>1, AppendIs

LEMMA ZerosAre ==
  ASSUME NEW n \in Nat
  PROVE  /\ Zeros(n) \in Seq(Bits) /\ Zeros(n) \in Seq(Int)
         /\ Len(Zeros(n)) = n
         /\ \A k \in 1..n : Zeros(n)[k] = 0
BY DEF Zeros, Bits

LEMMA ZerosAppended ==
  ASSUME NEW m \in Seq(Bits), NEW n \in Nat
  PROVE  m \o Zeros(n) \in Seq(Bits) /\ Len(m \o Zeros(n)) = Len(m) + n
<1>1. Zeros(n) \in Seq(Bits) /\ Len(Zeros(n)) = n
  BY ZerosAre
<1> QED BY <1>1, AppendIs

LEMMA OnesAre ==
  ASSUME NEW n \in Nat
  PROVE  /\ Ones(n) \in Seq(Bits)
         /\ Len(Ones(n)) = n
         /\ \A k \in 1..n : Ones(n)[k] = 1
BY DEF Ones, Bits

-----------------------------------------------------------------------------
(* Texts.                                                                  *)

(* A list of tokens and the mask that goes with it.                        *)
Marks(s, m) ==
  /\ s \in Seq(TokenType) /\ m \in Seq(Bits)
  /\ Len(m) = Len(s)
  /\ \A k \in 1..Len(s) : m[k] = Bit(s[k])

Counted == step \in Nat /\ turn \in Nat

LEMMA TextIs ==
  ASSUME Counted, NEW what \in Kinds, NEW traj \in 0..MaxTraj, NEW n \in Nat
  PROVE  /\ Text(what, traj, n) \in Seq(TokenType)
         /\ Len(Text(what, traj, n)) = n
         /\ \A k \in 1..n : Text(what, traj, n)[k].what = what
<1> DEFINE token(k) == [what |-> what, step |-> step, turn |-> turn,
                        traj |-> traj, at |-> k]
<1>1. \A k \in 1..n : token(k) \in TokenType
  BY DEF Counted, TokenType
<1>2. Text(what, traj, n) = [k \in 1..n |-> token(k)]
  BY DEF Text
<1>3. [k \in 1..n |-> token(k)] \in Seq(TokenType)
  <2> HIDE DEF token
  <2> QED BY <1>1, IsASeq
<1>4. Len([k \in 1..n |-> token(k)]) = n
  OBVIOUS
<1>5. \A k \in 1..n : [j \in 1..n |-> token(j)][k].what = what
  OBVIOUS
<1> QED BY <1>2, <1>3, <1>4, <1>5

LEMMA PromptIs ==
  ASSUME Counted
  PROVE  SystemPrompt \in Seq(TokenType) /\ Len(SystemPrompt) = 2
<1>1. "system prompt" \in Kinds /\ 0 \in 0..MaxTraj
  BY ConfigAssumption DEF Kinds
<1> QED BY <1>1, TextIs DEF SystemPrompt

(* A text somebody else wrote has a mask of zeros, one of the model's a    *)
(* mask of ones.                                                           *)
LEMMA OthersText ==
  ASSUME Counted, NEW what \in Kinds \ Generated, NEW traj \in 0..MaxTraj,
         NEW n \in Nat
  PROVE  Marks(Text(what, traj, n), Zeros(n))
<1>1. /\ Text(what, traj, n) \in Seq(TokenType) /\ Len(Text(what, traj, n)) = n
      /\ \A k \in 1..n : Text(what, traj, n)[k].what = what
  BY TextIs
<1>2. /\ Zeros(n) \in Seq(Bits) /\ Len(Zeros(n)) = n
      /\ \A k \in 1..n : Zeros(n)[k] = 0
  BY ZerosAre
<1> QED BY <1>1, <1>2 DEF Marks, Bit

LEMMA OneMore ==
  ASSUME Counted, NEW what \in Kinds \ Generated, NEW traj \in 0..MaxTraj
  PROVE  /\ Text(what, traj, 1) \in Seq(TokenType)
         /\ Marks(Text(what, traj, 1), Zeros(Len(Text(what, traj, 1))))
<1>1. Len(Text(what, traj, 1)) = 1
  BY TextIs
<1>2. Marks(Text(what, traj, 1), Zeros(1))
  BY OthersText
<1> QED BY <1>1, <1>2 DEF Marks

LEMMA ModelsText ==
  ASSUME Counted, NEW what \in Generated, NEW traj \in 0..MaxTraj, NEW n \in Nat
  PROVE  Marks(Text(what, traj, n), Ones(n))
<1>1. what \in Kinds
  BY DEF Kinds
<1>2. /\ Text(what, traj, n) \in Seq(TokenType) /\ Len(Text(what, traj, n)) = n
      /\ \A k \in 1..n : Text(what, traj, n)[k].what = what
  BY <1>1, TextIs
<1>3. /\ Ones(n) \in Seq(Bits) /\ Len(Ones(n)) = n
      /\ \A k \in 1..n : Ones(n)[k] = 1
  BY OnesAre
<1> QED BY <1>2, <1>3 DEF Marks, Bit

LEMMA MarksJoined ==
  ASSUME NEW s, NEW m, NEW t, NEW z, Marks(s, m), Marks(t, z)
  PROVE  Marks(s \o t, m \o z)
<1>1. /\ s \o t \in Seq(TokenType)
      /\ Len(s \o t) = Len(s) + Len(t)
      /\ Len(s) \in Nat /\ Len(t) \in Nat
      /\ \A i \in 1..Len(s) + Len(t) :
            (s \o t)[i] = IF i <= Len(s) THEN s[i] ELSE t[i - Len(s)]
  BY AppendIs DEF Marks
<1>2. /\ m \o z \in Seq(Bits)
      /\ Len(m \o z) = Len(m) + Len(z)
      /\ \A i \in 1..Len(m) + Len(z) :
            (m \o z)[i] = IF i <= Len(m) THEN m[i] ELSE z[i - Len(m)]
  <2>1. m \in Seq(Bits) /\ z \in Seq(Bits)
    BY DEF Marks
  <2> QED BY <2>1, AppendIs
<1>3. ASSUME NEW k \in 1..Len(s) + Len(t)
      PROVE  (m \o z)[k] = Bit((s \o t)[k])
  <2>1. CASE k <= Len(s)
    BY <1>1, <1>2, <2>1 DEF Marks
  <2>2. CASE ~(k <= Len(s))
    <3>1. k - Len(s) \in 1..Len(t)
      BY <1>1, <2>2
    <3> QED BY <1>1, <1>2, <2>2, <3>1 DEF Marks
  <2> QED BY <2>1, <2>2
<1> QED BY <1>1, <1>2, <1>3 DEF Marks

(* The four parts of an inference, for the masks.                          *)
IsInference(p) ==
  /\ \A i \in {1, 3} : Marks(p[i], Zeros(Len(p[i])))
  /\ \A i \in {2, 4} : Marks(p[i], Ones(Len(p[i])))

LEMMA PartsAre ==
  ASSUME Counted, NEW value \in Generated, NEW moves \in Generated,
         NEW traj \in 0..MaxTraj, NEW n \in Nat, NEW k \in Nat
  PROVE  IsInference(Parts(value, moves, traj, n, k))
<1> DEFINE p == Parts(value, moves, traj, n, k)
<1>1. /\ "value prompt" \in Kinds \ Generated
      /\ "move prompt" \in Kinds \ Generated
      /\ value \in Kinds /\ moves \in Kinds
  BY DEF Kinds, Generated
<1>2. /\ p[1] = Text("value prompt", traj, 1) /\ p[2] = Text(value, traj, n)
      /\ p[3] = Text("move prompt", traj, 1) /\ p[4] = Text(moves, traj, k)
  BY DEF Parts
<1>3. Len(p[1]) = 1 /\ Len(p[2]) = n /\ Len(p[3]) = 1 /\ Len(p[4]) = k
  <2>1. \A what \in Kinds, m \in Nat : Len(Text(what, traj, m)) = m
    BY TextIs
  <2>2. /\ Len(Text("value prompt", traj, 1)) = 1 /\ Len(Text(value, traj, n)) = n
        /\ Len(Text("move prompt", traj, 1)) = 1 /\ Len(Text(moves, traj, k)) = k
    BY <1>1, <2>1
  <2> HIDE DEF p
  <2> QED BY <1>2, <2>2
<1>4. Marks(p[1], Zeros(1)) /\ Marks(p[3], Zeros(1))
  BY <1>1, <1>2, OthersText
<1>5. Marks(p[2], Ones(n)) /\ Marks(p[4], Ones(k))
  BY <1>2, ModelsText
<1> HIDE DEF p
<1>6. IsInference(p)
  BY <1>3, <1>4, <1>5 DEF IsInference
<1> QED BY <1>6 DEF p

(* The lengths of any four parts and of the mask of the second.            *)
LEMMA FourPartsAre ==
  ASSUME NEW p, \A i \in 1..4 : p[i] \in Seq(TokenType)
  PROVE  /\ \A i \in 1..4 : Len(p[i]) \in Nat
         /\ AllFour(p) \in Seq(TokenType)
         /\ Len(AllFour(p)) = Len(p[1]) + Len(p[2]) + Len(p[3]) + Len(p[4])
         /\ ValueMaskOf(p) \in Seq(Bits)
         /\ Len(ValueMaskOf(p)) = Len(AllFour(p))
<1>1. /\ p[1] \in Seq(TokenType) /\ p[2] \in Seq(TokenType)
      /\ p[3] \in Seq(TokenType) /\ p[4] \in Seq(TokenType)
  OBVIOUS
<1>2. /\ \A i \in 1..4 : Len(p[i]) \in Nat
      /\ Len(p[1]) \in Nat /\ Len(p[2]) \in Nat
      /\ Len(p[3]) \in Nat /\ Len(p[4]) \in Nat
  BY <1>1, LenProperties
<1>3. /\ AllFour(p) \in Seq(TokenType)
      /\ Len(AllFour(p)) = Len(p[1]) + Len(p[2]) + Len(p[3]) + Len(p[4])
  BY <1>1, FourJoined DEF AllFour
<1> DEFINE a == Zeros(Len(p[1]))
           b == Ones(Len(p[2]))
           c == Zeros(Len(p[3]))
           d == Zeros(Len(p[4]))
<1>4. /\ a \in Seq(Bits) /\ Len(a) = Len(p[1])
      /\ c \in Seq(Bits) /\ Len(c) = Len(p[3])
      /\ d \in Seq(Bits) /\ Len(d) = Len(p[4])
  BY <1>2, ZerosAre
<1>5. b \in Seq(Bits) /\ Len(b) = Len(p[2])
  BY <1>2, OnesAre
<1>6. ValueMaskOf(p) = a \o b \o c \o d
  BY DEF ValueMaskOf
<1> HIDE DEF a, b, c, d
<1>7. /\ a \o b \o c \o d \in Seq(Bits)
      /\ Len(a \o b \o c \o d) = Len(a) + Len(b) + Len(c) + Len(d)
  <2>1. a \in Seq(Bits) /\ b \in Seq(Bits) /\ c \in Seq(Bits) /\ d \in Seq(Bits)
    BY <1>4, <1>5
  <2> QED BY <2>1, FourJoined
<1> QED BY <1>2, <1>3, <1>4, <1>5, <1>6, <1>7

LEMMA InferenceIs ==
  ASSUME NEW p, IsInference(p)
  PROVE  /\ Marks(AllFour(p), MaskOf(p))
         /\ \A i \in 1..4 : p[i] \in Seq(TokenType) /\ Len(p[i]) \in Nat
         /\ AllFour(p) \in Seq(TokenType)
         /\ Len(AllFour(p)) = Len(p[1]) + Len(p[2]) + Len(p[3]) + Len(p[4])
         /\ ValueMaskOf(p) \in Seq(Bits)
         /\ Len(ValueMaskOf(p)) = Len(AllFour(p))
<1>1. \A i \in 1..4 : p[i] \in Seq(TokenType)
  BY DEF IsInference, Marks
<1>2. Marks(AllFour(p), MaskOf(p))
  <2>1. Marks(p[1] \o p[2], Zeros(Len(p[1])) \o Ones(Len(p[2])))
    BY MarksJoined DEF IsInference
  <2>2. Marks(p[1] \o p[2] \o p[3],
              Zeros(Len(p[1])) \o Ones(Len(p[2])) \o Zeros(Len(p[3])))
    BY <2>1, MarksJoined DEF IsInference
  <2>3. Marks(p[1] \o p[2] \o p[3] \o p[4],
              Zeros(Len(p[1])) \o Ones(Len(p[2])) \o Zeros(Len(p[3])) \o Ones(Len(p[4])))
    BY <2>2, MarksJoined DEF IsInference
  <2> QED BY <2>3 DEF AllFour, MaskOf
<1> QED BY <1>1, <1>2, FourPartsAre

-----------------------------------------------------------------------------
(* Lists.                                                                  *)

(* A mask that starts after the system prompt and marks all that follows.  *)
Followed(s, m) ==
  /\ s \in Seq(TokenType) /\ m \in Seq(Bits)
  /\ Len(s) = 2 + Len(m)
  /\ \A k \in 1..Len(m) : m[k] = Bit(s[k + 2])

LEMMA FollowedOn ==
  ASSUME NEW s, NEW m, NEW t, NEW z, Followed(s, m), Marks(t, z)
  PROVE  Followed(s \o t, m \o z)
<1>1. /\ s \in Seq(TokenType) /\ t \in Seq(TokenType)
      /\ m \in Seq(Bits) /\ z \in Seq(Bits)
  BY DEF Followed, Marks
<1>2. /\ s \o t \in Seq(TokenType)
      /\ Len(s \o t) = Len(s) + Len(t)
      /\ Len(s) \in Nat /\ Len(t) \in Nat
      /\ \A i \in 1..Len(s) + Len(t) :
            (s \o t)[i] = IF i <= Len(s) THEN s[i] ELSE t[i - Len(s)]
  BY <1>1, AppendIs
<1>3. /\ m \o z \in Seq(Bits)
      /\ Len(m \o z) = Len(m) + Len(z)
      /\ Len(m) \in Nat /\ Len(z) \in Nat
      /\ \A i \in 1..Len(m) + Len(z) :
            (m \o z)[i] = IF i <= Len(m) THEN m[i] ELSE z[i - Len(m)]
  BY <1>1, AppendIs
<1>4. ASSUME NEW k \in 1..Len(m) + Len(z)
      PROVE  (m \o z)[k] = Bit((s \o t)[k + 2])
  <2>1. CASE k <= Len(m)
    BY <1>2, <1>3, <2>1 DEF Followed, Marks
  <2>2. CASE ~(k <= Len(m))
    <3>1. Len(s) = 2 + Len(m) /\ Len(z) = Len(t)
      BY DEF Followed, Marks
    <3>2. k - Len(m) \in 1..Len(t) /\ k + 2 - Len(s) = k - Len(m)
      BY <1>2, <1>3, <2>2, <3>1
    <3>3. (s \o t)[k + 2] = t[k - Len(m)]
      <4>1. k + 2 \in 1..Len(s) + Len(t) /\ ~(k + 2 <= Len(s))
        BY <1>2, <1>3, <2>2, <3>1
      <4> QED BY <1>2, <3>2, <4>1
    <3>4. (m \o z)[k] = z[k - Len(m)]
      BY <1>3, <2>2
    <3> QED BY <3>2, <3>3, <3>4 DEF Marks
  <2> QED BY <2>1, <2>2
<1> QED BY <1>2, <1>3, <1>4 DEF Followed, Marks

(* What the invariant says of the planner's lists and of the episode's.    *)
Good(l) ==
  /\ l \in ListsType
  /\ Followed(l.ids, l.mask)
  /\ Len(l.reward) = Len(l.mask)
  /\ Supervised => Len(l.teacherMask) = Len(l.mask)
  /\ ~Supervised =>
        /\ Len(l.studentMask) = Len(l.mask)
        /\ TextsLeftOut \/ Len(l.alt) = 2 + Len(l.teacherMask)

(* The place for the summary, and room for the planner's own prompt.       *)
Placed(l) == l.hole <= Len(l.alt) /\ 2 <= Len(l.alt)

LEMMA GoodIs ==
  ASSUME Counted, NEW l, l \in ListsType
  PROVE  Good(l) <=> Aligned(l) /\ Marked(l)
<1>1. Len(SystemPrompt) = 2
  BY PromptIs
<1>2. l.ids \in Seq(TokenType) /\ l.mask \in Seq(Bits)
  BY DEF ListsType
<1> QED BY <1>1, <1>2 DEF Good, Aligned, Marked, Followed

LEMMA ListsAre ==
  ASSUME NEW l \in ListsType
  PROVE  /\ l.ids \in Seq(TokenType) /\ Len(l.ids) \in Nat
         /\ l.mask \in Seq(Bits) /\ Len(l.mask) \in Nat
         /\ l.reward \in Seq(Int) /\ Len(l.reward) \in Nat
         /\ l.alt \in Seq(TokenType) /\ Len(l.alt) \in Nat
         /\ l.teacherMask \in Seq(Bits) /\ Len(l.teacherMask) \in Nat
         /\ l.studentMask \in Seq(Bits) /\ Len(l.studentMask) \in Nat
         /\ l.hole \in Nat
         /\ l.root \in Seq(TokenType) /\ Len(l.root) \in Nat
<1>1. /\ l.ids \in Seq(TokenType) /\ l.mask \in Seq(Bits) /\ l.reward \in Seq(Int)
      /\ l.alt \in Seq(TokenType) /\ l.teacherMask \in Seq(Bits)
      /\ l.studentMask \in Seq(Bits) /\ l.hole \in Nat /\ l.root \in Seq(TokenType)
  BY DEF ListsType
<1> QED BY <1>1, LenProperties

LEMMA NoListsAre == NoLists \in ListsType
BY EmptySeq DEF NoLists, ListsType

LEMMA ToldAre ==
  ASSUME NEW l \in ListsType, NEW text \in Seq(TokenType)
  PROVE  /\ Told(l, text) \in ListsType
         /\ Told(l, text).ids = l.ids \o text
         /\ Told(l, text).mask = l.mask \o Zeros(Len(text))
         /\ Len(Told(l, text).mask) = Len(l.mask) + Len(text)
         /\ Len(Told(l, text).reward) = Len(l.reward) + Len(text)
         /\ Len(Told(l, text).alt) = Len(l.alt) + Len(text)
         /\ Len(Told(l, text).teacherMask) = Len(l.teacherMask) + Len(text)
         /\ Len(Told(l, text).studentMask) = Len(l.studentMask) + Len(text)
         /\ Told(l, text).hole = l.hole /\ Told(l, text).root = l.root
<1> DEFINE z == Zeros(Len(text))
           new == Told(l, text)
<1>1. z \in Seq(Bits) /\ z \in Seq(Int) /\ Len(z) = Len(text) /\ Len(text) \in Nat
  BY LenProperties, ZerosAre
<1>2. /\ new = [l EXCEPT !.ids = l.ids \o text, !.mask = l.mask \o z,
                         !.reward = l.reward \o z, !.alt = l.alt \o text,
                         !.teacherMask = l.teacherMask \o z,
                         !.studentMask = l.studentMask \o z]
  BY DEF Told
<1> HIDE DEF z, new
<1>3. /\ new.ids = l.ids \o text /\ new.mask = l.mask \o z
      /\ new.reward = l.reward \o z /\ new.alt = l.alt \o text
      /\ new.teacherMask = l.teacherMask \o z
      /\ new.studentMask = l.studentMask \o z
      /\ new.hole = l.hole /\ new.root = l.root
  BY <1>2 DEF ListsType
<1>4. /\ l.ids \o text \in Seq(TokenType)
      /\ l.alt \o text \in Seq(TokenType)
      /\ Len(l.alt \o text) = Len(l.alt) + Len(text)
  BY ListsAre, AppendIs
<1>5. /\ l.mask \o z \in Seq(Bits) /\ Len(l.mask \o z) = Len(l.mask) + Len(z)
      /\ l.teacherMask \o z \in Seq(Bits)
      /\ Len(l.teacherMask \o z) = Len(l.teacherMask) + Len(z)
      /\ l.studentMask \o z \in Seq(Bits)
      /\ Len(l.studentMask \o z) = Len(l.studentMask) + Len(z)
  BY <1>1, ListsAre, AppendIs
<1>6. l.reward \o z \in Seq(Int) /\ Len(l.reward \o z) = Len(l.reward) + Len(z)
  BY <1>1, ListsAre, AppendIs
<1>7. new \in ListsType
  BY <1>2, <1>4, <1>5, <1>6 DEF ListsType
<1> QED BY <1>1, <1>3, <1>4, <1>5, <1>6, <1>7 DEF z, new

LEMMA ToldKeeps ==
  ASSUME NEW l, Good(l), NEW text, Marks(text, Zeros(Len(text)))
  PROVE  Good(Told(l, text))
<1>1. l \in ListsType /\ text \in Seq(TokenType) /\ Len(text) \in Nat
  BY LenProperties DEF Good, Marks
<1>2. Followed(l.ids \o text, l.mask \o Zeros(Len(text)))
  BY FollowedOn DEF Good
<1>3. /\ Told(l, text) \in ListsType
      /\ Told(l, text).ids = l.ids \o text
      /\ Told(l, text).mask = l.mask \o Zeros(Len(text))
      /\ Len(Told(l, text).mask) = Len(l.mask) + Len(text)
      /\ Len(Told(l, text).reward) = Len(l.reward) + Len(text)
      /\ Len(Told(l, text).alt) = Len(l.alt) + Len(text)
      /\ Len(Told(l, text).teacherMask) = Len(l.teacherMask) + Len(text)
      /\ Len(Told(l, text).studentMask) = Len(l.studentMask) + Len(text)
  BY <1>1, ToldAre
<1>4. /\ Len(l.mask) \in Nat /\ Len(l.alt) \in Nat
      /\ Len(l.teacherMask) \in Nat /\ Len(l.studentMask) \in Nat
  BY <1>1, ListsAre
<1> DEFINE new == Told(l, text)
<1>5. Followed(new.ids, new.mask)
  BY <1>2, <1>3
<1> HIDE DEF new
<1>6. new \in ListsType
  BY <1>3 DEF new
<1>7. Len(new.reward) = Len(new.mask)
  BY <1>1, <1>3, <1>4 DEF Good, new
<1>8. ASSUME Supervised PROVE Len(new.teacherMask) = Len(new.mask)
  BY <1>1, <1>3, <1>4, <1>8 DEF Good, new
<1>9. ASSUME ~Supervised PROVE Len(new.studentMask) = Len(new.mask)
  BY <1>1, <1>3, <1>4, <1>9 DEF Good, new
<1>10. ASSUME ~Supervised, ~TextsLeftOut PROVE Len(new.alt) = 2 + Len(new.teacherMask)
  <2>1. Len(l.alt) = 2 + Len(l.teacherMask)
    BY <1>10 DEF Good
  <2> QED BY <1>1, <1>3, <1>4, <2>1 DEF new
<1>11. Good(new)
  BY <1>5, <1>6, <1>7, <1>8, <1>9, <1>10 DEF Good
<1> QED BY <1>11 DEF new

LEMMA ToldPlaced ==
  ASSUME NEW l \in ListsType, Placed(l), NEW text \in Seq(TokenType)
  PROVE  Placed(Told(l, text))
<1> DEFINE a == Len(l.alt)
           b == Len(text)
           new == Told(l, text)
<1>1. /\ a \in Nat /\ b \in Nat /\ l.hole \in Nat
      /\ l.hole <= a /\ 2 <= a
  BY ListsAre, LenProperties DEF Placed
<1>2. new.hole = l.hole /\ Len(new.alt) = a + b
  BY ToldAre
<1> HIDE DEF a, b, new
<1>3. l.hole <= a + b /\ 2 <= a + b
  BY <1>1
<1>4. Placed(new)
  BY <1>2, <1>3 DEF Placed
<1> QED BY <1>4 DEF new

LEMMA InferredAre ==
  ASSUME NEW l, Good(l), NEW p, IsInference(p)
  PROVE  /\ Inferred(l, p) \in ListsType
         /\ Followed(Inferred(l, p).ids, Inferred(l, p).mask)
         /\ Len(Inferred(l, p).mask) = Len(l.mask) + Len(AllFour(p))
         /\ Len(Inferred(l, p).reward) = Len(Inferred(l, p).mask)
         /\ Inferred(l, p).alt = l.alt
         /\ Inferred(l, p).teacherMask = l.teacherMask
         /\ Inferred(l, p).studentMask = l.studentMask
         /\ Inferred(l, p).hole = l.hole /\ Inferred(l, p).root = l.root
<1> DEFINE text == AllFour(p)
           m == MaskOf(p)
           z == Zeros(Len(text))
           new == Inferred(l, p)
<1>1. /\ l \in ListsType /\ Marks(text, m)
      /\ text \in Seq(TokenType) /\ Len(text) \in Nat
      /\ m \in Seq(Bits) /\ Len(m) = Len(text)
  <2>1. l \in ListsType /\ Marks(text, m)
    BY InferenceIs DEF Good
  <2> HIDE DEF text, m
  <2> QED BY <2>1, LenProperties DEF Marks
<1>2. z \in Seq(Int) /\ Len(z) = Len(text)
  BY <1>1, ZerosAre
<1>3. new = [l EXCEPT !.ids = l.ids \o text, !.mask = l.mask \o m, !.reward = l.reward \o z]
  BY DEF Inferred
<1> HIDE DEF text, m, z, new
<1>4. /\ new.ids = l.ids \o text /\ new.mask = l.mask \o m
      /\ new.reward = l.reward \o z /\ new.alt = l.alt
      /\ new.teacherMask = l.teacherMask /\ new.studentMask = l.studentMask
      /\ new.hole = l.hole /\ new.root = l.root
  BY <1>1, <1>3 DEF ListsType
<1>5. Followed(l.ids \o text, l.mask \o m)
  BY <1>1, FollowedOn DEF Good
<1>6. Len(l.mask \o m) = Len(l.mask) + Len(m)
  BY <1>1, ListsAre, AppendIs
<1>7. l.reward \o z \in Seq(Int) /\ Len(l.reward \o z) = Len(l.reward) + Len(z)
  BY <1>1, <1>2, ListsAre, AppendIs
<1>8. new \in ListsType
  BY <1>1, <1>3, <1>5, <1>7 DEF ListsType, Followed
<1>9. Len(l.reward) = Len(l.mask)
  BY DEF Good
<1> QED BY <1>1, <1>2, <1>4, <1>5, <1>6, <1>7, <1>8, <1>9 DEF new, text

-----------------------------------------------------------------------------
(* The invariant, as the steps use it.                                     *)

LEMMA PromptLength == Len(SystemPrompt) = 2 /\ Len(SystemPrompt)' = 2
BY DEF SystemPrompt, Text

LEMMA Holding ==
  ASSUME IInv
  PROVE  /\ Counted /\ config \in ConfigType
         /\ Good(out)
         /\ Supervised => Len(out.alt) = 2 + Len(out.studentMask)
         /\ Planning => Good(plan) /\ Placed(plan)
<1>1. config \in ConfigType /\ config.steps \in Nat /\ config.horizon \in Nat
  BY ConfigAssumption DEF IInv, TypeOK, ConfigType
<1>2. Counted
  BY <1>1 DEF IInv, TypeOK, Counted
<1>3. out \in ListsType /\ plan \in ListsType
  BY DEF IInv, TypeOK
<1>4. Good(out)
  BY <1>2, <1>3, GoodIs DEF IInv, StreamsInStep
<1>5. Planning => Good(plan)
  BY <1>2, <1>3, GoodIs DEF IInv, StreamsInStep
<1>6. Supervised => Len(out.alt) = 2 + Len(out.studentMask)
  BY PromptLength DEF IInv, StreamsInStep
<1>7. Planning => Placed(plan)
  BY PromptLength DEF IInv, HoleOK, Placed
<1> QED BY <1>1, <1>2, <1>4, <1>5, <1>6, <1>7

LEMMA Preserved ==
  ASSUME config' = config, TypeOK', CountersOK', MaskMarksModelText',
         Good(out'),
         Supervised => Len(out'.alt) = 2 + Len(out'.studentMask),
         Planning' => Good(plan') /\ Placed(plan')
  PROVE  IInv'
<1>1. (Supervised <=> Supervised') /\ (TextsLeftOut <=> TextsLeftOut')
  BY DEF Supervised, TextsLeftOut
<1>2. Aligned(out)' /\ Marked(out)'
  BY <1>1, PromptLength DEF Good, Followed, Aligned, Marked
<1>3. Planning' => Aligned(plan)' /\ Marked(plan)'
  BY <1>1, PromptLength DEF Good, Followed, Aligned, Marked
<1>4. StreamsInStep'
  BY <1>1, <1>2, <1>3, PromptLength DEF StreamsInStep
<1>5. HoleOK'
  BY PromptLength DEF HoleOK, Placed
<1> QED BY <1>2, <1>3, <1>4, <1>5 DEF IInv

-----------------------------------------------------------------------------
(* The planner's steps.                                                    *)

LEMMA FirstLists ==
  ASSUME Counted, NEW s \in Seq(TokenType), Len(s) = 2
  PROVE  Followed(s, <<>>)
BY EmptySeq DEF Followed

LEMMA NewPlanGood ==
  ASSUME Counted
  PROVE  Good(NewPlan) /\ Placed(NewPlan)
<1> DEFINE query == Text("query", 0, 1)
           s == SystemPrompt \o query
<1>1. "query" \in Kinds \ Generated /\ 0 \in 0..MaxTraj
  BY ConfigAssumption DEF Kinds, Generated
<1>2. Marks(query, Zeros(1)) /\ Len(query) = 1
  BY <1>1, OthersText, TextIs
<1>3. Followed(SystemPrompt, <<>>)
  BY PromptIs, FirstLists
<1>4. Followed(s, <<>> \o Zeros(1))
  BY <1>2, <1>3, FollowedOn
<1>5. <<>> \o Zeros(1) = Zeros(1)
  BY ZerosAre, ConcatEmptySeq
<1>6. s \in Seq(TokenType) /\ Len(s) = 2 + Len(Zeros(1))
  BY <1>4, <1>5 DEF Followed
<1>7. /\ Zeros(1) \in Seq(Bits) /\ Zeros(1) \in Seq(Int) /\ Len(Zeros(1)) \in Nat
      /\ <<>> \in Seq(TokenType)
  BY ZerosAre, EmptySeq, LenProperties
<1>8. NewPlan = [ids |-> s, mask |-> Zeros(1), reward |-> Zeros(1),
                 alt |-> s, teacherMask |-> Zeros(1),
                 studentMask |-> Zeros(1), hole |-> 0, root |-> <<>>]
  BY DEF NewPlan
<1> HIDE DEF query, s
<1>9. NewPlan \in ListsType
  BY <1>6, <1>7, <1>8 DEF ListsType
<1>10. /\ NewPlan.ids = s /\ NewPlan.mask = Zeros(1) /\ NewPlan.reward = Zeros(1)
       /\ NewPlan.alt = s /\ NewPlan.teacherMask = Zeros(1)
       /\ NewPlan.studentMask = Zeros(1) /\ NewPlan.hole = 0
  BY <1>8
<1>11. Followed(NewPlan.ids, NewPlan.mask)
  BY <1>4, <1>5, <1>10
<1>12. Good(NewPlan)
  BY <1>6, <1>9, <1>10, <1>11 DEF Good
<1>13. Placed(NewPlan)
  <2> DEFINE n == Len(Zeros(1))
  <2>1. n \in Nat /\ Len(s) = 2 + n
    BY <1>6, <1>7
  <2> HIDE DEF n
  <2>2. 0 <= Len(s) /\ 2 <= Len(s)
    BY <2>1
  <2> QED BY <1>10, <2>2 DEF Placed
<1> QED BY <1>12, <1>13

LEMMA SameTypes == ListsType' = ListsType /\ OutputType' = OutputType
BY DEF ListsType, OutputType, TokenType, Kinds

LEMMA StartPlanKeeps == ASSUME IInv, StartPlan PROVE IInv'
<1>1. Counted /\ Good(out) /\ config \in ConfigType
      /\ (Supervised => Len(out.alt) = 2 + Len(out.studentMask))
  BY Holding
<1>2. config' = config /\ out' = out /\ plan' = NewPlan /\ pc' = "expand" /\ turn' = 1
  BY DEF StartPlan
<1>3. plan' \in ListsType
  BY <1>1, <1>2, NewPlanGood DEF Good
<1>4. TypeOK'
  <2>1. turn' \in 0..config'.horizon + 1
    BY <1>1, <1>2 DEF ConfigType
  <2>2. output' = <<>>
    BY DEF IInv, TypeOK, StartPlan
  <2> QED BY <1>2, <1>3, <2>1, <2>2, SameTypes DEF IInv, TypeOK, StartPlan
<1>5. CountersOK'
  BY <1>1, <1>2 DEF IInv, CountersOK, StartPlan, ConfigType
<1>6. MaskMarksModelText'
  BY <1>2 DEF MaskMarksModelText
<1>7. Good(plan') /\ Placed(plan')
  BY <1>1, <1>2, NewPlanGood
<1> QED BY <1>1, <1>2, <1>4, <1>5, <1>6, <1>7, Preserved

LEMMA ExpandedGood ==
  ASSUME NEW p, IsInference(p), Good(plan), Placed(plan)
  PROVE  Good(Expanded(p)) /\ Placed(Expanded(p))
<1> DEFINE l == Inferred(plan, p)
           n == Len(AllFour(p))
           new == Expanded(p)
<1>1. /\ l \in ListsType /\ Followed(l.ids, l.mask)
      /\ Len(l.mask) = Len(plan.mask) + n /\ Len(l.reward) = Len(l.mask)
      /\ l.alt = plan.alt /\ l.teacherMask = plan.teacherMask
      /\ l.studentMask = plan.studentMask /\ l.hole = plan.hole /\ l.root = plan.root
  BY InferredAre
<1>2. /\ \A i \in 1..4 : p[i] \in Seq(TokenType) /\ Len(p[i]) \in Nat
      /\ AllFour(p) \in Seq(TokenType)
      /\ n = Len(p[1]) + Len(p[2]) + Len(p[3]) + Len(p[4])
      /\ ValueMaskOf(p) \in Seq(Bits) /\ Len(ValueMaskOf(p)) = n
  BY InferenceIs
<1>n. n \in Nat
  BY <1>2, LenProperties
<1>3. /\ p[1] \in Seq(TokenType) /\ p[2] \in Seq(TokenType) /\ p[3] \in Seq(TokenType)
      /\ p[4] \in Seq(TokenType)
  BY <1>2
<1>l. /\ Len(p[1]) \in Nat /\ Len(p[2]) \in Nat /\ Len(p[3]) \in Nat /\ Len(p[4]) \in Nat
      /\ Len(plan.alt) \in Nat /\ Len(plan.teacherMask) \in Nat
      /\ Len(plan.studentMask) \in Nat /\ Len(plan.mask) \in Nat /\ plan.hole \in Nat
      /\ plan.hole <= Len(plan.alt) /\ 2 <= Len(plan.alt)
  BY <1>2, ListsAre DEF Good, Placed
<1>4. plan \in ListsType
  BY DEF Good
<1>5. /\ plan.alt \in Seq(TokenType) /\ plan.teacherMask \in Seq(Bits)
      /\ plan.studentMask \in Seq(Bits)
  BY <1>4, ListsAre
<1>7. /\ plan.teacherMask \o Zeros(n) \in Seq(Bits)
      /\ Len(plan.teacherMask \o Zeros(n)) = Len(plan.teacherMask) + n
  BY <1>5, <1>n, ZerosAppended
<1> HIDE DEF l, n, new
<1>8. CASE Supervised
  <2>1. new = [l EXCEPT !.hole = Len(plan.alt) + Len(p[1]),
                        !.alt = plan.alt \o p[1] \o p[3] \o p[4],
                        !.teacherMask = plan.teacherMask \o Zeros(n)]
    BY <1>1, <1>8 DEF new, Expanded, Hole, l, n
  <2>2. /\ plan.alt \o p[1] \o p[3] \o p[4] \in Seq(TokenType)
        /\ Len(plan.alt \o p[1] \o p[3] \o p[4])
             = Len(plan.alt) + Len(p[1]) + Len(p[3]) + Len(p[4])
    BY <1>3, <1>5, FourJoined
  <2>3. /\ new.ids = l.ids /\ new.mask = l.mask /\ new.reward = l.reward
        /\ new.alt = plan.alt \o p[1] \o p[3] \o p[4]
        /\ new.teacherMask = plan.teacherMask \o Zeros(n)
        /\ new.hole = Len(plan.alt) + Len(p[1])
    BY <1>1, <2>1 DEF ListsType
  <2>4. new \in ListsType
    <3>1. Len(plan.alt) + Len(p[1]) \in Nat
      <4> DEFINE a == Len(plan.alt)
                 b == Len(p[1])
      <4>1. a \in Nat /\ b \in Nat
        BY <1>l
      <4> HIDE DEF a, b
      <4>2. a + b \in Nat
        BY <4>1
      <4> QED BY <4>2 DEF a, b
    <3> QED BY <1>1, <1>7, <2>1, <2>2, <3>1 DEF ListsType
  <2>5. Len(plan.teacherMask) = Len(plan.mask)
    BY <1>8 DEF Good
  <2>6. Good(new)
    BY <1>1, <1>7, <1>8, <2>3, <2>4, <2>5 DEF Good
  <2>7. Placed(new)
    <3>1. /\ new.hole = Len(plan.alt) + Len(p[1])
          /\ Len(new.alt) = Len(plan.alt) + Len(p[1]) + Len(p[3]) + Len(p[4])
      BY <2>2, <2>3
    <3> DEFINE a == Len(plan.alt)
               b == Len(p[1])
               c == Len(p[3])
               d == Len(p[4])
    <3>2. /\ a \in Nat /\ b \in Nat /\ c \in Nat /\ d \in Nat /\ 2 <= a
          /\ new.hole = a + b /\ Len(new.alt) = a + b + c + d
      BY <1>l, <3>1
    <3> HIDE DEF a, b, c, d
    <3>3. a + b <= a + b + c + d /\ 2 <= a + b + c + d
      BY <3>2
    <3> QED BY <3>2, <3>3 DEF Placed
  <2> QED BY <2>6, <2>7 DEF new
<1>9. CASE ~Supervised
  <2>1. new = [l EXCEPT !.root = p[2], !.alt = plan.alt \o AllFour(p),
                        !.teacherMask = plan.teacherMask \o Zeros(n),
                        !.studentMask = plan.studentMask \o ValueMaskOf(p)]
    BY <1>1, <1>9 DEF new, Expanded, l, n
  <2>2. /\ plan.alt \o AllFour(p) \in Seq(TokenType)
        /\ Len(plan.alt \o AllFour(p)) = Len(plan.alt) + n
    BY <1>2, <1>5, AppendIs DEF n
  <2>3. /\ plan.studentMask \o ValueMaskOf(p) \in Seq(Bits)
        /\ Len(plan.studentMask \o ValueMaskOf(p)) = Len(plan.studentMask) + n
    <3>1. ValueMaskOf(p) \in Seq(Bits) /\ Len(ValueMaskOf(p)) = n
      BY <1>2 DEF n
    <3> QED BY <1>5, <3>1, AppendIs
  <2>4. /\ new.ids = l.ids /\ new.mask = l.mask /\ new.reward = l.reward
        /\ new.alt = plan.alt \o AllFour(p)
        /\ new.teacherMask = plan.teacherMask \o Zeros(n)
        /\ new.studentMask = plan.studentMask \o ValueMaskOf(p)
        /\ new.hole = l.hole
    BY <1>1, <2>1 DEF ListsType
  <2>5. new \in ListsType
    BY <1>1, <1>3, <1>7, <2>1, <2>2, <2>3 DEF ListsType
  <2>6. Len(new.studentMask) = Len(new.mask)
    <3>1. Len(plan.studentMask) = Len(plan.mask)
      BY <1>9 DEF Good
    <3> QED BY <1>1, <2>3, <2>4, <3>1
  <2>7. TextsLeftOut \/ Len(new.alt) = 2 + Len(new.teacherMask)
    <3>1. TextsLeftOut \/ Len(plan.alt) = 2 + Len(plan.teacherMask)
      BY <1>9 DEF Good
    <3>2. CASE Len(plan.alt) = 2 + Len(plan.teacherMask)
      <4>1. /\ Len(new.alt) = Len(plan.alt) + n
            /\ Len(new.teacherMask) = Len(plan.teacherMask) + n
        BY <1>7, <2>2, <2>4
      <4> QED BY <1>n, <1>l, <3>2, <4>1
    <3> QED BY <3>1, <3>2
  <2>8. Good(new)
    BY <1>1, <1>9, <2>4, <2>5, <2>6, <2>7 DEF Good
  <2>9. Placed(new)
    <3>1. new.hole = plan.hole /\ Len(new.alt) = Len(plan.alt) + n
      BY <1>1, <2>2, <2>4
    <3> QED BY <1>n, <1>l, <3>1 DEF Placed
  <2> QED BY <2>8, <2>9 DEF new
<1> QED BY <1>8, <1>9

(* What is left to show of a step of the planner.                          *)
LEMMA PlannerKeeps ==
  ASSUME IInv, Planning, config' = config, out' = out, pc' # "done",
         TypeOK', CountersOK', Good(plan'), Placed(plan')
  PROVE  IInv'
<1>1. Good(out) /\ (Supervised => Len(out.alt) = 2 + Len(out.studentMask))
  BY Holding
<1>2. MaskMarksModelText'
  BY DEF MaskMarksModelText
<1> QED BY <1>1, <1>2, Preserved

LEMMA ExpandKeeps ==
  ASSUME IInv, NEW n \in Lengths, NEW k \in Lengths, NEW found \in 0..MaxTraj,
         Expand(n, k, found)
  PROVE  IInv'
<1> DEFINE p == Parts("understanding", "moves", 0, n, k)
           text == Text("feedback", 0, 1)
           lists == Expanded(p)
<1>1. /\ pc = "expand" /\ plan' = Told(lists, text) /\ running' = 1..found
      /\ pc' \in {"summarize", "execute"}
      /\ UNCHANGED <<config, step, turn, todo, out, granted, output>>
  BY DEF Expand
<1>2. /\ Counted /\ config \in ConfigType /\ Planning
      /\ Good(plan) /\ Placed(plan)
  BY <1>1, Holding DEF Planning
<1>3. IsInference(p)
  <2>1. n \in Nat /\ k \in Nat /\ 0 \in 0..MaxTraj
    BY ConfigAssumption
  <2>2. "understanding" \in Generated /\ "moves" \in Generated
    BY DEF Generated
  <2> QED BY <1>2, <2>1, <2>2, PartsAre
<1>4. Marks(text, Zeros(Len(text))) /\ text \in Seq(TokenType)
  <2>1. "feedback" \in Kinds \ Generated /\ 0 \in 0..MaxTraj
    BY ConfigAssumption DEF Kinds, Generated
  <2> QED BY <1>2, <2>1, OneMore
<1> HIDE DEF p, text
<1>5. Good(lists) /\ Placed(lists)
  BY <1>2, <1>3, ExpandedGood
<1> HIDE DEF lists
<1>6. Good(plan')
  BY <1>1, <1>4, <1>5, ToldKeeps
<1>7. Placed(plan')
  BY <1>1, <1>4, <1>5, ToldPlaced DEF Good
<1>8. TypeOK'
  <2>1. plan' \in ListsType
    BY <1>6 DEF Good
  <2>2. running' \subseteq 1..MaxTraj
    BY <1>1, ConfigAssumption
  <2>3. todo' \subseteq running'
    BY <1>1 DEF IInv, CountersOK
  <2> QED BY <1>1, <2>1, <2>2, <2>3, SameTypes DEF IInv, TypeOK
<1>9. CountersOK'
  BY <1>1 DEF IInv, CountersOK
<1> QED BY <1>1, <1>2, <1>6, <1>7, <1>8, <1>9, PlannerKeeps

LEMMA SimulatedGood ==
  ASSUME Good(plan), Placed(plan), TextsLeftOut, NEW p, IsInference(p),
         NEW text, Marks(text, Zeros(Len(text)))
  PROVE  Good(SimulatedBy(plan, p, text)) /\ Placed(SimulatedBy(plan, p, text))
<1> DEFINE l == Inferred(plan, p)
           added == Told(l, text)
           j == Len(AllFour(p))
           f == Len(text)
           m == Len(plan.mask)
           z == Zeros(j + f)
           new == SimulatedBy(plan, p, text)
<1>1. plan \in ListsType /\ text \in Seq(TokenType) /\ f \in Nat
  BY LenProperties DEF Good, Marks
<1>2. AllFour(p) \in Seq(TokenType) /\ j \in Nat
  BY InferenceIs, LenProperties
<1>3. /\ plan.alt \in Seq(TokenType) /\ Len(plan.alt) \in Nat /\ m \in Nat
      /\ plan.teacherMask \in Seq(Bits) /\ plan.studentMask \in Seq(Bits)
      /\ Len(plan.teacherMask) \in Nat /\ Len(plan.studentMask) \in Nat
      /\ plan.hole \in Nat
  BY <1>1, ListsAre
<1>4. /\ l \in ListsType /\ Followed(l.ids, l.mask)
      /\ Len(l.mask) = m + j /\ Len(l.reward) = Len(l.mask)
      /\ l.hole = plan.hole
  BY InferredAre
<1>5. /\ added \in ListsType
      /\ added.ids = l.ids \o text
      /\ added.mask = l.mask \o Zeros(f)
      /\ Len(added.mask) = Len(l.mask) + f
      /\ Len(added.reward) = Len(l.reward) + f
      /\ added.hole = l.hole
  BY <1>1, <1>4, ToldAre
<1>6. Followed(added.ids, added.mask)
  BY <1>4, <1>5, FollowedOn
<1>7. /\ plan.alt \o AllFour(p) \in Seq(TokenType)
      /\ Len(plan.alt \o AllFour(p)) = Len(plan.alt) + j
  BY <1>2, <1>3, AppendIs
<1>8. new = [added EXCEPT !.alt = plan.alt \o AllFour(p),
                          !.teacherMask = plan.teacherMask \o z,
                          !.studentMask = plan.studentMask \o z]
  BY DEF SimulatedBy
<1> HIDE DEF l, added, j, f, m, new
<1>9. j + f \in Nat
  BY <1>1, <1>2
<1>10. /\ plan.teacherMask \o z \in Seq(Bits)
       /\ Len(plan.teacherMask \o z) = Len(plan.teacherMask) + (j + f)
       /\ plan.studentMask \o z \in Seq(Bits)
       /\ Len(plan.studentMask \o z) = Len(plan.studentMask) + (j + f)
  BY <1>3, <1>9, ZerosAppended
<1> HIDE DEF z
<1>11. /\ new.ids = added.ids /\ new.mask = added.mask
       /\ new.reward = added.reward /\ new.hole = plan.hole
       /\ new.alt = plan.alt \o AllFour(p)
       /\ new.teacherMask = plan.teacherMask \o z
       /\ new.studentMask = plan.studentMask \o z
  BY <1>4, <1>5, <1>8 DEF ListsType
<1>12. new \in ListsType
  BY <1>5, <1>7, <1>8, <1>10 DEF ListsType
<1>13. Len(new.reward) = Len(new.mask)
  BY <1>4, <1>5, <1>11
<1>14. Len(new.mask) = m + (j + f)
  BY <1>1, <1>2, <1>3, <1>4, <1>5, <1>11
<1>15. ASSUME Supervised PROVE Len(new.teacherMask) = Len(new.mask)
  <2>1. Len(plan.teacherMask) = m
    BY <1>15 DEF Good, m
  <2> QED BY <1>10, <1>11, <1>14, <2>1
<1>16. ASSUME ~Supervised PROVE Len(new.studentMask) = Len(new.mask)
  <2>1. Len(plan.studentMask) = m
    BY <1>16 DEF Good, m
  <2> QED BY <1>10, <1>11, <1>14, <2>1
<1>17. Good(new)
  BY <1>6, <1>11, <1>12, <1>13, <1>15, <1>16 DEF Good
<1>18. Placed(new)
  <2> DEFINE a == Len(plan.alt)
  <2>1. a \in Nat /\ plan.hole <= a /\ 2 <= a /\ Len(new.alt) = a + j
    BY <1>3, <1>7, <1>11 DEF Placed
  <2> HIDE DEF a
  <2>2. plan.hole <= a + j /\ 2 <= a + j
    BY <1>2, <1>3, <2>1
  <2> QED BY <1>11, <2>1, <2>2 DEF Placed
<1> QED BY <1>17, <1>18 DEF new

LEMMA SimulateKeeps ==
  ASSUME IInv, NEW i \in todo, NEW n \in Lengths, Simulate(i, n)
  PROVE  IInv'
<1> DEFINE p == Parts("understanding", "moves", i, n, 1)
           text == Text("feedback", i, 1)
<1>1. /\ pc = "simulate" /\ todo' = todo \ {i}
      /\ pc' = IF todo' = {} THEN "execute" ELSE "simulate"
      /\ UNCHANGED <<config, step, turn, running, out, granted, output>>
      /\ plan' = IF config.turn2 THEN SimulatedBy(plan, p, text) ELSE plan
  BY DEF Simulate
<1>2. /\ Counted /\ config \in ConfigType /\ Planning
      /\ Good(plan) /\ Placed(plan)
  BY <1>1, Holding DEF Planning
<1>3. i \in 0..MaxTraj
  BY ConfigAssumption DEF IInv, TypeOK
<1>4. IsInference(p)
  <2>1. n \in Nat
    BY ConfigAssumption
  <2>2. "understanding" \in Generated /\ "moves" \in Generated
    BY DEF Generated
  <2> QED BY <1>2, <1>3, <2>1, <2>2, PartsAre
<1>5. Marks(text, Zeros(Len(text)))
  <2>1. "feedback" \in Kinds \ Generated
    BY DEF Kinds, Generated
  <2> QED BY <1>2, <1>3, <2>1, OneMore
<1> HIDE DEF p, text
<1>6. Good(plan') /\ Placed(plan')
  <2>1. CASE config.turn2
    <3>1. TextsLeftOut
      BY <1>1, <2>1 DEF IInv, CountersOK, TextsLeftOut
    <3> QED BY <1>1, <1>2, <1>4, <1>5, <2>1, <3>1, SimulatedGood
  <2>2. CASE ~config.turn2
    BY <1>1, <1>2, <2>2
  <2> QED BY <2>1, <2>2
<1>7. TypeOK'
  <2>1. plan' \in ListsType
    BY <1>6 DEF Good
  <2>2. todo' \subseteq running'
    BY <1>1 DEF IInv, TypeOK
  <2> QED BY <1>1, <2>1, <2>2, SameTypes DEF IInv, TypeOK
<1>8. CountersOK'
  BY <1>1 DEF IInv, CountersOK
<1>9. pc' # "done"
  BY <1>1
<1> QED BY <1>1, <1>2, <1>6, <1>7, <1>8, <1>9, PlannerKeeps

LEMMA ExecuteKeeps ==
  ASSUME IInv, NEW over \in SUBSET running, Execute(over)
  PROVE  IInv'
<1> DEFINE text == Text("results", 0, 1)
<1>1. /\ pc = "execute" /\ turn' = turn + 1
      /\ running' = IF turn >= config.horizon THEN {} ELSE running \ over
      /\ todo' = running'
      /\ pc' = IF turn' > config.horizon \/ running' = {} THEN "summarize" ELSE "simulate"
      /\ UNCHANGED <<config, step, out, granted, output>>
      /\ plan' = plan \/ plan' = Told(plan, text)
  BY DEF Execute
<1>2. /\ Counted /\ config \in ConfigType /\ Planning
      /\ Good(plan) /\ Placed(plan)
  BY <1>1, Holding DEF Planning
<1>3. Marks(text, Zeros(Len(text))) /\ text \in Seq(TokenType)
  <2>1. "results" \in Kinds \ Generated /\ 0 \in 0..MaxTraj
    BY ConfigAssumption DEF Kinds, Generated
  <2> QED BY <1>2, <2>1, OneMore
<1> HIDE DEF text
<1>4. Good(plan')
  BY <1>1, <1>2, <1>3, ToldKeeps
<1>5. Placed(plan')
  BY <1>1, <1>2, <1>3, ToldPlaced DEF Good
<1>6. config.horizon \in Nat /\ turn \in 1..config.horizon
  BY <1>1, <1>2 DEF IInv, CountersOK, ConfigType
<1>7. TypeOK'
  <2>1. plan' \in ListsType
    BY <1>4 DEF Good
  <2>2. turn' \in 0..(config'.horizon + 1)
    BY <1>1, <1>6
  <2>3. running' \subseteq 1..MaxTraj /\ todo' \subseteq running'
    BY <1>1 DEF IInv, TypeOK
  <2> QED BY <1>1, <2>1, <2>2, <2>3, SameTypes DEF IInv, TypeOK
<1>8. CountersOK'
  <2>1. turn' > config.horizon => running' = {}
    BY <1>1, <1>6
  <2>2. pc' = "simulate" => turn' \in 1..config'.horizon /\ config'.horizon > 1
    BY <1>1, <1>6
  <2> QED BY <1>1, <2>1, <2>2 DEF IInv, CountersOK
<1>9. pc' # "done"
  BY <1>1
<1> QED BY <1>1, <1>2, <1>4, <1>5, <1>7, <1>8, <1>9, PlannerKeeps

LEMMA SummarizedGood ==
  ASSUME Counted, Good(plan), Placed(plan),
         NEW a, NEW b, NEW c, NEW d, IsInference(<<a, b, c, d>>)
  PROVE  Good(Summarized(<<a, b, c, d>>)) /\ Placed(Summarized(<<a, b, c, d>>))
<1> DEFINE p == <<a, b, c, d>>
           q == Swapped(p)
           text == Text("summary prompt", 0, 1)
           told == Told(plan, text)
           l == Inferred(told, p)
           n == Len(AllFour(p))
           k == Len(AllFour(q))
           new == Summarized(p)
<1>1. \A i \in 1..4 : q[i] \in Seq(TokenType)
  <2>1. q = <<a, plan.root, c, d>>
    BY DEF Swapped
  <2>2. \A i \in 1..4 : p[i] \in Seq(TokenType)
    <3> HIDE DEF p
    <3> QED BY InferenceIs DEF p
  <2>3. plan.root \in Seq(TokenType)
    BY DEF Good, ListsType
  <2> QED BY <2>1, <2>2, <2>3
<1>2. Marks(text, Zeros(Len(text))) /\ text \in Seq(TokenType)
  <2>1. "summary prompt" \in Kinds \ Generated /\ 0 \in 0..MaxTraj
    BY ConfigAssumption DEF Kinds, Generated
  <2> QED BY <2>1, OneMore
<1> HIDE DEF p, q, text
<1>3. Good(told) /\ Placed(told)
  BY <1>2, ToldKeeps, ToldPlaced DEF Good
<1> HIDE DEF told
<1>4. /\ l \in ListsType /\ Followed(l.ids, l.mask)
      /\ Len(l.mask) = Len(told.mask) + n /\ Len(l.reward) = Len(l.mask)
      /\ l.alt = told.alt /\ l.teacherMask = told.teacherMask
      /\ l.studentMask = told.studentMask /\ l.hole = told.hole
  BY <1>3, InferredAre DEF p
<1>5. /\ told.alt \in Seq(TokenType) /\ Len(told.alt) \in Nat
      /\ told.teacherMask \in Seq(Bits) /\ Len(told.teacherMask) \in Nat
      /\ told.studentMask \in Seq(Bits) /\ Len(told.mask) \in Nat
      /\ told.hole \in Nat
  BY <1>3, ListsAre DEF Good
<1>6. /\ AllFour(p) \in Seq(TokenType) /\ n \in Nat
      /\ ValueMaskOf(p) \in Seq(Bits) /\ Len(ValueMaskOf(p)) = n
  BY InferenceIs, LenProperties DEF p
<1>7. /\ AllFour(q) \in Seq(TokenType) /\ k \in Nat
      /\ ValueMaskOf(q) \in Seq(Bits) /\ Len(ValueMaskOf(q)) = k
  BY <1>1, FourPartsAre, LenProperties
<1> HIDE DEF l, n, k, new
<1>8. CASE Supervised
  <2>1. new = [l EXCEPT !.alt = told.alt \o AllFour(p),
                        !.teacherMask = told.teacherMask \o ValueMaskOf(p)]
    BY <1>4, <1>8 DEF new, Summarized, l, told, text, p
  <2>2. /\ told.alt \o AllFour(p) \in Seq(TokenType)
        /\ Len(told.alt \o AllFour(p)) = Len(told.alt) + n
    BY <1>5, <1>6, AppendIs DEF n
  <2>3. /\ told.teacherMask \o ValueMaskOf(p) \in Seq(Bits)
        /\ Len(told.teacherMask \o ValueMaskOf(p)) = Len(told.teacherMask) + n
    BY <1>5, <1>6, AppendIs
  <2>4. /\ new.ids = l.ids /\ new.mask = l.mask /\ new.reward = l.reward
        /\ new.alt = told.alt \o AllFour(p) /\ new.hole = told.hole
        /\ new.teacherMask = told.teacherMask \o ValueMaskOf(p)
    BY <1>4, <2>1 DEF ListsType
  <2>5. new \in ListsType
    BY <1>4, <2>1, <2>2, <2>3 DEF ListsType
  <2>6. Len(new.teacherMask) = Len(new.mask)
    <3>1. Len(told.teacherMask) = Len(told.mask)
      BY <1>3, <1>8 DEF Good
    <3> QED BY <1>4, <2>3, <2>4, <3>1
  <2>7. Good(new)
    BY <1>4, <1>8, <2>4, <2>5, <2>6 DEF Good
  <2>8. Placed(new)
    <3> DEFINE x == Len(told.alt)
    <3>1. x \in Nat /\ told.hole <= x /\ 2 <= x /\ Len(new.alt) = x + n
      BY <1>3, <1>5, <2>2, <2>4 DEF Placed
    <3> HIDE DEF x
    <3>2. told.hole <= x + n /\ 2 <= x + n
      BY <1>5, <1>6, <3>1
    <3> QED BY <2>4, <3>1, <3>2 DEF Placed
  <2> QED BY <2>7, <2>8 DEF new, p
<1>9. CASE ~Supervised
  <2>1. new = [l EXCEPT !.alt = told.alt \o AllFour(q),
                        !.teacherMask = told.teacherMask \o ValueMaskOf(q),
                        !.studentMask = told.studentMask \o Zeros(n)]
    BY <1>4, <1>9 DEF new, Summarized, l, told, text, p, q, n
  <2>2. /\ told.alt \o AllFour(q) \in Seq(TokenType)
        /\ Len(told.alt \o AllFour(q)) = Len(told.alt) + k
    BY <1>5, <1>7, AppendIs DEF k
  <2>3. /\ told.teacherMask \o ValueMaskOf(q) \in Seq(Bits)
        /\ Len(told.teacherMask \o ValueMaskOf(q)) = Len(told.teacherMask) + k
    BY <1>5, <1>7, AppendIs
  <2>4. /\ told.studentMask \o Zeros(n) \in Seq(Bits)
        /\ Len(told.studentMask \o Zeros(n)) = Len(told.studentMask) + n
    BY <1>5, <1>6, ZerosAppended
  <2>5. /\ new.ids = l.ids /\ new.mask = l.mask /\ new.reward = l.reward
        /\ new.alt = told.alt \o AllFour(q) /\ new.hole = told.hole
        /\ new.teacherMask = told.teacherMask \o ValueMaskOf(q)
        /\ new.studentMask = told.studentMask \o Zeros(n)
    BY <1>4, <2>1 DEF ListsType
  <2>6. new \in ListsType
    BY <1>4, <2>1, <2>2, <2>3, <2>4 DEF ListsType
  <2>7. Len(new.studentMask) = Len(new.mask)
    <3>1. Len(told.studentMask) = Len(told.mask)
      BY <1>3, <1>9 DEF Good
    <3> QED BY <1>4, <2>4, <2>5, <3>1
  <2>8. TextsLeftOut \/ Len(new.alt) = 2 + Len(new.teacherMask)
    <3>1. TextsLeftOut \/ Len(told.alt) = 2 + Len(told.teacherMask)
      BY <1>3, <1>9 DEF Good
    <3>2. CASE Len(told.alt) = 2 + Len(told.teacherMask)
      <4>1. /\ Len(new.alt) = Len(told.alt) + k
            /\ Len(new.teacherMask) = Len(told.teacherMask) + k
        BY <2>2, <2>3, <2>5
      <4> QED BY <1>5, <1>7, <3>2, <4>1
    <3> QED BY <3>1, <3>2
  <2>9. Good(new)
    BY <1>4, <1>9, <2>5, <2>6, <2>7, <2>8 DEF Good
  <2>10. Placed(new)
    <3> DEFINE x == Len(told.alt)
    <3>1. x \in Nat /\ told.hole <= x /\ 2 <= x /\ Len(new.alt) = x + k
      BY <1>3, <1>5, <2>2, <2>5 DEF Placed
    <3> HIDE DEF x
    <3>2. told.hole <= x + k /\ 2 <= x + k
      BY <1>5, <1>7, <3>1
    <3> QED BY <2>5, <3>1, <3>2 DEF Placed
  <2> QED BY <2>9, <2>10 DEF new, p
<1> QED BY <1>8, <1>9

-----------------------------------------------------------------------------
(* What the planner returns.                                               *)

Returnable(r) ==
  /\ r \in ListsType
  /\ Marks(r.ids, r.mask)
  /\ Len(r.reward) = Len(r.mask)
  /\ Supervised =>
        /\ Len(r.teacherMask) = Len(r.mask)
        /\ Len(r.alt) = Len(r.studentMask)
  /\ ~Supervised =>
        /\ Len(r.studentMask) = Len(r.mask)
        /\ TextsLeftOut \/ Len(r.alt) = Len(r.teacherMask)

(* The planner's own prompt goes, and the mask is that of what is left.    *)
LEMMA PromptDropped ==
  ASSUME NEW s, NEW m, Followed(s, m)
  PROVE  Marks(LastOf(s, Len(m)), m)
<1> DEFINE n == Len(m)
           t == LastOf(s, n)
<1>1. /\ s \in Seq(TokenType) /\ m \in Seq(Bits)
      /\ n \in Nat /\ Len(s) = 2 + n
      /\ \A k \in 1..n : m[k] = Bit(s[k + 2])
  BY LenProperties DEF Followed
<1> HIDE DEF n
<1>2. n \in 0..Len(s) /\ n \in Int
  <2> DEFINE x == Len(s)
  <2>1. x = 2 + n
    BY <1>1
  <2> HIDE DEF x
  <2>2. n \in 0..x /\ n \in Int
    BY <1>1, <2>1
  <2> QED BY <2>2 DEF x
<1>3. /\ t \in Seq(TokenType) /\ Len(t) = n
      /\ \A k \in 1..n : t[k] = s[Len(s) - n + k]
  BY <1>1, <1>2, LastAre
<1> HIDE DEF t
<1>4. ASSUME NEW k \in 1..n
      PROVE  m[k] = Bit(t[k])
  <2>1. Len(s) - n + k = k + 2
    BY <1>1
  <2>2. t[k] = s[k + 2]
    BY <1>3, <2>1
  <2> QED BY <1>1, <2>2
<1> QED BY <1>1, <1>3, <1>4 DEF Marks, t, n

(* The lists of the student's version, with the summary in its hole.       *)
LEMMA FilledAre ==
  ASSUME NEW l, l \in ListsType, l.hole <= Len(l.alt), NEW summary \in Seq(TokenType)
  PROVE  /\ Filled(l, summary) \in Seq(TokenType)
         /\ FilledMask(l, summary) \in Seq(Bits)
         /\ Supervised =>
              /\ Len(Filled(l, summary)) = Len(l.alt) + Len(summary)
              /\ Len(FilledMask(l, summary)) = Len(l.alt) + Len(summary)
<1> DEFINE x == Len(l.alt)
           h == l.hole
           n == Len(summary)
<1>1. /\ l.alt \in Seq(TokenType) /\ l.studentMask \in Seq(Bits)
      /\ x \in Nat /\ h \in Nat /\ h <= x /\ n \in Nat
  BY ListsAre, LenProperties
<1>2. CASE ~Supervised
  BY <1>1, <1>2 DEF Filled, FilledMask
<1>3. CASE Supervised
  <2> DEFINE a == FirstOf(l.alt, h)
             b == LastOf(l.alt, x - h)
             c == Zeros(h)
             d == Ones(n)
             e == Zeros(x - h)
  <2>1. Filled(l, summary) = a \o summary \o b /\ FilledMask(l, summary) = c \o d \o e
    BY <1>3 DEF Filled, FilledMask
  <2>2. x - h \in Nat /\ x - h \in Int /\ x - h \in 0..x
    <3> HIDE DEF x, h
    <3> QED BY <1>1
  <2>3. a \in Seq(TokenType) /\ Len(a) = h
    <3>1. a \in Seq(TokenType) /\ Len(a) = IF h < x THEN h ELSE x
      BY <1>1, FirstAre
    <3> HIDE DEF a, h, x
    <3> QED BY <1>1, <3>1
  <2>4. b \in Seq(TokenType) /\ Len(b) = x - h
    <3> DEFINE k == x - h
    <3>1. k \in Int /\ k \in 0..Len(l.alt)
      BY <2>2
    <3> HIDE DEF k
    <3>2. LastOf(l.alt, k) \in Seq(TokenType) /\ Len(LastOf(l.alt, k)) = k
      BY <1>1, <3>1, LastAre
    <3> QED BY <3>2 DEF k
  <2>5. /\ c \in Seq(Bits) /\ Len(c) = h
        /\ d \in Seq(Bits) /\ Len(d) = n
        /\ e \in Seq(Bits) /\ Len(e) = x - h
    <3> HIDE DEF x, h, n
    <3> QED BY <1>1, <2>2, ZerosAre, OnesAre
  <2> HIDE DEF a, b, c, d, e
  <2>6. a \in Seq(TokenType) /\ b \in Seq(TokenType)
    BY <2>3, <2>4
  <2>7. /\ a \o summary \o b \in Seq(TokenType)
        /\ Len(a \o summary \o b) = Len(a) + n + Len(b)
    BY <2>6, ThreeJoined
  <2>8. c \in Seq(Bits) /\ d \in Seq(Bits) /\ e \in Seq(Bits)
    BY <2>5
  <2>9. /\ c \o d \o e \in Seq(Bits)
        /\ Len(c \o d \o e) = Len(c) + Len(d) + Len(e)
    BY <2>8, ThreeJoined
  <2>10. /\ Len(a \o summary \o b) = h + n + (x - h)
         /\ Len(c \o d \o e) = h + n + (x - h)
    BY <2>3, <2>4, <2>5, <2>7, <2>9
  <2>11. h + n + (x - h) = x + n
    <3> HIDE DEF x, h, n
    <3> QED BY <1>1
  <2> QED BY <2>1, <2>7, <2>9, <2>10, <2>11
<1> QED BY <1>2, <1>3

LEMMA TwoDropped ==
  ASSUME NEW S, NEW s \in Seq(S)
  PROVE  /\ LastOf(s, Len(s) - 2) \in Seq(S)
         /\ 2 <= Len(s) => Len(LastOf(s, Len(s) - 2)) = Len(s) - 2
<1> DEFINE x == Len(s)
           k == x - 2
<1>1. x \in Nat
  BY LenProperties
<1>2. k \in Int /\ (2 <= x => k \in 0..x)
  <2> HIDE DEF x
  <2> QED BY <1>1
<1> HIDE DEF k
<1>3. LastOf(s, k) \in Seq(S) /\ (k \in 0..Len(s) => Len(LastOf(s, k)) = k)
  BY <1>2, LastAre
<1>4. LastOf(s, k) \in Seq(S) /\ (2 <= x => Len(LastOf(s, k)) = k)
  BY <1>2, <1>3
<1> QED BY <1>4 DEF k

LEMMA ReturnedGood ==
  ASSUME NEW l, Good(l), Placed(l), NEW summary \in Seq(TokenType)
  PROVE  Returnable(Returned(l, summary))
<1> DEFINE m == Len(l.mask)
           x == Len(l.alt)
           n == Len(summary)
           alt == Filled(l, summary)
           mask == FilledMask(l, summary)
           ids1 == LastOf(l.ids, m)
           alt1 == LastOf(alt, Len(alt) - 2)
           mask1 == IF Supervised THEN LastOf(mask, Len(mask) - 2) ELSE mask
           r == Returned(l, summary)
<1>1. /\ l \in ListsType /\ m \in Nat /\ x \in Nat /\ n \in Nat
      /\ l.hole <= Len(l.alt) /\ 2 <= x
      /\ l.alt \in Seq(TokenType) /\ l.mask \in Seq(Bits)
  <2>1. l \in ListsType /\ l.hole <= Len(l.alt) /\ 2 <= x
    BY DEF Good, Placed
  <2> QED BY <2>1, ListsAre, LenProperties
<1>2. Len(l.ids) - m = 2
  <2>1. Len(l.ids) = 2 + m
    BY DEF Good, Followed
  <2> HIDE DEF m
  <2> QED BY <1>1, <2>1
<1>3. /\ alt \in Seq(TokenType) /\ mask \in Seq(Bits)
      /\ Supervised => Len(alt) = x + n /\ Len(mask) = x + n
  BY <1>1, FilledAre
<1>4. r = [l EXCEPT !.ids = ids1, !.alt = alt1, !.studentMask = mask1]
  BY <1>2 DEF Returned
<1>5. Marks(ids1, l.mask)
  BY PromptDropped DEF Good
<1> HIDE DEF ids1, alt, mask, r, m, x, n
<1>6. /\ alt1 \in Seq(TokenType)
      /\ 2 <= Len(alt) => Len(alt1) = Len(alt) - 2
  BY <1>3, TwoDropped
<1>7. mask1 \in Seq(Bits)
  BY <1>3, TwoDropped
<1>8. Supervised /\ 2 <= Len(mask) => Len(mask1) = Len(mask) - 2
  BY <1>3, TwoDropped
<1> HIDE DEF alt1
<1>9. ~Supervised => mask1 = mask /\ mask = l.studentMask /\ alt = l.alt
  BY DEF mask, alt, Filled, FilledMask
<1> HIDE DEF mask1
<1>10. /\ r.ids = ids1 /\ r.mask = l.mask /\ r.reward = l.reward
       /\ r.alt = alt1 /\ r.teacherMask = l.teacherMask
       /\ r.studentMask = mask1
  BY <1>1, <1>4 DEF ListsType
<1>11. r \in ListsType
  <2>1. ids1 \in Seq(TokenType)
    BY <1>5 DEF Marks
  <2> QED BY <1>1, <1>4, <1>6, <1>7, <2>1 DEF ListsType
<1>12. Marks(r.ids, r.mask) /\ Len(r.reward) = Len(r.mask)
  BY <1>5, <1>10 DEF Good
<1>13. ASSUME Supervised
       PROVE  Len(r.teacherMask) = Len(r.mask) /\ Len(r.alt) = Len(r.studentMask)
  <2>1. Len(r.teacherMask) = Len(r.mask)
    BY <1>10, <1>13 DEF Good
  <2>2. Len(alt) = x + n /\ Len(mask) = x + n /\ 2 <= x + n
    <3>1. 2 <= x + n
      BY <1>1
    <3> QED BY <1>3, <1>13, <3>1
  <2>3. Len(alt1) = (x + n) - 2 /\ Len(mask1) = (x + n) - 2
    BY <1>6, <1>8, <1>13, <2>2
  <2> QED BY <1>10, <2>1, <2>3
<1>14. ASSUME ~Supervised PROVE Len(r.studentMask) = Len(r.mask)
  BY <1>9, <1>10, <1>14 DEF Good
<1>15. ASSUME ~Supervised PROVE TextsLeftOut \/ Len(r.alt) = Len(r.teacherMask)
  <2>1. TextsLeftOut \/ x = 2 + Len(l.teacherMask)
    BY <1>15 DEF Good, x
  <2>2. CASE x = 2 + Len(l.teacherMask)
    <3> DEFINE y == Len(l.teacherMask)
    <3>1. y \in Nat
      BY <1>1, ListsAre
    <3>2. Len(alt1) = x - 2
      BY <1>1, <1>6, <1>9, <1>15 DEF x
    <3>3. x = 2 + y
      BY <2>2
    <3> HIDE DEF y
    <3>4. x - 2 = y
      BY <3>1, <3>3
    <3> QED BY <1>10, <3>2, <3>4 DEF y
  <2> QED BY <2>1, <2>2
<1>16. Returnable(r)
  BY <1>11, <1>12, <1>13, <1>14, <1>15 DEF Returnable
<1> QED BY <1>16 DEF r

LEMMA JoiningGood ==
  ASSUME Good(out), Supervised => Len(out.alt) = 2 + Len(out.studentMask),
         NEW r, Returnable(r)
  PROVE  /\ Good(Joining(out, r))
         /\ Supervised => Len(Joining(out, r).alt) = 2 + Len(Joining(out, r).studentMask)
<1> DEFINE new == Joining(out, r)
<1>1. out \in ListsType /\ r \in ListsType
  BY DEF Good, Returnable
<1>2. /\ new = [out EXCEPT !.ids = out.ids \o r.ids, !.mask = out.mask \o r.mask,
                           !.reward = out.reward \o r.reward, !.alt = out.alt \o r.alt,
                           !.teacherMask = out.teacherMask \o r.teacherMask,
                           !.studentMask = out.studentMask \o r.studentMask]
  BY DEF Joining
<1> HIDE DEF new
<1>3. /\ new.ids = out.ids \o r.ids /\ new.mask = out.mask \o r.mask
      /\ new.reward = out.reward \o r.reward /\ new.alt = out.alt \o r.alt
      /\ new.teacherMask = out.teacherMask \o r.teacherMask
      /\ new.studentMask = out.studentMask \o r.studentMask
  BY <1>1, <1>2 DEF ListsType
<1>4. Followed(new.ids, new.mask)
  BY <1>3, FollowedOn DEF Good, Returnable
<1>5. /\ out.mask \o r.mask \in Seq(Bits)
      /\ Len(out.mask \o r.mask) = Len(out.mask) + Len(r.mask)
  BY <1>1, ListsAre, AppendIs
<1>6. /\ out.reward \o r.reward \in Seq(Int)
      /\ Len(out.reward \o r.reward) = Len(out.reward) + Len(r.reward)
  BY <1>1, ListsAre, AppendIs
<1>7. /\ out.alt \o r.alt \in Seq(TokenType)
      /\ Len(out.alt \o r.alt) = Len(out.alt) + Len(r.alt)
  BY <1>1, ListsAre, AppendIs
<1>8. /\ out.teacherMask \o r.teacherMask \in Seq(Bits)
      /\ Len(out.teacherMask \o r.teacherMask) = Len(out.teacherMask) + Len(r.teacherMask)
  BY <1>1, ListsAre, AppendIs
<1>9. /\ out.studentMask \o r.studentMask \in Seq(Bits)
      /\ Len(out.studentMask \o r.studentMask) = Len(out.studentMask) + Len(r.studentMask)
  BY <1>1, ListsAre, AppendIs
<1>10. new \in ListsType
  <2>1. out.ids \o r.ids \in Seq(TokenType)
    BY <1>3, <1>4 DEF Followed
  <2> QED BY <1>1, <1>2, <1>5, <1>6, <1>7, <1>8, <1>9, <2>1 DEF ListsType
<1>11. Len(new.reward) = Len(new.mask)
  <2>1. Len(out.reward) = Len(out.mask) /\ Len(r.reward) = Len(r.mask)
    BY DEF Good, Returnable
  <2> QED BY <1>3, <1>5, <1>6, <2>1
<1>12. ASSUME Supervised
       PROVE  /\ Len(new.teacherMask) = Len(new.mask)
              /\ Len(new.alt) = 2 + Len(new.studentMask)
  <2>1. Len(out.teacherMask) = Len(out.mask) /\ Len(r.teacherMask) = Len(r.mask)
    BY <1>12 DEF Good, Returnable
  <2> DEFINE a == Len(out.studentMask)
             b == Len(r.studentMask)
  <2>2. /\ a \in Nat /\ b \in Nat
        /\ Len(new.alt) = (2 + a) + b /\ Len(new.studentMask) = a + b
    <3>1. Len(out.alt) = 2 + a /\ Len(r.alt) = b
      BY <1>12 DEF Returnable
    <3>2. a \in Nat /\ b \in Nat
      BY <1>1, ListsAre
    <3> QED BY <1>3, <1>7, <1>9, <3>1, <3>2
  <2> HIDE DEF a, b
  <2>3. (2 + a) + b = 2 + (a + b)
    BY <2>2
  <2> QED BY <1>3, <1>5, <1>8, <2>1, <2>2, <2>3
<1>13. ASSUME ~Supervised PROVE Len(new.studentMask) = Len(new.mask)
  <2>1. Len(out.studentMask) = Len(out.mask)
    BY <1>13 DEF Good
  <2>2. Len(r.studentMask) = Len(r.mask)
    BY <1>13 DEF Returnable
  <2> QED BY <1>3, <1>5, <1>9, <2>1, <2>2
<1>14. ASSUME ~Supervised, ~TextsLeftOut PROVE Len(new.alt) = 2 + Len(new.teacherMask)
  <2> DEFINE a == Len(out.teacherMask)
             b == Len(r.teacherMask)
  <2>1. Len(out.alt) = 2 + a /\ Len(r.alt) = b
    BY <1>14 DEF Good, Returnable
  <2>2. a \in Nat /\ b \in Nat
    BY <1>1, ListsAre
  <2>3. Len(new.alt) = (2 + a) + b /\ Len(new.teacherMask) = a + b
    BY <1>3, <1>7, <1>8, <2>1
  <2> HIDE DEF a, b
  <2>4. (2 + a) + b = 2 + (a + b)
    BY <2>2
  <2> QED BY <2>3, <2>4
<1>15. Good(new)
  BY <1>4, <1>10, <1>11, <1>12, <1>13, <1>14 DEF Good
<1> QED BY <1>12, <1>15 DEF new

LEMMA SummarizeKeeps ==
  ASSUME IInv, NEW n \in Lengths, NEW k \in Lengths, Summarize(n, k)
  PROVE  IInv'
<1> DEFINE a == Text("value prompt", 0, 1)
           b == Text("summary", 0, n)
           c == Text("move prompt", 0, 1)
           d == Text("answer", 0, k)
           p == <<a, b, c, d>>
           lists == Summarized(p)
           r == Returned(lists, b)
<1>1. /\ pc = "summarize" /\ out' = Joining(out, r) /\ plan' = NoLists /\ pc' = "act"
      /\ UNCHANGED <<config, step, turn, running, todo, granted, output>>
  BY DEF Summarize, Parts
<1>2. /\ Counted /\ config \in ConfigType /\ Good(out)
      /\ Supervised => Len(out.alt) = 2 + Len(out.studentMask)
      /\ Good(plan) /\ Placed(plan)
  BY <1>1, Holding DEF Planning
<1>3. IsInference(p)
  <2>1. n \in Nat /\ k \in Nat /\ 0 \in 0..MaxTraj
    BY ConfigAssumption
  <2>2. "summary" \in Generated /\ "answer" \in Generated
    BY DEF Generated
  <2>3. IsInference(Parts("summary", "answer", 0, n, k))
    BY <1>2, <2>1, <2>2, PartsAre
  <2> QED BY <2>3 DEF Parts
<1>4. b \in Seq(TokenType)
  BY <1>3 DEF IsInference, Marks
<1> HIDE DEF a, b, c, d
<1>5. Good(lists) /\ Placed(lists)
  BY <1>2, <1>3, SummarizedGood
<1> HIDE DEF p, lists
<1>6. Returnable(r)
  BY <1>4, <1>5, ReturnedGood
<1> HIDE DEF r
<1>7. Good(out') /\ (Supervised => Len(out'.alt) = 2 + Len(out'.studentMask))
  BY <1>1, <1>2, <1>6, JoiningGood
<1>8. TypeOK'
  <2>1. plan' \in ListsType
    BY <1>1, NoListsAre
  <2>2. out' \in ListsType
    BY <1>7 DEF Good
  <2> QED BY <1>1, <2>1, <2>2, SameTypes DEF IInv, TypeOK
<1>9. CountersOK'
  BY <1>1 DEF IInv, CountersOK
<1>10. MaskMarksModelText' /\ ~Planning'
  BY <1>1 DEF MaskMarksModelText, Planning
<1> QED BY <1>1, <1>7, <1>8, <1>9, <1>10, Preserved

-----------------------------------------------------------------------------
(* The steps of the game.                                                  *)

(* The rewards are other than Told's, in the same number.                  *)
LEMMA RewardedGood ==
  ASSUME NEW l, Good(l), NEW s \in Seq(Int), Len(s) = Len(l.reward)
  PROVE  /\ Good([l EXCEPT !.reward = s])
         /\ [l EXCEPT !.reward = s].alt = l.alt
         /\ [l EXCEPT !.reward = s].studentMask = l.studentMask
<1> DEFINE new == [l EXCEPT !.reward = s]
<1>1. l \in ListsType
  BY DEF Good
<1>2. /\ new \in ListsType
      /\ new.ids = l.ids /\ new.mask = l.mask /\ new.reward = s
      /\ new.alt = l.alt /\ new.teacherMask = l.teacherMask
      /\ new.studentMask = l.studentMask
  BY <1>1 DEF ListsType
<1> HIDE DEF new
<1>3. Good(new)
  BY <1>2 DEF Good
<1> QED BY <1>2, <1>3 DEF new

LEMMA ToldOutKeeps ==
  ASSUME NEW l, Good(l), Supervised => Len(l.alt) = 2 + Len(l.studentMask),
         NEW text, Marks(text, Zeros(Len(text)))
  PROVE  /\ Good(Told(l, text))
         /\ Supervised => Len(Told(l, text).alt) = 2 + Len(Told(l, text).studentMask)
         /\ Len(Told(l, text).reward) = Len(l.reward) + Len(text)
<1> DEFINE new == Told(l, text)
           a == Len(l.studentMask)
           b == Len(text)
<1>1. l \in ListsType /\ text \in Seq(TokenType)
  BY DEF Good, Marks
<1>2. /\ Len(new.reward) = Len(l.reward) + b
      /\ Len(new.alt) = Len(l.alt) + b
      /\ Len(new.studentMask) = a + b
      /\ a \in Nat /\ b \in Nat
  BY <1>1, ToldAre, ListsAre, LenProperties
<1>3. ASSUME Supervised PROVE Len(new.alt) = (2 + a) + b
  BY <1>2, <1>3
<1> HIDE DEF a, b, new
<1>4. (2 + a) + b = 2 + (a + b)
  BY <1>2
<1>5. Good(new)
  BY ToldKeeps DEF new
<1> QED BY <1>2, <1>3, <1>4, <1>5 DEF new, b

(* What is left to show of a step of the game.                             *)
LEMMA GameKeeps ==
  ASSUME IInv, pc = "act", pc' \in {"return", "plan"}, Good(out'),
         Supervised => Len(out'.alt) = 2 + Len(out'.studentMask),
         step' \in 0..(config.steps + 1),
         pc' # "return" => step' <= config.steps,
         granted' \in Int,
         UNCHANGED <<config, turn, running, todo, plan, output>>
  PROVE  IInv'
<1>1. out' \in ListsType
  BY DEF Good
<1>2. TypeOK'
  BY <1>1, SameTypes DEF IInv, TypeOK
<1>3. CountersOK'
  BY DEF IInv, CountersOK
<1>4. MaskMarksModelText' /\ ~Planning'
  BY DEF MaskMarksModelText, Planning
<1> QED BY <1>2, <1>3, <1>4, Preserved

LEMMA AnotherText ==
  ASSUME Counted, NEW what \in {"state", "end"}
  PROVE  LET text == Text(what, 0, 1)
         IN  text \in Seq(TokenType) /\ Marks(text, Zeros(Len(text)))
<1>1. "state" \in Kinds \ Generated /\ "end" \in Kinds \ Generated
  BY DEF Kinds, Generated
<1>2. what \in Kinds \ Generated /\ 0 \in 0..MaxTraj
  BY <1>1, ConfigAssumption
<1> QED BY <1>2, OneMore

LEMMA EndWithKeeps ==
  ASSUME IInv, pc = "act", NEW r \in Int, EndWith(r),
         step' \in 0..(config.steps + 1)
  PROVE  IInv'
<1> DEFINE text == Text("end", 0, 1)
           told == Told(out, text)
           s == Rewarded(r, text)
<1>1. /\ out' = [told EXCEPT !.reward = s]
      /\ granted' = granted + r /\ pc' = "return"
      /\ UNCHANGED <<config, turn, running, todo, plan, output>>
  BY DEF EndWith
<1>2. /\ Counted /\ Good(out)
      /\ Supervised => Len(out.alt) = 2 + Len(out.studentMask)
  BY Holding
<1>3. text \in Seq(TokenType) /\ Marks(text, Zeros(Len(text)))
  BY <1>2, AnotherText
<1> HIDE DEF text
<1>4. /\ Good(told)
      /\ Supervised => Len(told.alt) = 2 + Len(told.studentMask)
      /\ Len(told.reward) = Len(out.reward) + Len(text)
  BY <1>2, <1>3, ToldOutKeeps
<1>5. s \in Seq(Int) /\ Len(s) = Len(out.reward) + Len(text)
  <2> DEFINE z == Zeros(Len(text))
  <2>1. out.reward \in Seq(Int)
    BY <1>2 DEF Good, ListsType
  <2>2. z \in Seq(Int) /\ Len(z) = Len(text)
    BY <1>3, LenProperties, ZerosAre
  <2>3. s = IF config.readjust THEN AddToLast(out.reward, r) \o z
                               ELSE AddToLast(out.reward \o z, r)
    BY DEF Rewarded
  <2> HIDE DEF z, s
  <2>4. /\ AddToLast(out.reward, r) \in Seq(Int)
        /\ Len(AddToLast(out.reward, r)) = Len(out.reward)
    BY <2>1, AddedToLast
  <2>5. /\ AddToLast(out.reward, r) \o z \in Seq(Int)
        /\ Len(AddToLast(out.reward, r) \o z) = Len(AddToLast(out.reward, r)) + Len(z)
    BY <2>2, <2>4, AppendIs
  <2>6. out.reward \o z \in Seq(Int) /\ Len(out.reward \o z) = Len(out.reward) + Len(z)
    BY <2>1, <2>2, AppendIs
  <2>7. /\ AddToLast(out.reward \o z, r) \in Seq(Int)
        /\ Len(AddToLast(out.reward \o z, r)) = Len(out.reward \o z)
    BY <2>6, AddedToLast
  <2> QED BY <2>2, <2>3, <2>4, <2>5, <2>6, <2>7
<1> HIDE DEF told, s
<1>6. /\ Good(out')
      /\ Supervised => Len(out'.alt) = 2 + Len(out'.studentMask)
  BY <1>1, <1>4, <1>5, RewardedGood
<1>7. granted' \in Int
  BY <1>1 DEF IInv, TypeOK
<1> QED BY <1>1, <1>6, <1>7, GameKeeps

LEMMA NoActionKeeps == ASSUME IInv, NoAction PROVE IInv'
<1>1. pc = "act" /\ EndWith(-2) /\ step' = step /\ -2 \in Int
  BY DEF NoAction
<1>2. step' \in 0..(config.steps + 1)
  BY <1>1 DEF IInv, TypeOK
<1> HIDE DEF NoAction
<1> QED BY <1>1, <1>2, EndWithKeeps

LEMMA LastMoveKeeps ==
  ASSUME IInv, NEW r \in {0, 1}, LastMove(r)
  PROVE  IInv'
<1>1. pc = "act" /\ EndWith(r) /\ step' = step + 1 /\ r \in Int
  BY DEF LastMove
<1>2. config.steps \in Nat
  BY Holding DEF ConfigType
<1>3. step' \in 0..(config.steps + 1)
  BY <1>1, <1>2 DEF IInv, TypeOK, CountersOK
<1> QED BY <1>1, <1>3, EndWithKeeps

LEMMA MoveKeeps ==
  ASSUME IInv, NEW r \in {0, 1}, Move(r)
  PROVE  IInv'
<1> DEFINE text == Text("state", 0, 1)
           s == AddToLast(out.reward, r)
           rewarded == [out EXCEPT !.reward = s]
<1>1. /\ pc = "act" /\ step' = step + 1 /\ step + 1 <= config.steps
      /\ out' = Told(rewarded, text)
      /\ granted' = granted + r /\ pc' = "plan" /\ r \in Int
      /\ UNCHANGED <<config, turn, running, todo, plan, output>>
  BY DEF Move, MayGoOn
<1>2. /\ Counted /\ Good(out) /\ config.steps \in Nat
      /\ Supervised => Len(out.alt) = 2 + Len(out.studentMask)
  BY Holding DEF ConfigType
<1>3. text \in Seq(TokenType) /\ Marks(text, Zeros(Len(text)))
  BY <1>2, AnotherText
<1> HIDE DEF text
<1>4. s \in Seq(Int) /\ Len(s) = Len(out.reward)
  <2>1. out.reward \in Seq(Int)
    BY <1>2 DEF Good, ListsType
  <2> QED BY <1>1, <2>1, AddedToLast
<1> HIDE DEF s
<1>5. /\ Good(rewarded)
      /\ rewarded.alt = out.alt /\ rewarded.studentMask = out.studentMask
  BY <1>2, <1>4, RewardedGood
<1> HIDE DEF rewarded
<1>6. /\ Good(out')
      /\ Supervised => Len(out'.alt) = 2 + Len(out'.studentMask)
  BY <1>1, <1>2, <1>3, <1>5, ToldOutKeeps
<1>7. /\ step' \in 0..(config.steps + 1) /\ step' <= config.steps
      /\ granted' \in Int
  BY <1>1, <1>2 DEF IInv, TypeOK
<1> QED BY <1>1, <1>6, <1>7, GameKeeps

(* Padding a mask to the length of its tokens.                             *)
LEMMA PaddedAre ==
  ASSUME NEW m \in Seq(Bits), NEW s \in Seq(TokenType)
  PROVE  /\ Padded(m, s) \in Seq(0..2)
         /\ Len(Padded(m, s)) = Len(s)
         /\ \A k \in 1..Len(s) : k <= Len(m) => Padded(m, s)[k] = m[k]
<1> DEFINE n == Len(s)
           entry(k) == IF k <= Len(m) THEN m[k] ELSE 2
<1>1. n \in Nat /\ Len(m) \in Nat
  BY LenProperties
<1>2. \A k \in 1..n : entry(k) \in 0..2
  <2>1. \A k \in 1..Len(m) : m[k] \in {0, 1}
    BY ElementOfSeq DEF Bits
  <2> QED BY <1>1, <2>1
<1>3. Padded(m, s) = [k \in 1..n |-> entry(k)]
  BY DEF Padded
<1> HIDE DEF n
<1>4. [k \in 1..n |-> entry(k)] \in Seq(0..2)
  <2> HIDE DEF entry
  <2> QED BY <1>1, <1>2, IsASeq
<1>5. Len([k \in 1..n |-> entry(k)]) = n
  BY <1>1
<1>6. \A k \in 1..n : k <= Len(m) => [j \in 1..n |-> entry(j)][k] = m[k]
  OBVIOUS
<1> QED BY <1>3, <1>4, <1>5, <1>6 DEF n

(* Tokens and mask are cut at the same place.                              *)
LEMMA MarksCut ==
  ASSUME NEW s, NEW m, Marks(s, m), NEW n \in Nat
  PROVE  Marks(FirstOf(s, n), FirstOf(m, n))
<1> DEFINE t == FirstOf(s, n)
           z == FirstOf(m, n)
<1>1. /\ s \in Seq(TokenType) /\ m \in Seq(Bits) /\ Len(m) = Len(s)
      /\ Len(s) \in Nat
      /\ \A k \in 1..Len(s) : m[k] = Bit(s[k])
  BY LenProperties DEF Marks
<1>2. /\ t \in Seq(TokenType) /\ Len(t) = IF n < Len(s) THEN n ELSE Len(s)
      /\ \A k \in 1..Len(t) : t[k] = s[k]
  BY <1>1, FirstAre
<1>3. /\ z \in Seq(Bits) /\ Len(z) = IF n < Len(m) THEN n ELSE Len(m)
      /\ \A k \in 1..Len(z) : z[k] = m[k]
  BY <1>1, FirstAre
<1> HIDE DEF t, z
<1>4. Len(z) = Len(t) /\ \A k \in 1..Len(t) : k \in 1..Len(s)
  BY <1>1, <1>2, <1>3
<1>5. \A k \in 1..Len(t) : z[k] = Bit(t[k])
  BY <1>1, <1>2, <1>3, <1>4
<1> QED BY <1>2, <1>3, <1>4, <1>5 DEF Marks, t, z

LEMMA ReturnKeeps == ASSUME IInv, Return PROVE IInv'
<1> DEFINE Cut(s) == FirstOf(s, config.length)
           response == Cut(LastOf(out.ids, Len(out.mask)))
           mask == Cut(out.mask)
           other == Cut(LastOf(out.alt, IF Supervised THEN Len(out.studentMask)
                                                      ELSE Len(out.teacherMask)))
           student == IF Supervised THEN other ELSE response
           teacher == IF Supervised THEN response ELSE other
<1>1. /\ pc = "return" /\ pc' = "done"
      /\ output' = [response |-> response,
                    mask |-> Padded(mask, response),
                    reward |-> Cut(out.reward),
                    student |-> student,
                    studentMask |-> Padded(Cut(out.studentMask), student),
                    teacher |-> teacher,
                    teacherMask |-> Padded(Cut(out.teacherMask), teacher)]
      /\ UNCHANGED <<config, step, turn, running, todo, plan, out, granted>>
  BY DEF Return
<1>2. /\ Counted /\ Good(out) /\ out \in ListsType /\ config.length \in Nat
      /\ Supervised => Len(out.alt) = 2 + Len(out.studentMask)
  BY Holding DEF ConfigType, Good
<1>3. Marks(response, mask)
  <2>1. Marks(LastOf(out.ids, Len(out.mask)), out.mask)
    BY <1>2, PromptDropped DEF Good
  <2> QED BY <1>2, <2>1, MarksCut
<1>4. Cut(out.reward) \in Seq(Int)
  BY <1>2, ListsAre, FirstAre
<1>5. Cut(out.studentMask) \in Seq(Bits) /\ Cut(out.teacherMask) \in Seq(Bits)
  BY <1>2, ListsAre, FirstAre
<1>6. other \in Seq(TokenType)
  <2> DEFINE n == IF Supervised THEN Len(out.studentMask) ELSE Len(out.teacherMask)
  <2>1. out.alt \in Seq(TokenType) /\ n \in Int
    BY <1>2, ListsAre
  <2> HIDE DEF n
  <2>2. LastOf(out.alt, n) \in Seq(TokenType)
    BY <2>1, LastAre
  <2> QED BY <1>2, <2>2, FirstAre DEF n
<1> HIDE DEF response, mask, other
<1>7. response \in Seq(TokenType) /\ mask \in Seq(Bits) /\ Len(mask) = Len(response)
  BY <1>3 DEF Marks
<1>8. student \in Seq(TokenType) /\ teacher \in Seq(TokenType)
  BY <1>6, <1>7
<1> HIDE DEF Cut, student, teacher
<1>9. /\ Padded(mask, response) \in Seq(0..2)
      /\ Padded(Cut(out.studentMask), student) \in Seq(0..2)
      /\ Padded(Cut(out.teacherMask), teacher) \in Seq(0..2)
  BY <1>5, <1>7, <1>8, PaddedAre
<1>10. output' \in OutputType
  BY <1>1, <1>4, <1>7, <1>8, <1>9 DEF OutputType
<1>11. TypeOK'
  BY <1>1, <1>10, SameTypes DEF IInv, TypeOK
<1>12. CountersOK' /\ ~Planning'
  BY <1>1 DEF IInv, CountersOK, Planning
<1>13. MaskMarksModelText'
  <2>1. output'.mask = Padded(mask, response) /\ output'.response = response
    BY <1>1
  <2>2. /\ Len(Padded(mask, response)) = Len(response)
        /\ \A k \in 1..Len(response) :
              k <= Len(mask) => Padded(mask, response)[k] = mask[k]
    BY <1>7, PaddedAre
  <2>3. \A k \in 1..Len(response) : k <= Len(mask) /\ mask[k] = Bit(response[k])
    <3>1. Len(response) \in Nat
      BY <1>7, LenProperties
    <3> QED BY <1>3, <1>7, <3>1 DEF Marks
  <2> QED BY <2>1, <2>2, <2>3 DEF MaskMarksModelText, Bit
<1> QED BY <1>1, <1>2, <1>11, <1>12, <1>13, Preserved

-----------------------------------------------------------------------------
LEMMA Starts == Init => IInv
<1> SUFFICES ASSUME Init PROVE IInv
  OBVIOUS
<1>1. /\ pc = "plan" /\ step = 0 /\ turn = 0 /\ running = {} /\ todo = {}
      /\ plan = NoLists /\ granted = 0 /\ output = <<>> /\ config \in Configs
      /\ out = [NoLists EXCEPT !.ids = SystemPrompt, !.alt = SystemPrompt]
  BY DEF Init
<1>2. Counted /\ config.steps \in Nat /\ config.horizon \in Nat
  BY <1>1, ConfigAssumption DEF Counted, ConfigType
<1>3. SystemPrompt \in Seq(TokenType)
  BY <1>2, PromptIs
<1>4. out \in ListsType /\ plan \in ListsType
  BY <1>1, <1>3, NoListsAre DEF ListsType
<1>5. /\ out.ids = SystemPrompt /\ out.alt = SystemPrompt
      /\ out.mask = <<>> /\ out.reward = <<>>
      /\ out.teacherMask = <<>> /\ out.studentMask = <<>>
  BY <1>1 DEF NoLists
<1>6. Len(SystemPrompt) = Len(SystemPrompt) + Len(<<>>)
  BY PromptLength, EmptySeq
<1>7. Aligned(out)
  BY <1>5, <1>6 DEF Aligned
<1>8. Marked(out)
  BY <1>5, EmptySeq DEF Marked
<1>9. StreamsInStep
  BY <1>1, <1>5, <1>6, <1>7 DEF StreamsInStep, Planning
<1>10. TypeOK
  BY <1>1, <1>2, <1>4 DEF TypeOK
<1>11. CountersOK /\ HoleOK /\ MaskMarksModelText /\ ~Planning
  BY <1>1, <1>2 DEF CountersOK, HoleOK, MaskMarksModelText, Planning
<1> QED BY <1>8, <1>9, <1>10, <1>11 DEF IInv

LEMMA StepKeeps == IInv /\ [Next]_vars => IInv'
<1> SUFFICES ASSUME IInv, [Next]_vars PROVE IInv'
  OBVIOUS
<1>1. CASE StartPlan
  BY <1>1, StartPlanKeeps
<1>2. CASE \E n, k \in Lengths, found \in 0..MaxTraj : Expand(n, k, found)
  BY <1>2, ExpandKeeps
<1>3. CASE \E i \in todo, n \in Lengths : Simulate(i, n)
  BY <1>3, SimulateKeeps
<1>4. CASE \E over \in SUBSET running : Execute(over)
  BY <1>4, ExecuteKeeps
<1>5. CASE \E n, k \in Lengths : Summarize(n, k)
  BY <1>5, SummarizeKeeps
<1>6. CASE NoAction
  BY <1>6, NoActionKeeps
<1>7. CASE \E r \in {0, 1} : LastMove(r) \/ Move(r)
  BY <1>7, LastMoveKeeps, MoveKeeps
<1>8. CASE Return
  BY <1>8, ReturnKeeps
<1>9. CASE UNCHANGED vars
  <2>1. TypeOK /\ StreamsInStep /\ CountersOK /\ HoleOK /\ MaskMarksModelText
    BY DEF IInv
  <2>2. TypeOK'
    BY <1>9, <2>1 DEF vars, TypeOK, ListsType, OutputType, TokenType
  <2>3. StreamsInStep'
    BY <1>9, <2>1 DEF vars, StreamsInStep, Aligned, Planning, Supervised, TextsLeftOut,
                      SystemPrompt, Text
  <2>4. SystemPrompt' = SystemPrompt
    BY <1>9 DEF vars, SystemPrompt, Text
  <2>5. /\ config' = config /\ pc' = pc /\ step' = step /\ turn' = turn /\ todo' = todo
        /\ plan' = plan /\ out' = out /\ output' = output
    BY <1>9 DEF vars
  <2>6. CountersOK' = CountersOK /\ Planning' = Planning
    BY ONLY <2>5, Zenon DEF CountersOK, Planning
  <2>7. HoleOK' = HoleOK /\ Marked(out)' = Marked(out) /\ Marked(plan)' = Marked(plan)
    BY ONLY <2>4, <2>5, <2>6, Zenon DEF HoleOK, Marked
  <2>8. MaskMarksModelText'
    BY <2>1, <2>5 DEF MaskMarksModelText
  <2> QED BY <2>1, <2>2, <2>3, <2>6, <2>7, <2>8 DEF IInv
<1> QED BY <1>1, <1>2, <1>3, <1>4, <1>5, <1>6, <1>7, <1>8, <1>9 DEF Next

(* The strengthening of the properties below holds at every moment.        *)
THEOREM Invariance == Spec => []IInv
BY Starts, StepKeeps, PTL DEF Spec

(* At most max_steps + 1 moves and, in a plan, max_plan_horizon turns; all *)
(* lists hold tokens, bits and rewards (run_lpm, run_parallel_planning).   *)
THEOREM TypeCorrect == Spec => []TypeOK
<1>1. IInv => TypeOK
  BY DEF IInv
<1> QED BY <1>1, Invariance, PTL

(* Tokens, mask and rewards are in step in the planner and in the episode, *)
(* and so are the masks of student and teacher with the version they are   *)
(* about, for any texts, trajectories and horizon.                         *)
THEOREM ListsStayInStep == Spec => []StreamsInStep
<1>1. IInv => StreamsInStep
  BY DEF IInv
<1> QED BY <1>1, Invariance, PTL

(* The mask of the response, which AgentLoopOutput cuts by itself, is 1 on *)
(* the tokens the model wrote and 0 on all others.                         *)
THEOREM TrainsOnModelText == Spec => []MaskMarksModelText
<1>1. IInv => MaskMarksModelText
  BY DEF IInv
<1> QED BY <1>1, Invariance, PTL

-----------------------------------------------------------------------------
(* The rewards.                                                            *)

AllZero(s) == \A k \in 1..Len(s) : s[k] = 0

\* Rewards are on tokens of the model only.
OnModel(r, m) == Len(r) = Len(m) /\ \A k \in 1..Len(r) : r[k] # 0 => m[k] = 1

LEMMA SumAllZero == ASSUME NEW s \in Seq(Int), AllZero(s) PROVE Sum(s) = 0
<1>1. PICK n \in Nat : n = Len(s)
  BY LenProperties
<1>2. s = Zeros(n)
  <2>1. s \in [1 .. n -> Int]
    BY <1>1, LenProperties
  <2> QED BY <1>1, <2>1 DEF AllZero, Zeros
<1> QED BY ONLY <1>2, n \in Nat, SumZeros

LEMMA AllZeroJoined ==
  ASSUME NEW s \in Seq(Int), AllZero(s), NEW t \in Seq(Int), AllZero(t)
  PROVE  s \o t \in Seq(Int) /\ AllZero(s \o t)
<1>1. PICK m \in Nat, n \in Nat : m = Len(s) /\ n = Len(t)
  BY LenProperties
<1>2. /\ s \o t \in Seq(Int) /\ Len(s \o t) = m + n
      /\ \A k \in 1 .. m + n : (s \o t)[k] = IF k <= m THEN s[k] ELSE t[k - m]
  BY <1>1, ConcatProperties
<1>3. ASSUME NEW k \in 1 .. m + n PROVE (s \o t)[k] = 0
  <2>1. CASE k <= m
    <3>1. s[k] = 0
      BY <1>1, <2>1 DEF AllZero
    <3> QED BY <1>2, <2>1, <3>1
  <2>2. CASE ~(k <= m)
    <3>1. k - m \in 1 .. n
      BY <2>2
    <3>2. t[k - m] = 0
      BY <1>1, <3>1 DEF AllZero
    <3> QED BY <1>2, <2>2, <3>2
  <2> QED BY <2>1, <2>2
<1> QED BY <1>2, <1>3 DEF AllZero

LEMMA ZerosOn ==
  ASSUME NEW s \in Seq(Int), AllZero(s), NEW n \in Nat
  PROVE  s \o Zeros(n) \in Seq(Int) /\ AllZero(s \o Zeros(n))
<1>1. PICK z : z = Zeros(n)
  OBVIOUS
<1>2. z \in Seq(Int) /\ AllZero(z)
  BY <1>1, ZerosAre DEF AllZero
<1> QED BY ONLY <1>1, <1>2, s \in Seq(Int), AllZero(s), AllZeroJoined

LEMMA OnModelOn ==
  ASSUME NEW r \in Seq(Int), NEW m \in Seq(Bits), OnModel(r, m),
         NEW a \in Seq(Int), AllZero(a), NEW b \in Seq(Bits), Len(a) = Len(b)
  PROVE  OnModel(r \o a, m \o b)
<1>1. PICK j \in Nat, n \in Nat : j = Len(r) /\ n = Len(a)
  BY LenProperties
<1>2. Len(m) = j /\ Len(b) = n
  BY <1>1 DEF OnModel
<1>3. /\ Len(r \o a) = j + n
      /\ \A k \in 1 .. j + n : (r \o a)[k] = IF k <= j THEN r[k] ELSE a[k - j]
  BY ONLY <1>1, r \in Seq(Int), a \in Seq(Int), ConcatProperties
<1>4. /\ Len(m \o b) = j + n
      /\ \A k \in 1 .. j + n : (m \o b)[k] = IF k <= j THEN m[k] ELSE b[k - j]
  BY ONLY <1>2, m \in Seq(Bits), b \in Seq(Bits), ConcatProperties
<1>5. ASSUME NEW k \in 1 .. j + n, (r \o a)[k] # 0 PROVE (m \o b)[k] = 1
  <2>1. CASE k <= j
    <3>1. r[k] # 0
      BY <1>3, <1>5, <2>1
    <3>2. m[k] = 1
      BY <1>1, <2>1, <3>1 DEF OnModel
    <3> QED BY <1>4, <2>1, <3>2
  <2>2. CASE ~(k <= j)
    <3>1. k - j \in 1 .. n
      BY <2>2
    <3>2. a[k - j] = 0
      BY <1>1, <3>1 DEF AllZero
    <3> QED BY <1>3, <1>5, <2>2, <3>2
  <2> QED BY <2>1, <2>2
<1> QED BY <1>3, <1>4, <1>5 DEF OnModel

\* The last token is the model's.
EndsWithModel(m) == m # <<>> /\ m[Len(m)] = 1

LEMMA EndsWithLast ==
  ASSUME NEW s \in Seq(Bits), NEW t \in Seq(Bits), EndsWithModel(t)
  PROVE  EndsWithModel(s \o t)
<1>1. PICK m \in Nat, n \in Nat : m = Len(s) /\ n = Len(t)
  BY LenProperties
<1>2. n # 0
  BY <1>1, EmptySeq DEF EndsWithModel
<1>3. /\ Len(s \o t) = m + n
      /\ \A k \in 1 .. m + n : (s \o t)[k] = IF k <= m THEN s[k] ELSE t[k - m]
  BY <1>1, ConcatProperties
<1>4. m + n \in 1 .. m + n /\ ~(m + n <= m) /\ (m + n) - m = n
  BY <1>2
<1>5. (s \o t)[m + n] = 1
  BY <1>1, <1>3, <1>4 DEF EndsWithModel
<1>6. s \o t # <<>>
  <2>1. Len(s \o t) # 0
    BY <1>2, <1>3
  <2> QED BY <2>1
<1> QED BY <1>3, <1>5, <1>6 DEF EndsWithModel

\* A reward on the last token, which the model wrote.
LEMMA RewardOnModel ==
  ASSUME NEW r \in Seq(Int), NEW m \in Seq(Bits), Len(r) = Len(m), EndsWithModel(m), NEW x \in Int
  PROVE  /\ Len(r) > 0
         /\ AddToLast(r, x) \in Seq(Int) /\ Sum(AddToLast(r, x)) = Sum(r) + x
         /\ OnModel(r, m) => OnModel(AddToLast(r, x), m)
<1>1. PICK n \in Nat : n = Len(r) /\ n = Len(m)
  BY LenProperties
<1>2. n # 0
  BY <1>1, EmptySeq DEF EndsWithModel
<1>3. Len(r) > 0
  BY <1>1, <1>2
<1>4. PICK s : s = AddToLast(r, x)
  OBVIOUS
<1>5. s \in Seq(Int) /\ Len(s) = n /\ Sum(s) = Sum(r) + x
  BY ONLY <1>1, <1>3, <1>4, r \in Seq(Int), x \in Int, SumAddToLast
<1>6. \A k \in 1 .. n : k # n => s[k] = r[k]
  <2>1. r \in [1 .. n -> Int]
    BY <1>1, LenProperties
  <2> QED BY ONLY <1>1, <1>4, <2>1, n \in Nat DEF AddToLast
<1>7. m[n] = 1
  BY <1>1 DEF EndsWithModel
<1>8. ASSUME OnModel(r, m) PROVE OnModel(s, m)
  <2>1. \A k \in 1 .. n : r[k] # 0 => m[k] = 1
    BY <1>1, <1>8 DEF OnModel
  <2> QED BY ONLY <1>1, <1>5, <1>6, <1>7, <2>1 DEF OnModel
<1> QED BY <1>3, <1>4, <1>5, <1>8

LEMMA ToldReward ==
  ASSUME NEW l \in ListsType, NEW text \in Seq(TokenType)
  PROVE  Told(l, text).reward = l.reward \o Zeros(Len(text))
         /\ Told(l, text).mask = l.mask \o Zeros(Len(text))
BY DEF Told, ListsType

LEMMA InferredReward ==
  ASSUME NEW l \in ListsType, NEW p
  PROVE  /\ Inferred(l, p).reward = l.reward \o Zeros(Len(AllFour(p)))
         /\ Inferred(l, p).mask = l.mask \o MaskOf(p)
BY DEF Inferred, ListsType

\* What an inference and what is told after it leave of rewards: zeros more.
LEMMA PlanRewards ==
  ASSUME NEW l \in ListsType, AllZero(l.reward), NEW text \in Seq(TokenType)
  PROVE  AllZero(Told(l, text).reward)
<1>1. l.reward \in Seq(Int) /\ Len(text) \in Nat
  BY ListsAre, LenProperties
<1>2. AllZero(l.reward \o Zeros(Len(text)))
  BY ONLY <1>1, AllZero(l.reward), ZerosOn
<1> QED BY <1>2, ToldReward

LEMMA InferredRewards ==
  ASSUME NEW l, Good(l), AllZero(l.reward), NEW p, IsInference(p)
  PROVE  AllZero(Inferred(l, p).reward)
<1>1. l \in ListsType
  BY DEF Good
<1>2. Len(AllFour(p)) \in Nat /\ l.reward \in Seq(Int)
  <2>1. AllFour(p) \in Seq(TokenType)
    BY InferenceIs DEF Marks
  <2> QED BY <1>1, <2>1, LenProperties, ListsAre
<1>3. AllZero(l.reward \o Zeros(Len(AllFour(p))))
  BY ONLY <1>2, AllZero(l.reward), ZerosOn
<1> QED BY <1>1, <1>3, InferredReward

\* What an inference appends ends with a text of the model.
LEMMA InferenceEnds ==
  ASSUME NEW p, IsInference(p), Len(p[4]) # 0
  PROVE  MaskOf(p) \in Seq(Bits) /\ EndsWithModel(MaskOf(p))
<1>1. \A i \in {1, 2, 3, 4} : Len(p[i]) \in Nat
  BY LenProperties DEF IsInference, Marks
<1>2. PICK a : a = Zeros(Len(p[1])) \o Ones(Len(p[2])) \o Zeros(Len(p[3]))
  OBVIOUS
<1>3. PICK b : b = Ones(Len(p[4]))
  OBVIOUS
<1>4. MaskOf(p) = a \o b
  BY <1>2, <1>3 DEF MaskOf
<1>5. a \in Seq(Bits)
  <2>1. /\ Zeros(Len(p[1])) \in Seq(Bits) /\ Ones(Len(p[2])) \in Seq(Bits)
        /\ Zeros(Len(p[3])) \in Seq(Bits)
    BY <1>1, ZerosAre, OnesAre
  <2> QED BY ONLY <1>2, <2>1, ThreeJoined
<1>6. b \in Seq(Bits) /\ EndsWithModel(b)
  <2>1. b \in Seq(Bits) /\ Len(b) = Len(p[4]) /\ \A k \in 1 .. Len(p[4]) : b[k] = 1
    BY <1>1, <1>3, OnesAre
  <2>2. Len(p[4]) \in 1 .. Len(p[4])
    BY <1>1
  <2>3. b # <<>>
    BY <2>1
  <2> QED BY <2>1, <2>2, <2>3 DEF EndsWithModel
<1>7. a \o b \in Seq(Bits)
  BY <1>5, <1>6, ConcatProperties
<1> QED BY ONLY <1>4, <1>5, <1>6, <1>7, EndsWithLast

-----------------------------------------------------------------------------
(* The rewards of an episode, step by step.                                *)

LEMMA GameTexts ==
  ASSUME IInv, NEW what \in {"state", "end"}
  PROVE  Text(what, 0, 1) \in Seq(TokenType) /\ Len(Text(what, 0, 1)) = 1
<1>1. Counted
  BY Holding
<1>2. Text(what, 0, 1) \in Seq(TokenType)
  BY <1>1, AnotherText
<1>3. Len(Text(what, 0, 1)) = 1
  BY DEF Text
<1> QED BY <1>2, <1>3

\* What the planner's lists have of rewards after a step of the planner.
LEMMA PlannerRewards ==
  ASSUME IInv, RewardsOK,
         \/ StartPlan
         \/ \E n, k \in Lengths, found \in 0..MaxTraj : Expand(n, k, found)
         \/ \E i \in todo, n \in Lengths : Simulate(i, n)
         \/ \E over \in SUBSET running : Execute(over)
  PROVE  /\ AllZero(plan'.reward) /\ out' = out /\ granted' = granted /\ config' = config
         /\ pc' # "act" /\ pc' # "done"
<1>1. Counted /\ (Planning => Good(plan)) /\ (Planning => plan \in ListsType)
      /\ (Planning => AllZero(plan.reward))
  <2>1. Counted /\ (Planning => Good(plan))
    BY Holding
  <2>2. Planning => AllZero(plan.reward)
    BY DEF RewardsOK, AllZero
  <2> QED BY <2>1, <2>2 DEF Good
<1>2. ASSUME NEW what \in Kinds \ Generated, NEW traj \in 0..MaxTraj
      PROVE  Text(what, traj, 1) \in Seq(TokenType)
  BY <1>1, OneMore
<1>3. /\ "feedback" \in Kinds \ Generated /\ "results" \in Kinds \ Generated /\ 0 \in 0..MaxTraj
      /\ 0 \in Nat /\ 1 \in Nat
  BY ConfigAssumption DEF Kinds, Generated
<1>4. CASE StartPlan
  <2>1. plan' = NewPlan /\ out' = out /\ granted' = granted /\ config' = config /\ pc' = "expand"
    BY <1>4 DEF StartPlan
  <2>2. NewPlan.reward = Zeros(1)
    BY DEF NewPlan
  <2>3. AllZero(Zeros(1))
    BY DEF AllZero, Zeros
  <2> QED BY ONLY <2>1, <2>2, <2>3
<1>5. CASE \E n, k \in Lengths, found \in 0..MaxTraj : Expand(n, k, found)
  <2>1. PICK n \in Lengths, k \in Lengths, found \in 0..MaxTraj : Expand(n, k, found)
    BY <1>5
  <2>2. PICK p : p = Parts("understanding", "moves", 0, n, k)
    OBVIOUS
  <2>3. /\ plan' = Told(Expanded(p), Text("feedback", 0, 1)) /\ Planning
        /\ out' = out /\ granted' = granted /\ config' = config /\ pc' # "act" /\ pc' # "done"
    BY <2>1, <2>2 DEF Expand, Planning
  <2>4. IsInference(p)
    <3>1. n \in Nat /\ k \in Nat /\ "understanding" \in Generated /\ "moves" \in Generated
      BY ConfigAssumption DEF Generated
    <3> QED BY <1>1, <1>3, <2>2, <3>1, PartsAre
  <2>5. Expanded(p).reward = Inferred(plan, p).reward /\ Expanded(p) \in ListsType
    <3>1. Good(Expanded(p))
      BY <1>1, <2>3, <2>4, Holding, ExpandedGood
    <3>2. Inferred(plan, p) \in ListsType
      BY <1>1, <2>3, <2>4, InferredAre
    <3> QED BY <3>1, <3>2 DEF Expanded, ListsType, Good
  <2>6. AllZero(Expanded(p).reward)
    BY <1>1, <2>3, <2>4, <2>5, InferredRewards
  <2>7. Text("feedback", 0, 1) \in Seq(TokenType)
    BY <1>2, <1>3
  <2>8. AllZero(plan'.reward)
    BY ONLY <2>3, <2>5, <2>6, <2>7, PlanRewards
  <2> QED BY <2>3, <2>8
<1>6. CASE \E i \in todo, n \in Lengths : Simulate(i, n)
  <2>1. PICK i \in todo, n \in Lengths : Simulate(i, n)
    BY <1>6
  <2>2. PICK p : p = Parts("understanding", "moves", i, n, 1)
    OBVIOUS
  <2>3. PICK text : text = Text("feedback", i, 1)
    OBVIOUS
  <2>4. /\ plan' = IF config.turn2 THEN SimulatedBy(plan, p, text) ELSE plan
        /\ Planning
        /\ out' = out /\ granted' = granted /\ config' = config /\ pc' # "act" /\ pc' # "done"
    BY <2>1, <2>2, <2>3 DEF Simulate, Planning
  <2>5. i \in 0..MaxTraj
    BY ConfigAssumption DEF IInv, TypeOK
  <2>6. IsInference(p)
    <3>1. n \in Nat /\ 1 \in Nat /\ "understanding" \in Generated /\ "moves" \in Generated
      BY ConfigAssumption DEF Generated
    <3> QED BY <1>1, <2>2, <2>5, <3>1, PartsAre
  <2>7. text \in Seq(TokenType)
    BY <1>2, <1>3, <2>3, <2>5
  <2>8. AllZero(SimulatedBy(plan, p, text).reward)
    <3>1. PICK l : l = Inferred(plan, p)
      OBVIOUS
    <3>2. l \in ListsType /\ AllZero(l.reward)
      BY <1>1, <2>4, <2>6, <3>1, InferredAre, InferredRewards
    <3>3. AllZero(Told(l, text).reward) /\ Told(l, text) \in ListsType
      BY <2>7, <3>2, PlanRewards, ToldAre
    <3>4. SimulatedBy(plan, p, text).reward = Told(l, text).reward
      BY <3>1, <3>3 DEF SimulatedBy, ListsType
    <3> QED BY <3>3, <3>4
  <2>9. AllZero(plan'.reward)
    BY <1>1, <2>4, <2>8
  <2> QED BY <2>4, <2>9
<1>7. CASE \E over \in SUBSET running : Execute(over)
  <2>1. PICK over \in SUBSET running : Execute(over)
    BY <1>7
  <2>2. /\ plan' = IF turn > 1 /\ ~config.turn2 THEN plan ELSE Told(plan, Text("results", 0, 1))
        /\ Planning
        /\ out' = out /\ granted' = granted /\ config' = config /\ pc' # "act" /\ pc' # "done"
    BY <2>1 DEF Execute, Planning
  <2>3. Text("results", 0, 1) \in Seq(TokenType)
    BY <1>2, <1>3
  <2>4. AllZero(Told(plan, Text("results", 0, 1)).reward)
    BY <1>1, <2>2, <2>3, PlanRewards
  <2> QED BY <1>1, <2>2, <2>4
<1> QED BY <1>4, <1>5, <1>6, <1>7

LEMMA PlannerKeepsRewards ==
  ASSUME IInv, RewardsOK,
         \/ StartPlan
         \/ \E n, k \in Lengths, found \in 0..MaxTraj : Expand(n, k, found)
         \/ \E i \in todo, n \in Lengths : Simulate(i, n)
         \/ \E over \in SUBSET running : Execute(over)
  PROVE  RewardsOK' /\ RewardsArrive'
<1>1. /\ AllZero(plan'.reward) /\ out' = out /\ granted' = granted /\ config' = config
      /\ pc' # "act" /\ pc' # "done"
  BY PlannerRewards
<1>2. Sum(out.reward) = granted
      /\ (config.readjust => \A k \in 1..Len(out.reward) : out.reward[k] # 0 => out.mask[k] = 1)
  BY DEF RewardsOK
<1> QED BY ONLY <1>1, <1>2 DEF RewardsOK, RewardsArrive, AllZero

LEMMA SummarizeKeepsRewards ==
  ASSUME IInv, RewardsOK, NEW n \in Lengths, NEW k \in Lengths, Summarize(n, k)
  PROVE  RewardsOK' /\ RewardsArrive'
<1>1. PICK p : p = Parts("summary", "answer", 0, n, k)
  OBVIOUS
<1>2. PICK r : r = Returned(Summarized(p), p[2])
  OBVIOUS
<1>3. /\ pc = "summarize" /\ Planning /\ out' = Joining(out, r) /\ pc' = "act"
      /\ config' = config /\ granted' = granted
  BY <1>1, <1>2 DEF Summarize, Planning
<1>4. Counted /\ Good(out) /\ Good(plan) /\ Placed(plan) /\ out \in ListsType /\ plan \in ListsType
      /\ Good(Summarized(p)) /\ r \in ListsType
  <2>1. Counted /\ Good(out) /\ Good(plan) /\ Placed(plan)
    BY <1>3, Holding
  <2>2. p = <<Text("value prompt", 0, 1), Text("summary", 0, n), Text("move prompt", 0, 1),
              Text("answer", 0, k)>>
    BY <1>1 DEF Parts
  <2>3. IsInference(p)
    <3>1. n \in Nat /\ k \in Nat /\ 0 \in 0..MaxTraj /\ "summary" \in Generated /\ "answer" \in Generated
      BY ConfigAssumption DEF Generated
    <3> QED BY <1>1, <2>1, <3>1, PartsAre
  <2>4. PICK l : l = Summarized(p)
    OBVIOUS
  <2>5. Good(l) /\ Placed(l)
    BY ONLY <2>1, <2>2, <2>3, <2>4, SummarizedGood
  <2>6. p[2] \in Seq(TokenType)
    BY <2>3 DEF IsInference, Marks
  <2>7. Returnable(r)
    BY ONLY <1>2, <2>4, <2>5, <2>6, ReturnedGood
  <2> QED BY <2>1, <2>4, <2>5, <2>7 DEF Good, Returnable
<1>5. IsInference(p) /\ Len(p[4]) # 0
  <2>1. n \in Nat /\ k \in Nat \ {0} /\ 0 \in 0..MaxTraj /\ "summary" \in Generated /\ "answer" \in Generated
    BY ConfigAssumption DEF Generated
  <2>2. IsInference(p)
    BY <1>1, <1>4, <2>1, PartsAre
  <2>3. p[4] = Text("answer", 0, k)
    BY <1>1 DEF Parts
  <2>4. Len(p[4]) = k
    BY <2>1, <2>3 DEF Text
  <2> QED BY <2>1, <2>2, <2>4
<1>6. PICK text : text = Text("summary prompt", 0, 1)
  OBVIOUS
<1>7. text \in Seq(TokenType)
  <2>1. "summary prompt" \in Kinds \ Generated /\ 0 \in 0..MaxTraj
    BY ConfigAssumption DEF Kinds, Generated
  <2> QED BY <1>4, <1>6, <2>1, OneMore
<1>8. PICK told : told = Told(plan, text)
  OBVIOUS
<1>9. told \in ListsType /\ AllZero(told.reward) /\ Good(told)
  <2>1. AllZero(plan.reward)
    BY <1>3 DEF RewardsOK, AllZero
  <2>2. Good(told)
    <3>1. Marks(text, Zeros(Len(text)))
      <4>1. "summary prompt" \in Kinds \ Generated /\ 0 \in 0..MaxTraj
        BY ConfigAssumption DEF Kinds, Generated
      <4> QED BY <1>4, <1>6, <4>1, OneMore
    <3> QED BY <1>4, <1>8, <3>1, ToldKeeps
  <2> QED BY <1>4, <1>7, <1>8, <2>1, <2>2, ToldAre, PlanRewards
<1>10. PICK l : l = Inferred(told, p)
  OBVIOUS
<1>11. l \in ListsType /\ AllZero(l.reward) /\ l.mask = told.mask \o MaskOf(p)
  BY <1>5, <1>9, <1>10, InferredAre, InferredRewards, InferredReward
<1>12. /\ r.reward = l.reward /\ r.mask = l.mask
  <2>1. Summarized(p) \in ListsType
    BY <1>4 DEF Good
  <2>2. Summarized(p).reward = l.reward /\ Summarized(p).mask = l.mask
    BY <1>6, <1>8, <1>10, <1>11 DEF Summarized, ListsType
  <2>3. r.reward = Summarized(p).reward /\ r.mask = Summarized(p).mask
    BY <1>2, <2>1 DEF Returned, ListsType
  <2> QED BY <2>2, <2>3
<1>13. AllZero(r.reward) /\ EndsWithModel(r.mask)
  <2>1. told.mask \in Seq(Bits) /\ MaskOf(p) \in Seq(Bits) /\ EndsWithModel(MaskOf(p))
    BY <1>5, <1>9, ListsAre, InferenceEnds
  <2>2. EndsWithModel(told.mask \o MaskOf(p))
    BY ONLY <2>1, EndsWithLast
  <2> QED BY <1>11, <1>12, <2>2
<1>14. out'.reward = out.reward \o r.reward /\ out'.mask = out.mask \o r.mask
  BY <1>3, <1>4 DEF Joining, ListsType
<1>15. /\ out.reward \in Seq(Int) /\ out.mask \in Seq(Bits) /\ Len(out.reward) = Len(out.mask)
       /\ r.reward \in Seq(Int) /\ r.mask \in Seq(Bits) /\ Len(r.reward) = Len(r.mask)
  <2>1. Len(l.reward) = Len(l.mask)
    BY <1>5, <1>9, <1>10, InferredAre
  <2> QED BY <1>4, <1>12, <2>1, ListsAre DEF Good
<1>16. Sum(out'.reward) = granted'
  <2>1. Sum(out.reward \o r.reward) = Sum(out.reward) + Sum(r.reward) /\ Sum(out.reward) \in Int
    BY ONLY <1>15, SumJoined
  <2>2. Sum(r.reward) = 0
    BY ONLY <1>13, <1>15, SumAllZero
  <2> QED BY <1>3, <1>14, <2>1, <2>2 DEF RewardsOK
<1>17. config.readjust => OnModel(out'.reward, out'.mask)
  <2> SUFFICES ASSUME config.readjust PROVE OnModel(out'.reward, out'.mask)
    OBVIOUS
  <2>1. OnModel(out.reward, out.mask)
    BY <1>15 DEF RewardsOK, OnModel
  <2> QED BY ONLY <1>13, <1>14, <1>15, <2>1, OnModelOn
<1>18. EndsWithModel(out'.mask)
  BY ONLY <1>13, <1>14, <1>15, EndsWithLast
<1> QED BY ONLY <1>3, <1>16, <1>17, <1>18 DEF RewardsOK, RewardsArrive, OnModel, EndsWithModel, Planning

\* A reward and zeros for the text that follows, in either order.
LEMMA RewardAndText ==
  ASSUME NEW r \in Seq(Int), NEW m \in Seq(Bits), Len(r) = Len(m), EndsWithModel(m), NEW x \in Int
  PROVE  /\ Sum(AddToLast(r, x) \o Zeros(1)) = Sum(r) + x
         /\ Sum(AddToLast(r \o Zeros(1), x)) = Sum(r) + x
         /\ OnModel(r, m) => OnModel(AddToLast(r, x) \o Zeros(1), m \o Zeros(1))
<1>1. PICK a : a = AddToLast(r, x)
  OBVIOUS
<1>2. /\ a \in Seq(Int) /\ Sum(a) = Sum(r) + x
      /\ OnModel(r, m) => OnModel(a, m)
  BY <1>1, RewardOnModel
<1>3. PICK z : z = Zeros(1)
  OBVIOUS
<1>4. z \in Seq(Int) /\ z \in Seq(Bits) /\ AllZero(z) /\ Len(z) = 1
  BY <1>3, ZerosAre DEF AllZero
<1>5. Sum(z) = 0
  BY ONLY <1>4, SumAllZero
<1>6. Sum(a \o z) = Sum(a) + Sum(z) /\ Sum(a) \in Int
  BY ONLY <1>2, <1>4, SumJoined
<1>7. Sum(r \o z) = Sum(r) + Sum(z) /\ Sum(r) \in Int
  BY ONLY <1>4, r \in Seq(Int), SumJoined
<1>8. r \o z \in Seq(Int) /\ Len(r \o z) > 0
  <2>1. r \o z \in Seq(Int) /\ Len(r \o z) = Len(r) + Len(z) /\ Len(r) \in Nat
    BY ONLY <1>4, r \in Seq(Int), ConcatProperties, LenProperties
  <2> QED BY ONLY <1>4, <2>1
<1>9. Sum(AddToLast(r \o z, x)) = Sum(r \o z) + x
  BY ONLY <1>8, x \in Int, SumAddToLast
<1>10. ASSUME OnModel(r, m) PROVE OnModel(a \o z, m \o z)
  <2>1. OnModel(a, m)
    BY <1>2, <1>10
  <2> QED BY ONLY <1>2, <1>4, <2>1, m \in Seq(Bits), OnModelOn
<1>11. Sum(a \o z) = Sum(r) + x /\ Sum(AddToLast(r \o z, x)) = Sum(r) + x
  BY ONLY <1>2, <1>5, <1>6, <1>7, <1>9, x \in Int
<1> QED BY ONLY <1>1, <1>3, <1>10, <1>11

LEMMA OutRewards ==
  ASSUME IInv, RewardsOK
  PROVE  /\ out \in ListsType /\ out.reward \in Seq(Int) /\ out.mask \in Seq(Bits)
         /\ Len(out.reward) = Len(out.mask)
         /\ Sum(out.reward) = granted
         /\ config.readjust => OnModel(out.reward, out.mask)
         /\ pc = "act" => EndsWithModel(out.mask)
<1>1. Good(out)
  BY Holding
<1>2. out \in ListsType /\ Len(out.reward) = Len(out.mask)
  BY <1>1 DEF Good
<1>3. out.reward \in Seq(Int) /\ out.mask \in Seq(Bits)
  BY <1>2, ListsAre
<1> QED BY <1>2, <1>3 DEF RewardsOK, OnModel, EndsWithModel

LEMMA EndWithKeepsRewards ==
  ASSUME IInv, RewardsOK, pc = "act", NEW x \in Int, EndWith(x)
  PROVE  RewardsOK' /\ RewardsArrive'
<1>1. PICK text : text = Text("end", 0, 1)
  OBVIOUS
<1>2. text \in Seq(TokenType) /\ Len(text) = 1
  BY <1>1, GameTexts
<1>3. PICK told : told = Told(out, text)
  OBVIOUS
<1>4. told \in ListsType /\ told.mask = out.mask \o Zeros(1)
  BY <1>2, <1>3, OutRewards, ToldAre, ToldReward
<1>5. /\ out'.reward = Rewarded(x, text) /\ out'.mask = told.mask
      /\ granted' = granted + x /\ pc' = "return" /\ config' = config
  BY <1>1, <1>3, <1>4 DEF EndWith, ListsType
<1>6. Rewarded(x, text) = IF config.readjust THEN AddToLast(out.reward, x) \o Zeros(1)
                                             ELSE AddToLast(out.reward \o Zeros(1), x)
  BY <1>2 DEF Rewarded
<1>7. /\ Sum(AddToLast(out.reward, x) \o Zeros(1)) = Sum(out.reward) + x
      /\ Sum(AddToLast(out.reward \o Zeros(1), x)) = Sum(out.reward) + x
      /\ OnModel(out.reward, out.mask)
           => OnModel(AddToLast(out.reward, x) \o Zeros(1), out.mask \o Zeros(1))
  BY OutRewards, RewardAndText
<1>8. Sum(out'.reward) = granted'
  BY <1>5, <1>6, <1>7, OutRewards
<1>9. config'.readjust => OnModel(out'.reward, out'.mask)
  BY <1>4, <1>5, <1>6, <1>7, OutRewards
<1> QED BY ONLY <1>5, <1>8, <1>9 DEF RewardsOK, RewardsArrive, OnModel, Planning

LEMMA MoveKeepsRewards ==
  ASSUME IInv, RewardsOK, NEW x \in {0, 1}, Move(x)
  PROVE  RewardsOK' /\ RewardsArrive'
<1>1. PICK text : text = Text("state", 0, 1)
  OBVIOUS
<1>2. text \in Seq(TokenType) /\ Len(text) = 1
  BY <1>1, GameTexts
<1>3. PICK s : s = AddToLast(out.reward, x)
  OBVIOUS
<1>4. PICK l : l = [out EXCEPT !.reward = s]
  OBVIOUS
<1>5. x \in Int /\ pc = "act"
  BY DEF Move
<1>6. s \in Seq(Int)
  BY <1>3, <1>5, OutRewards, RewardOnModel
<1>7. l \in ListsType /\ l.reward = s /\ l.mask = out.mask
  BY <1>4, <1>6, OutRewards DEF ListsType
<1>8. /\ out' = Told(l, text) /\ granted' = granted + x /\ pc' = "plan" /\ config' = config
  BY <1>1, <1>3, <1>4 DEF Move
<1>9. out'.reward = s \o Zeros(1) /\ out'.mask = out.mask \o Zeros(1)
  BY <1>2, <1>7, <1>8, ToldReward
<1>10. /\ Sum(s \o Zeros(1)) = Sum(out.reward) + x
       /\ OnModel(out.reward, out.mask) => OnModel(s \o Zeros(1), out.mask \o Zeros(1))
  BY <1>3, <1>5, OutRewards, RewardAndText
<1>11. Sum(out'.reward) = granted'
  BY <1>8, <1>9, <1>10, OutRewards
<1>12. config'.readjust => OnModel(out'.reward, out'.mask)
  BY <1>8, <1>9, <1>10, OutRewards
<1> QED BY ONLY <1>8, <1>11, <1>12 DEF RewardsOK, RewardsArrive, OnModel, Planning

\* Rewards, mask and response are cut at the same place.
LEMMA ReturnKeepsRewards ==
  ASSUME IInv, RewardsOK, Return
  PROVE  RewardsOK' /\ RewardsArrive'
<1>1. /\ pc' = "done" /\ config' = config /\ out' = out /\ granted' = granted /\ pc = "return"
  BY DEF Return
<1>2. RewardsOK'
  BY <1>1 DEF RewardsOK, Planning
<1>3. PICK n \in Nat : n = config.length
  BY Holding DEF ConfigType
<1>4. PICK response : response = FirstOf(LastOf(out.ids, Len(out.mask)), n)
  OBVIOUS
<1>5. PICK m : m = FirstOf(out.mask, n)
  OBVIOUS
<1>6. output'.reward = FirstOf(out.reward, n) /\ output'.mask = Padded(m, response)
  BY <1>3, <1>4, <1>5 DEF Return
<1>7. PICK r : r = FirstOf(out.reward, n)
  OBVIOUS
<1>8. Marks(response, m)
  <2>1. Marks(LastOf(out.ids, Len(out.mask)), out.mask)
    BY Holding, PromptDropped DEF Good
  <2> QED BY <1>4, <1>5, <2>1, MarksCut
<1>9. /\ response \in Seq(TokenType) /\ m \in Seq(Bits) /\ Len(m) = Len(response)
  BY <1>8 DEF Marks
<1>10. \A k \in 1 .. Len(response) : k <= Len(m) => Padded(m, response)[k] = m[k]
  BY ONLY <1>9, PaddedAre
<1>11. /\ out.reward \in Seq(Int) /\ out.mask \in Seq(Bits) /\ Len(out.reward) = Len(out.mask)
       /\ Sum(out.reward) = granted
       /\ config.readjust => OnModel(out.reward, out.mask)
  BY OutRewards
<1>12. /\ r \in Seq(Int) /\ Len(r) = IF n < Len(out.reward) THEN n ELSE Len(out.reward)
       /\ \A k \in 1 .. Len(r) : r[k] = out.reward[k]
  BY ONLY <1>7, <1>11, n \in Nat, FirstAre
<1>13. /\ Len(m) = IF n < Len(out.mask) THEN n ELSE Len(out.mask)
       /\ \A k \in 1 .. Len(m) : m[k] = out.mask[k]
  BY ONLY <1>5, <1>11, n \in Nat, FirstAre
<1>14. Len(out.reward) <= n => Sum(r) = granted
  <2> SUFFICES ASSUME Len(out.reward) <= n PROVE Sum(r) = granted
    OBVIOUS
  <2>1. PICK j \in Nat : j = Len(out.reward)
    BY <1>11, LenProperties
  <2>2. Len(r) = j
    BY <1>12, <2>1
  <2>3. r = out.reward
    <3>1. r \in [1 .. j -> Int] /\ out.reward \in [1 .. j -> Int]
      BY ONLY <1>11, <1>12, <2>1, <2>2, LenProperties
    <3>2. \A k \in 1 .. j : r[k] = out.reward[k]
      BY ONLY <1>12, <2>2
    <3> QED BY ONLY <3>1, <3>2
  <2> QED BY ONLY <1>11, <2>3
<1>15. config.readjust => \A k \in 1 .. Len(r) : r[k] # 0 => Padded(m, response)[k] = 1
  <2> SUFFICES ASSUME config.readjust, NEW k \in 1 .. Len(r), r[k] # 0
               PROVE  Padded(m, response)[k] = 1
    OBVIOUS
  <2>1. PICK j \in Nat : j = Len(out.reward)
    BY <1>11, LenProperties
  <2>2. k \in 1 .. j /\ k \in 1 .. Len(m) /\ k \in 1 .. Len(response) /\ k <= Len(m)
    BY ONLY <1>9, <1>11, <1>12, <1>13, <2>1, k \in 1 .. Len(r), n \in Nat
  <2>3. out.reward[k] # 0
    BY <1>12
  <2>4. out.mask[k] = 1
    BY ONLY <1>11, <2>1, <2>2, <2>3, config.readjust DEF OnModel
  <2> QED BY ONLY <1>10, <1>13, <2>2, <2>4
<1>16. RewardsArrive'
  BY ONLY <1>1, <1>3, <1>6, <1>7, <1>14, <1>15 DEF RewardsArrive
<1> QED BY <1>2, <1>16

(* The rewards the game gave are in the response, unless it is cut, and    *)
(* with final_reward_readjustment all of them are on tokens that are       *)
(* trained (run_lpm: reward_lst[-1] += reward, the episode's last step).   *)
THEOREM RewardsReachTraining == Spec => []RewardsArrive
<1>1. Init => RewardsOK /\ RewardsArrive
  <2> SUFFICES ASSUME Init PROVE RewardsOK /\ RewardsArrive
    OBVIOUS
  <2>1. out.reward = <<>> /\ granted = 0 /\ pc = "plan"
    BY DEF Init, NoLists
  <2>2. Len(<<>>) = 0
    OBVIOUS
  <2>3. \A k \in 1..Len(out.reward) : FALSE
    BY ONLY <2>1, <2>2
  <2> QED BY ONLY <2>1, <2>3, SumEmpty DEF RewardsOK, RewardsArrive, Planning
<1>2. IInv /\ RewardsOK /\ RewardsArrive /\ [Next]_vars => (RewardsOK /\ RewardsArrive)'
  <2> SUFFICES ASSUME IInv, RewardsOK, RewardsArrive, [Next]_vars
               PROVE  (RewardsOK /\ RewardsArrive)'
    OBVIOUS
  <2>1. CASE \/ StartPlan
             \/ \E n, k \in Lengths, found \in 0..MaxTraj : Expand(n, k, found)
             \/ \E i \in todo, n \in Lengths : Simulate(i, n)
             \/ \E over \in SUBSET running : Execute(over)
    BY <2>1, PlannerKeepsRewards
  <2>2. CASE \E n, k \in Lengths : Summarize(n, k)
    BY <2>2, SummarizeKeepsRewards
  <2>3. CASE NoAction
    <3>1. pc = "act" /\ EndWith(-2) /\ -2 \in Int
      BY <2>3 DEF NoAction
    <3> QED BY <3>1, EndWithKeepsRewards
  <2>4. CASE \E r \in {0, 1} : LastMove(r)
    <3>1. PICK r \in {0, 1} : LastMove(r)
      BY <2>4
    <3>2. pc = "act" /\ EndWith(r) /\ r \in Int
      BY <3>1 DEF LastMove
    <3> QED BY <3>2, EndWithKeepsRewards
  <2>5. CASE \E r \in {0, 1} : Move(r)
    BY <2>5, MoveKeepsRewards
  <2>6. CASE Return
    BY <2>6, ReturnKeepsRewards
  <2>7. CASE UNCHANGED vars
    BY <2>7 DEF vars, RewardsOK, RewardsArrive, Planning
  <2> QED BY <2>1, <2>2, <2>3, <2>4, <2>5, <2>6, <2>7 DEF Next
<1> QED BY <1>1, <1>2, Invariance, PTL DEF Spec

-----------------------------------------------------------------------------
(* The two versions, list by list.                                         *)

LEMMA SameElements ==
  ASSUME NEW U, NEW s \in Seq(U), NEW t \in Seq(U), NEW n \in Nat, Len(s) = n, Len(t) = n,
         \A k \in 1 .. n : s[k] = t[k]
  PROVE  s = t
<1>1. s \in [1 .. n -> U] /\ t \in [1 .. n -> U]
  BY LenProperties
<1> QED BY ONLY <1>1, \A k \in 1 .. n : s[k] = t[k]

LEMMA BodyIs ==
  ASSUME NEW U, NEW s \in Seq(U), 2 <= Len(s)
  PROVE  /\ Body(s) \in Seq(U) /\ Len(Body(s)) = Len(s) - 2
         /\ \A k \in 1 .. Len(s) - 2 : Body(s)[k] = s[k + 2]
         /\ LastOf(s, Len(s) - 2) = Body(s)
<1>1. PICK n \in Nat : n = Len(s)
  BY LenProperties
<1>2. Body(s) = SubSeq(s, 3, n)
  BY <1>1, PromptLength DEF Body
<1>3. \A k \in 3 .. n : s[k] \in U
  BY <1>1, ElementOfSeq
<1>4. /\ SubSeq(s, 3, n) \in Seq(U)
      /\ Len(SubSeq(s, 3, n)) = IF 3 <= n THEN n - 3 + 1 ELSE 0
      /\ \A i \in 1 .. n - 3 + 1 : SubSeq(s, 3, n)[i] = s[3 + i - 1]
  BY ONLY <1>1, <1>3, s \in Seq(U), SubSeqProperties
<1>5. Len(SubSeq(s, 3, n)) = n - 2
  BY <1>1, <1>4
<1>6. \A k \in 1 .. n - 2 : k \in 1 .. n - 3 + 1 /\ 3 + k - 1 = k + 2
  BY <1>1
<1>7. LastOf(s, n - 2) = SubSeq(s, 3, n)
  <2>1. n - 2 < n /\ n - (n - 2) + 1 = 3
    BY <1>1
  <2> QED BY ONLY <1>1, <2>1 DEF LastOf
<1> QED BY ONLY <1>1, <1>2, <1>4, <1>5, <1>6, <1>7

LEMMA BodyJoined ==
  ASSUME NEW U, NEW s \in Seq(U), NEW t \in Seq(U), 2 <= Len(s)
  PROVE  /\ Body(s \o t) = Body(s) \o t
         /\ s \o t \in Seq(U) /\ 2 <= Len(s \o t) /\ Body(s) \in Seq(U)
<1>1. PICK m \in Nat, n \in Nat : m = Len(s) /\ n = Len(t)
  BY LenProperties
<1>2. /\ s \o t \in Seq(U) /\ Len(s \o t) = m + n
      /\ \A i \in 1 .. m + n : (s \o t)[i] = IF i <= m THEN s[i] ELSE t[i - m]
  BY <1>1, ConcatProperties
<1>3. 2 <= m /\ 2 <= m + n
  BY <1>1
<1>4. PICK b : b = Body(s)
  OBVIOUS
<1>5. b \in Seq(U) /\ Len(b) = m - 2 /\ \A k \in 1 .. m - 2 : b[k] = s[k + 2]
  BY <1>1, <1>4, BodyIs
<1>6. PICK c : c = Body(s \o t)
  OBVIOUS
<1>7. c \in Seq(U) /\ Len(c) = m + n - 2 /\ \A k \in 1 .. m + n - 2 : c[k] = (s \o t)[k + 2]
  <2>1. 2 <= Len(s \o t)
    BY ONLY <1>2, <1>3
  <2>2. /\ c \in Seq(U) /\ Len(c) = Len(s \o t) - 2
        /\ \A k \in 1 .. Len(s \o t) - 2 : c[k] = (s \o t)[k + 2]
    BY ONLY <1>2, <1>6, <2>1, BodyIs
  <2> QED BY ONLY <1>2, <2>2
<1>8. /\ b \o t \in Seq(U) /\ Len(b \o t) = (m - 2) + n
      /\ \A i \in 1 .. (m - 2) + n : (b \o t)[i] = IF i <= m - 2 THEN b[i] ELSE t[i - (m - 2)]
  <2>1. (m - 2) + n \in Nat
    BY <1>3
  <2>2. b \o t \in Seq(U) /\ Len(b \o t) = Len(b) + Len(t)
        /\ \A i \in 1 .. Len(b) + Len(t) : (b \o t)[i] = IF i <= Len(b) THEN b[i] ELSE t[i - Len(b)]
    BY ONLY <1>5, t \in Seq(U), ConcatProperties
  <2> QED BY ONLY <1>1, <1>5, <2>2
<1>9. ASSUME NEW k \in 1 .. m + n - 2 PROVE c[k] = (b \o t)[k]
  <2>1. k + 2 \in 1 .. m + n /\ k \in 1 .. (m - 2) + n
    BY <1>3
  <2>2. CASE k <= m - 2
    <3>1. k + 2 <= m /\ k \in 1 .. m - 2
      BY <1>3, <2>2
    <3> QED BY ONLY <1>2, <1>5, <1>7, <1>8, <2>1, <2>2, <3>1, k \in 1 .. m + n - 2
  <2>3. CASE ~(k <= m - 2)
    <3>1. ~(k + 2 <= m) /\ (k + 2) - m = k - (m - 2)
      BY <1>3, <2>3
    <3> QED BY ONLY <1>2, <1>7, <1>8, <2>1, <2>3, <3>1, k \in 1 .. m + n - 2
  <2> QED BY <2>2, <2>3
<1>10. c = b \o t
  <2>1. PICK j \in Nat : j = m + n - 2
    BY <1>3
  <2>2. PICK d : d = b \o t
    OBVIOUS
  <2>3. d \in Seq(U) /\ Len(c) = j /\ Len(d) = j
    BY ONLY <1>7, <1>8, <2>1, <2>2, m \in Nat, n \in Nat
  <2>4. \A k \in 1 .. j : c[k] = d[k]
    BY ONLY <1>9, <2>1, <2>2
  <2>5. c = d
    BY ONLY <1>7, <2>1, <2>3, <2>4, SameElements
  <2> QED BY ONLY <2>2, <2>5
<1> QED BY <1>2, <1>3, <1>4, <1>5, <1>6, <1>10

\* What is told of two sequences put together, each at its own places.
LEMMA WhereJoined ==
  ASSUME NEW U, NEW s \in Seq(U), NEW t \in Seq(U),
         NEW V, NEW m \in Seq(V), NEW z \in Seq(V), Len(m) = Len(s), Len(z) = Len(t), NEW b
  PROVE  /\ Where(s \o t, m \o z, b) = Where(s, m, b) \o Where(t, z, b)
         /\ Len(m \o z) = Len(s \o t)
<1>1. PICK i \in Nat, j \in Nat : i = Len(s) /\ j = Len(t)
  BY LenProperties
<1>2. Len(s \o t) = i + j
  BY ONLY <1>1, s \in Seq(U), t \in Seq(U), ConcatProperties
<1>3. \A k \in 1 .. i + j : (m \o z)[k] = IF k <= i THEN m[k] ELSE z[k - i]
  BY ONLY <1>1, m \in Seq(V), z \in Seq(V), Len(m) = Len(s), Len(z) = Len(t), ConcatProperties
<1> DEFINE K == {k \in 1 .. Len(s \o t) : (m \o z)[k] = b}
           I == {k \in 1 .. Len(s) : m[k] = b}
           J == {k \in 1 .. Len(t) : z[k] = b}
<1>4. \A k \in 1 .. Len(s) : k \in K <=> k \in I
  <2> TAKE k \in 1 .. Len(s)
  <2>1. k \in 1 .. i + j /\ k <= i
    BY ONLY <1>1, k \in 1 .. Len(s)
  <2>2. (m \o z)[k] = m[k]
    BY ONLY <1>3, <2>1
  <2> QED BY ONLY <1>1, <1>2, <2>1, <2>2, k \in 1 .. Len(s)
<1>5. \A k \in 1 .. Len(t) : k + Len(s) \in K <=> k \in J
  <2> TAKE k \in 1 .. Len(t)
  <2>1. k + i \in 1 .. i + j /\ ~(k + i <= i) /\ (k + i) - i = k
    BY ONLY <1>1, k \in 1 .. Len(t)
  <2>2. (m \o z)[k + i] = z[k]
    BY ONLY <1>3, <2>1
  <2> QED BY ONLY <1>1, <1>2, <2>1, <2>2, k \in 1 .. Len(t)
<1>6. /\ Where(s \o t, m \o z, b) = Chosen(s \o t, K)
      /\ Where(s, m, b) = Chosen(s, I) /\ Where(t, z, b) = Chosen(t, J)
  BY DEF Where
<1> HIDE DEF K, I, J
<1>7. Chosen(s \o t, K) = Chosen(s, I) \o Chosen(t, J)
  BY ONLY <1>4, <1>5, s \in Seq(U), t \in Seq(U), ChosenAppended
<1>8. Len(m \o z) = i + j
  <2>1. Len(m \o z) = Len(m) + Len(z)
    BY ONLY m \in Seq(V), z \in Seq(V), ConcatProperties
  <2> QED BY ONLY <1>1, <2>1, Len(m) = Len(s), Len(z) = Len(t)
<1> QED BY <1>2, <1>6, <1>7, <1>8

LEMMA WhereSame ==
  ASSUME NEW U, NEW s \in Seq(U), NEW m, NEW b
  PROVE  /\ Where(s, m, b) \in Seq(U)
         /\ (\A k \in 1 .. Len(s) : m[k] = b) => Where(s, m, b) = s
         /\ (\A k \in 1 .. Len(s) : m[k] # b) => Where(s, m, b) = <<>>
<1> DEFINE K == {k \in 1 .. Len(s) : m[k] = b}
<1>1. Where(s, m, b) = Chosen(s, K)
  BY DEF Where
<1>2. /\ (\A k \in 1 .. Len(s) : m[k] = b) => \A k \in 1 .. Len(s) : k \in K
      /\ (\A k \in 1 .. Len(s) : m[k] # b) => \A k \in 1 .. Len(s) : k \notin K
  OBVIOUS
<1> HIDE DEF K
<1>3. Chosen(s, K) \in Seq(U)
  BY ChosenType
<1>4. (\A k \in 1 .. Len(s) : k \in K) => Chosen(s, K) = s
  BY ChosenAll
<1>5. (\A k \in 1 .. Len(s) : k \notin K) => Chosen(s, K) = <<>>
  BY ChosenNone
<1> QED BY <1>1, <1>2, <1>3, <1>4, <1>5

\* The same of a mask of one value.
LEMMA WhereZeros ==
  ASSUME NEW U, NEW s \in Seq(U), NEW n \in Nat, n = Len(s)
  PROVE  /\ Where(s, Zeros(n), 1) = <<>> /\ Where(s, Zeros(n), 0) = s
         /\ Where(s, Ones(n), 1) = s /\ Where(s, Ones(n), 0) = <<>>
<1>1. PICK z, o : z = Zeros(n) /\ o = Ones(n)
  OBVIOUS
<1>2. \A k \in 1 .. Len(s) : z[k] = 0 /\ z[k] # 1 /\ o[k] = 1 /\ o[k] # 0
  <2>1. /\ \A k \in 1 .. n : Zeros(n)[k] = 0
        /\ \A k \in 1 .. n : Ones(n)[k] = 1
    BY ZerosAre, OnesAre
  <2> QED BY ONLY <1>1, <2>1, n = Len(s)
<1> QED BY ONLY <1>1, <1>2, s \in Seq(U), WhereSame

LEMMA KeptJoined ==
  ASSUME NEW U, NEW s \in Seq(U), NEW t \in Seq(U)
  PROVE  /\ Kept(s \o t) = Kept(s) \o Kept(t)
         /\ FirstTokens(s \o t) = FirstTokens(s) \o FirstTokens(t)
<1>1. /\ Len(s \o t) = Len(s) + Len(t) /\ Len(s) \in Nat /\ Len(t) \in Nat
      /\ \A k \in 1 .. Len(s) + Len(t) :
            (s \o t)[k] = IF k <= Len(s) THEN s[k] ELSE t[k - Len(s)]
  BY AppendIs
<1>2. \A k \in 1 .. Len(t) : k + Len(s) \in 1 .. Len(s \o t) /\ (s \o t)[k + Len(s)] = t[k]
  <2> TAKE k \in 1 .. Len(t)
  <2>1. /\ k + Len(s) \in 1 .. Len(s) + Len(t) /\ ~(k + Len(s) <= Len(s))
        /\ (k + Len(s)) - Len(s) = k
    BY ONLY <1>1, k \in 1 .. Len(t)
  <2> QED BY ONLY <1>1, <2>1
<1>3. \A k \in 1 .. Len(s) : k \in 1 .. Len(s \o t) /\ (s \o t)[k] = s[k]
  BY ONLY <1>1
<1>4. Kept(s \o t) = Kept(s) \o Kept(t)
  <2>1. PICK K : K = {k \in 1 .. Len(s \o t) : ~Replaced((s \o t)[k])}
    OBVIOUS
  <2>2. PICK I : I = {k \in 1 .. Len(s) : ~Replaced(s[k])}
    OBVIOUS
  <2>3. PICK J : J = {k \in 1 .. Len(t) : ~Replaced(t[k])}
    OBVIOUS
  <2>4. \A k \in 1 .. Len(s) : k \in K <=> k \in I
    BY ONLY <1>3, <2>1, <2>2
  <2>5. \A k \in 1 .. Len(t) : k + Len(s) \in K <=> k \in J
    BY ONLY <1>2, <2>1, <2>3
  <2>6. Chosen(s \o t, K) = Chosen(s, I) \o Chosen(t, J)
    BY ONLY <2>4, <2>5, s \in Seq(U), t \in Seq(U), ChosenAppended
  <2> QED BY ONLY <2>1, <2>2, <2>3, <2>6 DEF Kept
<1>5. FirstTokens(s \o t) = FirstTokens(s) \o FirstTokens(t)
  <2>1. PICK K : K = {k \in 1 .. Len(s \o t) : (s \o t)[k].at = 1}
    OBVIOUS
  <2>2. PICK I : I = {k \in 1 .. Len(s) : s[k].at = 1}
    OBVIOUS
  <2>3. PICK J : J = {k \in 1 .. Len(t) : t[k].at = 1}
    OBVIOUS
  <2>4. \A k \in 1 .. Len(s) : k \in K <=> k \in I
    BY ONLY <1>3, <2>1, <2>2
  <2>5. \A k \in 1 .. Len(t) : k + Len(s) \in K <=> k \in J
    BY ONLY <1>2, <2>1, <2>3
  <2>6. Chosen(s \o t, K) = Chosen(s, I) \o Chosen(t, J)
    BY ONLY <2>4, <2>5, s \in Seq(U), t \in Seq(U), ChosenAppended
  <2> QED BY ONLY <2>1, <2>2, <2>3, <2>6 DEF FirstTokens
<1> QED BY <1>4, <1>5

LEMMA SameTextsJoined ==
  ASSUME NEW s \in Seq(TokenType), NEW a \in Seq(TokenType), SameTexts(s, a),
         NEW t \in Seq(TokenType), NEW b \in Seq(TokenType), SameTexts(t, b)
  PROVE  SameTexts(s \o t, a \o b)
<1>1. PICK fs, fa, ft, fb : /\ fs = FirstTokens(s) /\ fa = FirstTokens(a)
                            /\ ft = FirstTokens(t) /\ fb = FirstTokens(b)
  OBVIOUS
<1>2. \A x \in Seq(TokenType) : FirstTokens(x) \in Seq(TokenType)
  BY ChosenType DEF FirstTokens
<1>3. /\ fs \in Seq(TokenType) /\ fa \in Seq(TokenType)
      /\ ft \in Seq(TokenType) /\ fb \in Seq(TokenType)
  BY <1>1, <1>2
<1>4. FirstTokens(s \o t) = fs \o ft /\ FirstTokens(a \o b) = fa \o fb
  BY <1>1, KeptJoined
<1>5. PICK m \in Nat, n \in Nat : m = Len(fs) /\ n = Len(ft)
  BY <1>3, LenProperties
<1> DEFINE Fits(v, x) == /\ v.what = IF Replaced(x) THEN New ELSE x.what
                         /\ v.step = x.step /\ v.traj = x.traj
<1>6. Len(fa) = m /\ \A k \in 1 .. m : Fits(fa[k], fs[k])
  BY ONLY <1>1, <1>5, SameTexts(s, a) DEF SameTexts
<1>7. Len(fb) = n /\ \A k \in 1 .. n : Fits(fb[k], ft[k])
  BY ONLY <1>1, <1>5, SameTexts(t, b) DEF SameTexts
<1>8. /\ Len(fs \o ft) = m + n
      /\ \A k \in 1 .. m + n : (fs \o ft)[k] = IF k <= m THEN fs[k] ELSE ft[k - m]
  BY ONLY <1>3, <1>5, ConcatProperties
<1>9. /\ Len(fa \o fb) = m + n
      /\ \A k \in 1 .. m + n : (fa \o fb)[k] = IF k <= m THEN fa[k] ELSE fb[k - m]
  <2>1. /\ Len(fa \o fb) = Len(fa) + Len(fb)
        /\ \A k \in 1 .. Len(fa) + Len(fb) :
              (fa \o fb)[k] = IF k <= Len(fa) THEN fa[k] ELSE fb[k - Len(fa)]
    BY ONLY <1>3, ConcatProperties
  <2>2. Len(fa) = m /\ Len(fb) = n
    BY ONLY <1>6, <1>7
  <2> QED BY ONLY <2>1, <2>2
<1> HIDE DEF Fits
<1>10. ASSUME NEW k \in 1 .. m + n PROVE Fits((fa \o fb)[k], (fs \o ft)[k])
  <2>1. CASE k <= m
    <3>1. k \in 1 .. m
      BY <2>1
    <3> QED BY ONLY <1>6, <1>8, <1>9, <2>1, <3>1, k \in 1 .. m + n
  <2>2. CASE ~(k <= m)
    <3>1. k - m \in 1 .. n
      BY <2>2
    <3> QED BY ONLY <1>7, <1>8, <1>9, <2>2, <3>1, k \in 1 .. m + n
  <2> QED BY <2>1, <2>2
<1> QED BY ONLY <1>4, <1>8, <1>9, <1>10 DEF SameTexts, Fits

\* A part of the response, the same part of the version, and its mask.
Piece(s, a, m) ==
  /\ s \in Seq(TokenType) /\ a \in Seq(TokenType) /\ m \in Seq(Bits)
  /\ Len(m) = Len(a)
  /\ Versions(s, a, m)

LEMMA PieceJoined ==
  ASSUME NEW s, NEW a, NEW m, Piece(s, a, m), NEW t, NEW b, NEW z, Piece(t, b, z)
  PROVE  Piece(s \o t, a \o b, m \o z)
<1>1. /\ s \in Seq(TokenType) /\ a \in Seq(TokenType) /\ m \in Seq(Bits) /\ Len(m) = Len(a)
      /\ t \in Seq(TokenType) /\ b \in Seq(TokenType) /\ z \in Seq(Bits) /\ Len(z) = Len(b)
      /\ Where(a, m, 0) = Kept(s) /\ SameTexts(s, a)
      /\ Where(b, z, 0) = Kept(t) /\ SameTexts(t, b)
  BY DEF Piece, Versions
<1>t. /\ a \in Seq(TokenType) /\ m \in Seq(Bits) /\ Len(m) = Len(a)
      /\ b \in Seq(TokenType) /\ z \in Seq(Bits) /\ Len(z) = Len(b)
  BY ONLY <1>1
<1>2. Where(a \o b, m \o z, 0) = Where(a, m, 0) \o Where(b, z, 0) /\ Len(m \o z) = Len(a \o b)
  BY ONLY <1>t, WhereJoined
<1>3. Kept(s \o t) = Kept(s) \o Kept(t)
  BY ONLY <1>1, KeptJoined
<1>4. SameTexts(s \o t, a \o b)
  BY ONLY <1>1, SameTextsJoined
<1>5. s \o t \in Seq(TokenType) /\ a \o b \in Seq(TokenType) /\ m \o z \in Seq(Bits)
  BY ONLY <1>1, ConcatProperties
<1> QED BY ONLY <1>1, <1>2, <1>3, <1>4, <1>5 DEF Piece, Versions

LEMMA EmptyPiece == Piece(<<>>, <<>>, <<>>)
<1>1. /\ <<>> \in Seq(TokenType) /\ <<>> \in Seq(Bits) /\ Len(<<>>) = 0
      /\ \A k \in 1 .. Len(<<>>) : FALSE
  BY EmptySeq
<1>2. Where(<<>>, <<>>, 0) = <<>>
  BY ONLY <1>1, WhereSame
<1>3. \A K : Chosen(<<>>, K) = <<>>
  BY ONLY <1>1, ChosenEmpty
<1>4. Kept(<<>>) = <<>> /\ FirstTokens(<<>>) = <<>>
  BY ONLY <1>3 DEF Kept, FirstTokens
<1>5. SameTexts(<<>>, <<>>)
  BY ONLY <1>1, <1>4 DEF SameTexts
<1> QED BY ONLY <1>1, <1>2, <1>4, <1>5 DEF Piece, Versions

\* A part that is the same in both.
LEMMA PlainPiece ==
  ASSUME NEW s \in Seq(TokenType), Plain(s), NEW n \in Nat, n = Len(s)
  PROVE  Piece(s, s, Zeros(n))
<1>1. Where(s, Zeros(n), 0) = s
  BY WhereZeros
<1>2. Kept(s) = s
  <2>1. PICK K : K = {k \in 1 .. Len(s) : ~Replaced(s[k])}
    OBVIOUS
  <2>2. \A k \in 1 .. Len(s) : k \in K
    BY <2>1 DEF Plain
  <2>3. Chosen(s, K) = s
    BY ONLY <2>2, s \in Seq(TokenType), ChosenAll
  <2> QED BY <2>1, <2>3 DEF Kept
<1>3. SameTexts(s, s)
  <2>1. PICK K : K = {k \in 1 .. Len(s) : s[k].at = 1}
    OBVIOUS
  <2>2. PICK f : f = Chosen(s, K)
    OBVIOUS
  <2>3. \A j \in 1 .. Len(f) : \E i \in 1 .. Len(s) : f[j] = s[i]
    BY ONLY <2>2, s \in Seq(TokenType), ChosenElements
  <2>4. \A j \in 1 .. Len(f) : ~Replaced(f[j])
    BY ONLY <2>3, Plain(s) DEF Plain
  <2>5. FirstTokens(s) = f
    BY <2>1, <2>2 DEF FirstTokens
  <2> QED BY ONLY <2>4, <2>5 DEF SameTexts
<1>4. Zeros(n) \in Seq(Bits) /\ Len(Zeros(n)) = n
  BY ZerosAre
<1> QED BY <1>1, <1>2, <1>3, <1>4 DEF Piece, Versions

\* A whole text of this move, in the planner or about the summary.
Whole(s, what) ==
  /\ s \in Seq(TokenType) /\ s # <<>>
  /\ \A k \in 1 .. Len(s) : /\ s[k].what = what /\ s[k].traj = 0
                            /\ s[k].step = step /\ s[k].at = k

LEMMA WholeFirst ==
  ASSUME NEW s, NEW what, Whole(s, what)
  PROVE  FirstTokens(s) = <<s[1]>> /\ Len(s) \in Nat /\ 1 \in 1 .. Len(s)
<1>1. s \in Seq(TokenType) /\ Len(s) # 0 /\ Len(s) \in Nat
  BY EmptySeq, LenProperties DEF Whole
<1>2. PICK K : K = {k \in 1 .. Len(s) : s[k].at = 1}
  OBVIOUS
<1>3. \A k \in 1 .. Len(s) : k \in K <=> k = 1
  BY <1>2 DEF Whole
<1>4. Chosen(s, K) = <<s[1]>>
  BY ONLY <1>1, <1>3, ChosenFirst
<1> QED BY <1>1, <1>2, <1>4 DEF FirstTokens

\* A text of the response and the one in its place.
LEMMA SwapPiece ==
  ASSUME NEW u, NEW v, Whole(u, Old), Whole(v, New), NEW n \in Nat, n = Len(v)
  PROVE  Piece(u, v, Ones(n))
<1>1. u \in Seq(TokenType) /\ v \in Seq(TokenType)
  BY DEF Whole
<1>2. Where(v, Ones(n), 0) = <<>>
  BY <1>1, WhereZeros
<1>3. Kept(u) = <<>>
  <2>1. PICK K : K = {k \in 1 .. Len(u) : ~Replaced(u[k])}
    OBVIOUS
  <2>2. \A k \in 1 .. Len(u) : k \notin K
    BY <2>1 DEF Whole, Replaced
  <2>3. Chosen(u, K) = <<>>
    BY ONLY <1>1, <2>2, ChosenNone
  <2> QED BY <2>1, <2>3 DEF Kept
<1>4. SameTexts(u, v)
  <2>1. PICK x, y : x = u[1] /\ y = v[1]
    OBVIOUS
  <2>2. FirstTokens(u) = <<x>> /\ FirstTokens(v) = <<y>> /\ 1 \in 1 .. Len(u) /\ 1 \in 1 .. Len(v)
    BY ONLY <2>1, Whole(u, Old), Whole(v, New), WholeFirst
  <2>3. /\ x.what = Old /\ x.traj = 0 /\ x.step = step
        /\ y.what = New /\ y.traj = 0 /\ y.step = step
    BY <2>1, <2>2 DEF Whole
  <2>4. /\ Len(<<x>>) = 1 /\ Len(<<y>>) = 1
        /\ \A k \in 1 .. 1 : <<x>>[k] = x /\ <<y>>[k] = y
    OBVIOUS
  <2> QED BY ONLY <2>2, <2>3, <2>4 DEF SameTexts, Replaced
<1>5. Ones(n) \in Seq(Bits) /\ Len(Ones(n)) = n
  BY OnesAre
<1> QED BY <1>1, <1>2, <1>3, <1>4, <1>5 DEF Piece, Versions

-----------------------------------------------------------------------------
\* A list, its mask and the tokens that are distilled.
Takes(a, m, w) ==
  /\ a \in Seq(TokenType) /\ m \in Seq(Bits) /\ Len(m) = Len(a)
  /\ w \in Seq(TokenType) /\ Where(a, m, 1) = w

LEMMA TakesJoined ==
  ASSUME NEW a, NEW m, NEW w, Takes(a, m, w), NEW b, NEW z, NEW v, Takes(b, z, v)
  PROVE  Takes(a \o b, m \o z, w \o v)
<1>1. /\ a \in Seq(TokenType) /\ m \in Seq(Bits) /\ Len(m) = Len(a)
      /\ b \in Seq(TokenType) /\ z \in Seq(Bits) /\ Len(z) = Len(b)
      /\ w \in Seq(TokenType) /\ v \in Seq(TokenType)
      /\ Where(a, m, 1) = w /\ Where(b, z, 1) = v
  BY DEF Takes
<1>t. /\ a \in Seq(TokenType) /\ m \in Seq(Bits) /\ Len(m) = Len(a)
      /\ b \in Seq(TokenType) /\ z \in Seq(Bits) /\ Len(z) = Len(b)
  BY ONLY <1>1
<1>2. Where(a \o b, m \o z, 1) = Where(a, m, 1) \o Where(b, z, 1) /\ Len(m \o z) = Len(a \o b)
  BY ONLY <1>t, WhereJoined
<1>3. a \o b \in Seq(TokenType) /\ m \o z \in Seq(Bits) /\ w \o v \in Seq(TokenType)
  BY ONLY <1>1, ConcatProperties
<1> QED BY ONLY <1>1, <1>2, <1>3 DEF Takes

\* With and without anything after it that is not distilled.
LEMMA TakesNothing ==
  ASSUME NEW s \in Seq(TokenType), NEW n \in Nat, n = Len(s)
  PROVE  Takes(s, Zeros(n), <<>>) /\ Takes(s, Ones(n), s)
<1>1. Where(s, Zeros(n), 1) = <<>> /\ Where(s, Ones(n), 1) = s
  BY WhereZeros
<1>2. /\ Zeros(n) \in Seq(Bits) /\ Len(Zeros(n)) = n
      /\ Ones(n) \in Seq(Bits) /\ Len(Ones(n)) = n
  BY ZerosAre, OnesAre
<1> QED BY <1>1, <1>2, EmptySeq DEF Takes

LEMMA TakesNoMore ==
  ASSUME NEW a, NEW m, NEW w, Takes(a, m, w), NEW s \in Seq(TokenType), NEW n \in Nat, n = Len(s)
  PROVE  Takes(a \o s, m \o Zeros(n), w)
<1>1. Takes(s, Zeros(n), <<>>)
  BY TakesNothing
<1>2. Takes(a \o s, m \o Zeros(n), w \o <<>>)
  BY ONLY <1>1, Takes(a, m, w), TakesJoined
<1>3. w \o <<>> = w
  BY ConcatEmptySeq DEF Takes
<1> QED BY <1>2, <1>3

\* What an inference adds to it.
LEMMA TakesValue ==
  ASSUME NEW p, \A i \in 1..4 : p[i] \in Seq(TokenType)
  PROVE  Takes(AllFour(p), ValueMaskOf(p), p[2])
<1>1. PICK a, b, c, d : a = p[1] /\ b = p[2] /\ c = p[3] /\ d = p[4]
  OBVIOUS
<1>2. a \in Seq(TokenType) /\ b \in Seq(TokenType) /\ c \in Seq(TokenType) /\ d \in Seq(TokenType)
  BY <1>1
<1>3. Len(a) \in Nat /\ Len(b) \in Nat /\ Len(c) \in Nat /\ Len(d) \in Nat
  BY ONLY <1>2, LenProperties
<1>4. Takes(a, Zeros(Len(a)), <<>>) /\ Takes(b, Ones(Len(b)), b)
  BY ONLY <1>2, <1>3, TakesNothing
<1>5. Takes(a \o b, Zeros(Len(a)) \o Ones(Len(b)), <<>> \o b)
  BY ONLY <1>4, TakesJoined
<1>6. <<>> \o b = b
  BY ONLY <1>2, ConcatEmptySeq
<1>7. Takes(a \o b, Zeros(Len(a)) \o Ones(Len(b)), b)
  BY ONLY <1>5, <1>6
<1>8. Takes((a \o b) \o c, (Zeros(Len(a)) \o Ones(Len(b))) \o Zeros(Len(c)), b)
  BY ONLY <1>2, <1>3, <1>7, TakesNoMore
<1>9. Takes(((a \o b) \o c) \o d,
            ((Zeros(Len(a)) \o Ones(Len(b))) \o Zeros(Len(c))) \o Zeros(Len(d)), b)
  BY ONLY <1>2, <1>3, <1>8, TakesNoMore
<1> QED BY ONLY <1>1, <1>9 DEF AllFour, ValueMaskOf

-----------------------------------------------------------------------------
(* The place for the summary.                                              *)

LEMMA SplitAt ==
  ASSUME NEW U, NEW s \in Seq(U), NEW h \in Nat, h <= Len(s)
  PROVE  /\ FirstOf(s, h) \in Seq(U) /\ LastOf(s, Len(s) - h) \in Seq(U)
         /\ Len(FirstOf(s, h)) = h /\ Len(LastOf(s, Len(s) - h)) = Len(s) - h
         /\ FirstOf(s, h) \o LastOf(s, Len(s) - h) = s
<1>1. PICK n \in Nat : n = Len(s)
  BY LenProperties
<1>2. PICK a, b : a = FirstOf(s, h) /\ b = LastOf(s, n - h)
  OBVIOUS
<1>3. a \in Seq(U) /\ Len(a) = h /\ \A k \in 1 .. h : a[k] = s[k]
  <2>1. /\ a \in Seq(U) /\ Len(a) = IF h < Len(s) THEN h ELSE Len(s)
        /\ \A k \in 1 .. Len(a) : a[k] = s[k]
    BY <1>2, FirstAre
  <2> QED BY ONLY <1>1, <2>1, h \in Nat, h <= Len(s)
<1>4. b \in Seq(U) /\ Len(b) = n - h /\ \A k \in 1 .. n - h : b[k] = s[h + k]
  <2>1. PICK i \in Nat : i = n - h
    <3>1. n - h \in Nat
      BY ONLY <1>1, h \in Nat, h <= Len(s)
    <3> QED BY ONLY <3>1
  <2>2. /\ LastOf(s, i) \in Seq(U)
        /\ i \in 0 .. Len(s) => /\ Len(LastOf(s, i)) = i
                                 /\ \A k \in 1 .. i : LastOf(s, i)[k] = s[Len(s) - i + k]
    BY ONLY <2>1, i \in Int, s \in Seq(U), LastAre
  <2>3. i \in 0 .. n /\ n - i = h
    BY ONLY <1>1, <2>1, h \in Nat
  <2> QED BY ONLY <1>1, <1>2, <2>1, <2>2, <2>3
<1>5. /\ a \o b \in Seq(U) /\ Len(a \o b) = h + (n - h)
      /\ \A k \in 1 .. h + (n - h) : (a \o b)[k] = IF k <= h THEN a[k] ELSE b[k - h]
  <2>1. /\ a \o b \in Seq(U) /\ Len(a \o b) = Len(a) + Len(b)
        /\ \A k \in 1 .. Len(a) + Len(b) :
              (a \o b)[k] = IF k <= Len(a) THEN a[k] ELSE b[k - Len(a)]
    BY ONLY <1>3, <1>4, ConcatProperties
  <2> QED BY ONLY <1>3, <1>4, <2>1
<1>6. h + (n - h) = n
  BY <1>1
<1>7. ASSUME NEW k \in 1 .. n PROVE (a \o b)[k] = s[k]
  <2>1. CASE k <= h
    BY ONLY <1>3, <1>5, <1>6, <2>1, k \in 1 .. n, h \in Nat
  <2>2. CASE ~(k <= h)
    <3>1. k - h \in 1 .. n - h /\ h + (k - h) = k
      BY ONLY <2>2, k \in 1 .. n, h \in Nat, n \in Nat
    <3> QED BY ONLY <1>4, <1>5, <1>6, <2>2, <3>1, k \in 1 .. n
  <2> QED BY <2>1, <2>2
<1>8. a \o b = s
  <2>1. PICK c : c = a \o b
    OBVIOUS
  <2>2. c \in Seq(U) /\ Len(c) = n /\ \A k \in 1 .. n : c[k] = s[k]
    BY ONLY <1>5, <1>6, <1>7, <2>1
  <2>3. c = s
    BY ONLY <1>1, <2>2, s \in Seq(U), n \in Nat, SameElements
  <2> QED BY ONLY <2>1, <2>3
<1> QED BY <1>1, <1>2, <1>3, <1>4, <1>8

LEMMA SplitIs ==
  ASSUME NEW U, NEW x \in Seq(U), NEW y \in Seq(U)
  PROVE  /\ FirstOf(x \o y, Len(x)) = x
         /\ LastOf(x \o y, Len(x \o y) - Len(x)) = y
<1>1. PICK m \in Nat, n \in Nat : m = Len(x) /\ n = Len(y)
  BY LenProperties
<1>2. PICK s : s = x \o y
  OBVIOUS
<1>3. /\ s \in Seq(U) /\ Len(s) = m + n
      /\ \A k \in 1 .. m + n : s[k] = IF k <= m THEN x[k] ELSE y[k - m]
  <2>1. /\ s \in Seq(U) /\ Len(s) = Len(x) + Len(y)
        /\ \A k \in 1 .. Len(x) + Len(y) : s[k] = IF k <= Len(x) THEN x[k] ELSE y[k - Len(x)]
    BY ONLY <1>2, x \in Seq(U), y \in Seq(U), ConcatProperties
  <2> QED BY ONLY <1>1, <2>1
<1>4. FirstOf(s, m) = x
  <2>1. PICK a : a = FirstOf(s, m)
    OBVIOUS
  <2>2. /\ a \in Seq(U) /\ Len(a) = IF m < Len(s) THEN m ELSE Len(s)
        /\ \A k \in 1 .. Len(a) : a[k] = s[k]
    BY ONLY <1>3, <2>1, m \in Nat, FirstAre
  <2>3. Len(a) = m
    BY ONLY <1>3, <2>2, m \in Nat, n \in Nat
  <2>4. \A k \in 1 .. m : a[k] = x[k]
    BY ONLY <1>3, <2>2, <2>3, m \in Nat, n \in Nat
  <2>5. a = x
    BY ONLY <1>1, <2>2, <2>3, <2>4, x \in Seq(U), m \in Nat, SameElements
  <2> QED BY <2>1, <2>5
<1>5. LastOf(s, n) = y
  <2>1. PICK b : b = LastOf(s, n)
    OBVIOUS
  <2>2. n \in 0 .. m + n /\ (m + n) - n = m
    BY ONLY m \in Nat, n \in Nat
  <2>3. b \in Seq(U) /\ Len(b) = n /\ \A k \in 1 .. n : b[k] = s[(m + n) - n + k]
    <3>1. /\ LastOf(s, n) \in Seq(U)
          /\ n \in 0 .. Len(s) => /\ Len(LastOf(s, n)) = n
                                   /\ \A k \in 1 .. n : LastOf(s, n)[k] = s[Len(s) - n + k]
      <4>1. n \in Int
        BY ONLY n \in Nat
      <4>2. s \in Seq(U)
        BY ONLY <1>3
      <4> QED BY ONLY <4>1, <4>2, LastAre
    <3> QED BY ONLY <1>3, <2>1, <2>2, <3>1
  <2>4. ASSUME NEW k \in 1 .. n PROVE b[k] = y[k]
    <3>1. m + k \in 1 .. m + n /\ ~(m + k <= m) /\ (m + k) - m = k
      BY ONLY k \in 1 .. n, m \in Nat, n \in Nat
    <3> QED BY ONLY <1>3, <2>2, <2>3, <3>1, k \in 1 .. n
  <2>5. b = y
    BY ONLY <1>1, <2>3, <2>4, y \in Seq(U), n \in Nat, SameElements
  <2> QED BY <2>1, <2>5
<1>6. Len(s) - m = n
  BY <1>3
<1> QED BY ONLY <1>1, <1>2, <1>4, <1>5, <1>6

LEMMA MiddleIs ==
  ASSUME NEW U, NEW x \in Seq(U), NEW u \in Seq(U), NEW y \in Seq(U)
  PROVE  SubSeq((x \o u) \o y, Len(x) + 1, Len(x) + Len(u)) = u
<1>1. PICK m \in Nat, j \in Nat, n \in Nat : m = Len(x) /\ j = Len(u) /\ n = Len(y)
  BY LenProperties
<1>2. PICK s : s = x \o u
  OBVIOUS
<1>3. /\ s \in Seq(U) /\ Len(s) = m + j
      /\ \A k \in 1 .. m + j : s[k] = IF k <= m THEN x[k] ELSE u[k - m]
  BY ONLY <1>1, <1>2, x \in Seq(U), u \in Seq(U), ConcatProperties
<1>4. PICK t : t = s \o y
  OBVIOUS
<1>5. /\ t \in Seq(U) /\ Len(t) = (m + j) + n
      /\ \A k \in 1 .. (m + j) + n : t[k] = IF k <= m + j THEN s[k] ELSE y[k - (m + j)]
  <2>1. /\ t \in Seq(U) /\ Len(t) = Len(s) + Len(y)
        /\ \A k \in 1 .. Len(s) + Len(y) : t[k] = IF k <= Len(s) THEN s[k] ELSE y[k - Len(s)]
    BY ONLY <1>3, <1>4, y \in Seq(U), ConcatProperties
  <2> QED BY ONLY <1>1, <1>3, <2>1
<1>6. PICK b : b = SubSeq(t, m + 1, m + j)
  OBVIOUS
<1>7. \A k \in m + 1 .. m + j : t[k] \in U
  <2> TAKE k \in m + 1 .. m + j
  <2>1. k \in 1 .. Len(t)
    BY ONLY <1>5, k \in m + 1 .. m + j, m \in Nat, j \in Nat, n \in Nat
  <2> QED BY ONLY <1>5, <2>1, ElementOfSeq
<1>8. /\ b \in Seq(U) /\ Len(b) = j
      /\ \A k \in 1 .. j : b[k] = t[m + k]
  <2>1. /\ b \in Seq(U)
        /\ Len(b) = IF m + 1 <= m + j THEN (m + j) - (m + 1) + 1 ELSE 0
        /\ \A i \in 1 .. (m + j) - (m + 1) + 1 : b[i] = t[(m + 1) + i - 1]
    <3>1. m + 1 \in Int /\ m + j \in Int
      BY ONLY m \in Nat, j \in Nat
    <3> QED BY ONLY <1>5, <1>6, <1>7, <3>1, SubSeqProperties
  <2>2. /\ (IF m + 1 <= m + j THEN (m + j) - (m + 1) + 1 ELSE 0) = j
        /\ (m + j) - (m + 1) + 1 = j /\ \A i \in 1 .. j : (m + 1) + i - 1 = m + i
    BY ONLY m \in Nat, j \in Nat
  <2> QED BY ONLY <2>1, <2>2
<1>9. ASSUME NEW k \in 1 .. j PROVE b[k] = u[k]
  <2>1. /\ m + k \in 1 .. (m + j) + n /\ m + k \in 1 .. m + j /\ m + k <= m + j
        /\ ~(m + k <= m) /\ (m + k) - m = k
    BY ONLY k \in 1 .. j, m \in Nat, j \in Nat, n \in Nat
  <2> QED BY ONLY <1>3, <1>5, <1>8, <2>1, k \in 1 .. j
<1>10. b = u
  BY ONLY <1>1, <1>8, <1>9, u \in Seq(U), j \in Nat, SameElements
<1> QED BY ONLY <1>1, <1>2, <1>4, <1>6, <1>10

-----------------------------------------------------------------------------
(* The episode's lists.                                                    *)

\* A mask of nothing but zeros, on a list that is the same in both versions.
LEMMA SilentTakes ==
  ASSUME NEW a \in Seq(TokenType), NEW m \in Seq(Bits), Len(m) = Len(a), AllZero(m)
  PROVE  /\ Takes(a, m, <<>>)
         /\ Plain(a) => Piece(a, a, m)
<1>1. PICK n \in Nat : n = Len(a)
  BY LenProperties
<1>2. m = Zeros(n)
  <2>1. m \in [1 .. n -> Bits]
    BY <1>1, LenProperties
  <2> QED BY ONLY <1>1, <2>1, Len(m) = Len(a), AllZero(m) DEF AllZero, Zeros
<1>3. Takes(a, Zeros(n), <<>>)
  BY <1>1, TakesNothing
<1>4. Plain(a) => Piece(a, a, Zeros(n))
  BY <1>1, PlainPiece
<1> QED BY <1>2, <1>3, <1>4

\* What the properties say of the output, of the episode's lists.
Distils(l, w) ==
  /\ Takes(Body(l.alt), VersionMask(l), w)
  /\ Takes(Body(l.ids), ResponseMask(l), w)
  /\ \A k \in 1 .. Len(w) : w[k].what = New
  /\ ~TextsLeftOut => Piece(Body(l.ids), Body(l.alt), VersionMask(l))

Room(l) == l \in ListsType /\ 2 <= Len(l.ids) /\ 2 <= Len(l.alt)

LEMMA GoodRoom ==
  ASSUME NEW l, Good(l), Supervised \/ ~TextsLeftOut,
         Supervised => Len(l.alt) = 2 + Len(l.studentMask)
  PROVE  /\ Room(l)
         /\ Body(l.ids) \in Seq(TokenType) /\ Len(ResponseMask(l)) = Len(Body(l.ids))
         /\ Body(l.alt) \in Seq(TokenType) /\ Len(VersionMask(l)) = Len(Body(l.alt))
         /\ VersionMask(l) \in Seq(Bits) /\ ResponseMask(l) \in Seq(Bits)
         /\ Len(l.mask) = Len(Body(l.ids))
<1>1. l \in ListsType
  BY DEF Good
<1>2. PICK i, m, a, t, s :
        /\ i = l.ids /\ m = l.mask /\ a = l.alt /\ t = l.teacherMask /\ s = l.studentMask
  OBVIOUS
<1>3. /\ i \in Seq(TokenType) /\ a \in Seq(TokenType) /\ m \in Seq(Bits)
      /\ t \in Seq(Bits) /\ s \in Seq(Bits)
      /\ Len(i) \in Nat /\ Len(a) \in Nat /\ Len(m) \in Nat /\ Len(t) \in Nat /\ Len(s) \in Nat
  BY <1>1, <1>2, ListsAre
<1>4. /\ Len(i) = 2 + Len(m)
      /\ Supervised => Len(t) = Len(m) /\ Len(a) = 2 + Len(s)
      /\ ~Supervised => Len(s) = Len(m) /\ Len(a) = 2 + Len(t)
  BY <1>2 DEF Good, Followed
<1>5. 2 <= Len(i) /\ 2 <= Len(a)
  BY ONLY <1>3, <1>4
<1>6. /\ Body(i) \in Seq(TokenType) /\ Len(Body(i)) = Len(i) - 2
      /\ Body(a) \in Seq(TokenType) /\ Len(Body(a)) = Len(a) - 2
  BY <1>3, <1>5, BodyIs
<1>7. /\ Len(Body(i)) = Len(m)
      /\ Supervised => Len(Body(a)) = Len(s)
      /\ ~Supervised => Len(Body(a)) = Len(t)
  BY ONLY <1>3, <1>4, <1>6
<1>8. /\ VersionMask(l) = IF Supervised THEN s ELSE t
      /\ ResponseMask(l) = IF Supervised THEN t ELSE s
  BY <1>2 DEF VersionMask, ResponseMask
<1> QED BY ONLY <1>1, <1>2, <1>3, <1>4, <1>5, <1>6, <1>7, <1>8 DEF Room

LEMMA OutDistils ==
  ASSUME IInv, VersionsOK, Supervised \/ ~TextsLeftOut
  PROVE  \E w : /\ Distils(out, w)
                /\ pc \in {"act", "return", "done"} => w # <<>>
<1>1. Good(out) /\ (Supervised => Len(out.alt) = 2 + Len(out.studentMask))
  BY Holding
<1>2. PICK s, v, m, r : /\ s = Body(out.ids) /\ v = Body(out.alt)
                        /\ m = VersionMask(out) /\ r = ResponseMask(out)
  OBVIOUS
<1>3. /\ s \in Seq(TokenType) /\ Len(r) = Len(s) /\ r \in Seq(Bits)
      /\ v \in Seq(TokenType) /\ Len(m) = Len(v) /\ m \in Seq(Bits)
  BY <1>1, <1>2, GoodRoom
<1>4. PICK w : w = Where(s, r, 1)
  OBVIOUS
<1>5. w \in Seq(TokenType)
  BY ONLY <1>3, <1>4, WhereSame
<1>6. /\ Where(v, m, 1) = w
      /\ \A k \in 1 .. Len(w) : w[k].what = New
      /\ pc \in {"act", "return", "done"} => w # <<>>
      /\ ~TextsLeftOut => Versions(s, v, m)
  BY <1>2, <1>4 DEF VersionsOK
<1>7. Distils(out, w)
  BY ONLY <1>2, <1>3, <1>4, <1>5, <1>6 DEF Distils, Takes, Piece
<1> QED BY <1>6, <1>7

LEMMA KeptLater ==
  ASSUME NEW s, config' = config
  PROVE  Kept(s)' = Kept(s)
<1>1. PICK K : K = {k \in 1 .. Len(s) : ~Replaced(s[k])}
  OBVIOUS
<1>2. PICK J : J = {k \in 1 .. Len(s) : ~Replaced(s[k])}'
  OBVIOUS
<1>3. \A k : k \in K <=> k \in J
  BY <1>1, <1>2 DEF Replaced, Old, Supervised
<1>4. K = J
  BY <1>3
<1>5. Kept(s)' = Chosen(s, J)
  BY <1>2 DEF Kept
<1> QED BY <1>1, <1>4, <1>5 DEF Kept

LEMMA SameTextsLater ==
  ASSUME NEW s, NEW t, config' = config, SameTexts(s, t)
  PROVE  SameTexts(s, t)'
BY DEF SameTexts, Replaced, Old, New, Supervised

LEMMA SameMode ==
  ASSUME config' = config
  PROVE  Supervised' = Supervised /\ TextsLeftOut' = TextsLeftOut /\ New' = New /\ Old' = Old
BY DEF Supervised, TextsLeftOut, New, Old

LEMMA DistilsOut ==
  ASSUME config' = config, NEW o, o = out', NEW w, Distils(o, w),
         pc' \in {"act", "return", "done"} => w # <<>>
  PROVE  VersionsOK'
<1>1. PICK s, v, m, r : /\ s = Body(o.ids) /\ v = Body(o.alt)
                        /\ m = VersionMask(o) /\ r = ResponseMask(o)
  OBVIOUS
<1>2. /\ Where(v, m, 1) = w /\ Where(s, r, 1) = w
      /\ \A k \in 1 .. Len(w) : w[k].what = New
      /\ ~TextsLeftOut => Where(v, m, 0) = Kept(s) /\ SameTexts(s, v)
  BY <1>1 DEF Distils, Takes, Piece, Versions
<1>3. Body(out.ids)' = s /\ Body(out.alt)' = v
  BY <1>1, PromptLength DEF Body
<1>4. VersionMask(out)' = m /\ ResponseMask(out)' = r
  BY <1>1 DEF VersionMask, ResponseMask, Supervised
<1>5. ~TextsLeftOut => Where(v, m, 0) = Kept(s)' /\ SameTexts(s, v)'
  BY <1>2, KeptLater, SameTextsLater
<1>6. Versions(Body(out.ids), Body(out.alt), VersionMask(out))' <=> Versions(s, v, m)'
  BY <1>3, <1>4
<1>7. ~TextsLeftOut => Versions(s, v, m)'
  BY <1>5 DEF Versions
<1>8. New' = New /\ TextsLeftOut' = TextsLeftOut
  BY SameMode
<1> QED BY <1>2, <1>3, <1>4, <1>6, <1>7, <1>8 DEF VersionsOK

\* A text that is neither of the two that are swapped.
LEMMA TextPlain ==
  ASSUME Counted, NEW what \in Kinds, what # Old, NEW traj \in 0..MaxTraj, NEW n \in Nat
  PROVE  Text(what, traj, n) \in Seq(TokenType) /\ Plain(Text(what, traj, n))
<1>1. PICK t : t = Text(what, traj, n)
  OBVIOUS
<1>2. t \in Seq(TokenType) /\ Len(t) = n /\ \A k \in 1 .. n : t[k].what = what
  BY <1>1, TextIs
<1>3. Plain(t)
  BY ONLY <1>2, what # Old DEF Plain, Replaced
<1> QED BY <1>1, <1>2, <1>3

LEMMA TextWhole ==
  ASSUME Counted, NEW what \in Kinds, NEW n \in Nat \ {0}
  PROVE  Whole(Text(what, 0, n), what)
<1>1. PICK t : t = Text(what, 0, n)
  OBVIOUS
<1>2. 0 \in 0 .. MaxTraj
  BY ConfigAssumption
<1>3. t \in Seq(TokenType) /\ Len(t) = n
  BY <1>1, <1>2, TextIs
<1>4. \A k \in 1 .. n : /\ t[k].what = what /\ t[k].traj = 0
                        /\ t[k].step = step /\ t[k].at = k
  BY <1>1 DEF Text
<1>5. t # <<>>
  BY <1>3
<1> QED BY ONLY <1>1, <1>3, <1>4, <1>5 DEF Whole

LEMMA PlainJoined ==
  ASSUME NEW s \in Seq(TokenType), Plain(s), NEW t \in Seq(TokenType), Plain(t)
  PROVE  s \o t \in Seq(TokenType) /\ Plain(s \o t)
<1>1. PICK m \in Nat, n \in Nat : m = Len(s) /\ n = Len(t)
  BY LenProperties
<1>2. /\ s \o t \in Seq(TokenType) /\ Len(s \o t) = m + n
      /\ \A k \in 1 .. m + n : (s \o t)[k] = IF k <= m THEN s[k] ELSE t[k - m]
  BY <1>1, ConcatProperties
<1>3. ASSUME NEW k \in 1 .. m + n PROVE ~Replaced((s \o t)[k])
  <2>1. CASE k <= m
    <3>1. ~Replaced(s[k])
      BY <1>1, <2>1 DEF Plain
    <3> QED BY ONLY <1>2, <2>1, <3>1
  <2>2. CASE ~(k <= m)
    <3>1. k - m \in 1 .. n
      BY <2>2
    <3>2. ~Replaced(t[k - m])
      BY <1>1, <3>1 DEF Plain
    <3> QED BY ONLY <1>2, <2>2, <3>2
  <2> QED BY <2>1, <2>2
<1> QED BY <1>2, <1>3 DEF Plain

\* The lists after a text that somebody else wrote.
LEMMA ToldParts ==
  ASSUME NEW l \in ListsType, NEW text \in Seq(TokenType)
  PROVE  /\ Told(l, text) \in ListsType
         /\ Told(l, text).ids = l.ids \o text /\ Told(l, text).alt = l.alt \o text
         /\ Told(l, text).teacherMask = l.teacherMask \o Zeros(Len(text))
         /\ Told(l, text).studentMask = l.studentMask \o Zeros(Len(text))
         /\ Told(l, text).hole = l.hole /\ Told(l, text).root = l.root
<1>1. /\ Told(l, text).ids = l.ids \o text /\ Told(l, text).alt = l.alt \o text
      /\ Told(l, text).teacherMask = l.teacherMask \o Zeros(Len(text))
      /\ Told(l, text).studentMask = l.studentMask \o Zeros(Len(text))
  BY DEF Told, ListsType
<1> QED BY <1>1, ToldAre

LEMMA ToldDistils ==
  ASSUME NEW l, Room(l), NEW w, Distils(l, w), NEW text \in Seq(TokenType), Plain(text)
  PROVE  Distils(Told(l, text), w)
<1>1. PICK n \in Nat : n = Len(text)
  BY LenProperties
<1>2. PICK i, a : i = l.ids /\ a = l.alt
  OBVIOUS
<1>3. i \in Seq(TokenType) /\ a \in Seq(TokenType) /\ 2 <= Len(i) /\ 2 <= Len(a) /\ l \in ListsType
  BY <1>2, ListsAre DEF Room
<1>4. Body(i \o text) = Body(i) \o text /\ Body(a \o text) = Body(a) \o text
  BY <1>3, BodyJoined
<1>5. PICK t : t = Told(l, text)
  OBVIOUS
<1>6. /\ Body(t.ids) = Body(i) \o text /\ Body(t.alt) = Body(a) \o text
      /\ VersionMask(t) = VersionMask(l) \o Zeros(n)
      /\ ResponseMask(t) = ResponseMask(l) \o Zeros(n)
  BY <1>1, <1>2, <1>3, <1>4, <1>5, ToldParts DEF VersionMask, ResponseMask
<1>7. PICK m, r : m = VersionMask(l) /\ r = ResponseMask(l)
  OBVIOUS
<1>8. /\ Takes(Body(a), m, w) /\ Takes(Body(i), r, w)
      /\ \A k \in 1 .. Len(w) : w[k].what = New
      /\ ~TextsLeftOut => Piece(Body(i), Body(a), m)
  BY <1>2, <1>7 DEF Distils
<1>9. Takes(Body(a) \o text, m \o Zeros(n), w)
  BY ONLY <1>1, <1>8, n \in Nat, text \in Seq(TokenType), TakesNoMore
<1>10. Takes(Body(i) \o text, r \o Zeros(n), w)
  BY ONLY <1>1, <1>8, n \in Nat, text \in Seq(TokenType), TakesNoMore
<1>11. Piece(text, text, Zeros(n))
  BY <1>1, PlainPiece
<1>12. ~TextsLeftOut => Piece(Body(i) \o text, Body(a) \o text, m \o Zeros(n))
  BY ONLY <1>8, <1>11, PieceJoined
<1> QED BY ONLY <1>5, <1>6, <1>7, <1>8, <1>9, <1>10, <1>12 DEF Distils

\* Only the tokens and two of the masks are looked at.
LEMMA DistilsSame ==
  ASSUME NEW l, NEW w, Distils(l, w), NEW t, t.ids = l.ids, t.alt = l.alt,
         t.teacherMask = l.teacherMask, t.studentMask = l.studentMask
  PROVE  Distils(t, w)
<1>1. VersionMask(t) = VersionMask(l) /\ ResponseMask(t) = ResponseMask(l)
  BY DEF VersionMask, ResponseMask
<1>2. Body(t.ids) = Body(l.ids) /\ Body(t.alt) = Body(l.alt)
  OBVIOUS
<1> QED BY ONLY <1>1, <1>2, Distils(l, w) DEF Distils

LEMMA RewardSame ==
  ASSUME NEW l \in ListsType, NEW s
  PROVE  LET t == [l EXCEPT !.reward = s]
         IN  /\ t.ids = l.ids /\ t.alt = l.alt
             /\ t.teacherMask = l.teacherMask /\ t.studentMask = l.studentMask
BY DEF ListsType

\* What the planner returns, as part of the episode's lists.
DistilsPart(r, w) ==
  /\ r \in ListsType
  /\ Takes(r.alt, VersionMask(r), w)
  /\ Takes(r.ids, ResponseMask(r), w)
  /\ w # <<>> /\ \A k \in 1 .. Len(w) : w[k].what = New
  /\ ~TextsLeftOut => Piece(r.ids, r.alt, VersionMask(r))

LEMMA JoiningDistils ==
  ASSUME NEW l, Room(l), NEW w, Distils(l, w), NEW r, NEW v, DistilsPart(r, v)
  PROVE  Distils(Joining(l, r), w \o v) /\ w \o v # <<>>
<1>1. PICK i, a, j, b : i = l.ids /\ a = l.alt /\ j = r.ids /\ b = r.alt
  OBVIOUS
<1>2. /\ l \in ListsType /\ r \in ListsType
      /\ i \in Seq(TokenType) /\ a \in Seq(TokenType) /\ 2 <= Len(i) /\ 2 <= Len(a)
      /\ j \in Seq(TokenType) /\ b \in Seq(TokenType)
  BY <1>1, ListsAre DEF Room, DistilsPart
<1>3. Body(i \o j) = Body(i) \o j /\ Body(a \o b) = Body(a) \o b
  BY <1>2, BodyJoined
<1>4. PICK m, s, z, t : /\ m = VersionMask(l) /\ s = ResponseMask(l)
                        /\ z = VersionMask(r) /\ t = ResponseMask(r)
  OBVIOUS
<1>5. PICK o : o = Joining(l, r)
  OBVIOUS
<1>6. /\ Body(o.ids) = Body(i) \o j /\ Body(o.alt) = Body(a) \o b
      /\ VersionMask(o) = m \o z /\ ResponseMask(o) = s \o t
  <2>1. /\ o.ids = i \o j /\ o.alt = a \o b
        /\ o.teacherMask = l.teacherMask \o r.teacherMask
        /\ o.studentMask = l.studentMask \o r.studentMask
    BY <1>1, <1>2, <1>5 DEF Joining, ListsType
  <2> QED BY <1>3, <1>4, <2>1 DEF VersionMask, ResponseMask
<1>7. /\ Takes(Body(a), m, w) /\ Takes(Body(i), s, w)
      /\ \A k \in 1 .. Len(w) : w[k].what = New
      /\ ~TextsLeftOut => Piece(Body(i), Body(a), m)
  BY <1>1, <1>4 DEF Distils
<1>8. /\ Takes(b, z, v) /\ Takes(j, t, v) /\ v # <<>>
      /\ \A k \in 1 .. Len(v) : v[k].what = New
      /\ ~TextsLeftOut => Piece(j, b, z)
  BY <1>1, <1>4 DEF DistilsPart
<1>9. Takes(Body(a) \o b, m \o z, w \o v) /\ Takes(Body(i) \o j, s \o t, w \o v)
  BY ONLY <1>7, <1>8, TakesJoined
<1>10. ~TextsLeftOut => Piece(Body(i) \o j, Body(a) \o b, m \o z)
  BY ONLY <1>7, <1>8, PieceJoined
<1>11. w \in Seq(TokenType) /\ v \in Seq(TokenType)
  BY <1>7, <1>8 DEF Takes
<1>12. PICK p \in Nat, q \in Nat : p = Len(w) /\ q = Len(v)
  BY <1>11, LenProperties
<1>13. /\ Len(w \o v) = p + q
       /\ \A k \in 1 .. p + q : (w \o v)[k] = IF k <= p THEN w[k] ELSE v[k - p]
  BY ONLY <1>11, <1>12, ConcatProperties
<1>14. ASSUME NEW k \in 1 .. p + q PROVE (w \o v)[k].what = New
  <2>1. CASE k <= p
    <3>1. k \in 1 .. p
      BY <2>1
    <3> QED BY ONLY <1>7, <1>12, <1>13, <2>1, <3>1, k \in 1 .. p + q
  <2>2. CASE ~(k <= p)
    <3>1. k - p \in 1 .. q
      BY <2>2
    <3> QED BY ONLY <1>8, <1>12, <1>13, <2>2, <3>1, k \in 1 .. p + q
  <2> QED BY <2>1, <2>2
<1>15. w \o v # <<>>
  <2>1. q # 0
    BY ONLY <1>8, <1>11, <1>12, EmptySeq
  <2>2. p + q # 0
    BY <2>1
  <2>3. Len(<<>>) = 0
    OBVIOUS
  <2> QED BY ONLY <1>13, <2>2, <2>3
<1>16. \A k \in 1 .. Len(w \o v) : (w \o v)[k].what = New
  BY ONLY <1>13, <1>14
<1> QED BY ONLY <1>5, <1>6, <1>9, <1>10, <1>15, <1>16 DEF Distils

-----------------------------------------------------------------------------
(* The lists of an episode that returns.                                   *)

\* What is not longer is not cut, and what is as long is not padded.
LEMMA Uncut ==
  ASSUME NEW U, NEW s \in Seq(U), NEW n \in Nat, Len(s) <= n
  PROVE  FirstOf(s, n) = s
<1>1. PICK j \in Nat : j = Len(s)
  BY LenProperties
<1>2. PICK t : t = FirstOf(s, n)
  OBVIOUS
<1>3. /\ t \in Seq(U) /\ Len(t) = IF n < Len(s) THEN n ELSE Len(s)
      /\ \A k \in 1 .. Len(t) : t[k] = s[k]
  BY <1>2, FirstAre
<1>4. Len(t) = j
  BY ONLY <1>1, <1>3, Len(s) <= n, n \in Nat
<1>5. t = s
  BY ONLY <1>1, <1>3, <1>4, s \in Seq(U), SameElements
<1> QED BY <1>2, <1>5

LEMMA Unpadded ==
  ASSUME NEW m \in Seq(Bits), NEW s \in Seq(TokenType), Len(m) = Len(s)
  PROVE  Padded(m, s) = m
<1>1. PICK n \in Nat : n = Len(s)
  BY LenProperties
<1>2. Padded(m, s) = [k \in 1 .. n |-> IF k <= n THEN m[k] ELSE 2]
  BY <1>1 DEF Padded
<1>3. m \in [1 .. n -> Bits]
  BY <1>1, LenProperties
<1> QED BY ONLY <1>2, <1>3

LEMMA ReturnDistils ==
  ASSUME IInv, VersionsOK, Return, Supervised \/ ~TextsLeftOut, ~Overlong
  PROVE  /\ output'.response = Body(out.ids)
         /\ IF Supervised
            THEN /\ output'.student = Body(out.alt) /\ output'.studentMask = VersionMask(out)
                 /\ output'.teacher = Body(out.ids) /\ output'.teacherMask = ResponseMask(out)
            ELSE /\ output'.teacher = Body(out.alt) /\ output'.teacherMask = VersionMask(out)
                 /\ output'.student = Body(out.ids) /\ output'.studentMask = ResponseMask(out)
<1>1. Good(out) /\ (Supervised => Len(out.alt) = 2 + Len(out.studentMask))
  BY Holding
<1>2. PICK n \in Nat : n = config.length
  BY Holding DEF ConfigType
<1>3. PICK i, a, x, t, s, b, c :
        /\ i = out.ids /\ a = out.alt /\ x = out.mask
        /\ t = out.teacherMask /\ s = out.studentMask /\ b = Body(out.ids) /\ c = Body(out.alt)
  OBVIOUS
<1>4. PICK m, r : m = VersionMask(out) /\ r = ResponseMask(out)
  OBVIOUS
<1>5. /\ b \in Seq(TokenType) /\ Len(r) = Len(b) /\ r \in Seq(Bits)
      /\ c \in Seq(TokenType) /\ Len(m) = Len(c) /\ m \in Seq(Bits)
      /\ Len(x) = Len(b) /\ Room(out)
  BY <1>1, <1>3, <1>4, GoodRoom
<1>6. /\ m = IF Supervised THEN s ELSE t
      /\ r = IF Supervised THEN t ELSE s
  BY <1>3, <1>4 DEF VersionMask, ResponseMask
<1>7. Len(x) \in Nat /\ Len(s) \in Nat /\ Len(t) \in Nat /\ i \in Seq(TokenType) /\ a \in Seq(TokenType)
      /\ 2 <= Len(i) /\ 2 <= Len(a)
  BY <1>3, <1>5, ListsAre DEF Room
<1>8. Len(x) <= n /\ Len(s) <= n /\ Len(t) <= n
  <2>1. ~(Len(x) > n) /\ ~(Len(s) > n) /\ ~(Len(t) > n)
    BY <1>2, <1>3 DEF Overlong
  <2> QED BY ONLY <1>7, <2>1, n \in Nat
<1>9. LastOf(i, Len(x)) = b /\ LastOf(a, Len(m)) = c
  <2>1. LastOf(i, Len(i) - 2) = b /\ Len(b) = Len(i) - 2
    BY <1>3, <1>7, BodyIs
  <2>2. LastOf(a, Len(a) - 2) = c /\ Len(c) = Len(a) - 2
    BY <1>3, <1>7, BodyIs
  <2> QED BY ONLY <1>5, <2>1, <2>2
<1>10. Len(b) <= n /\ Len(c) <= n /\ Len(m) <= n /\ Len(r) <= n
  BY ONLY <1>5, <1>6, <1>8
<1>11. FirstOf(b, n) = b /\ FirstOf(c, n) = c
  BY ONLY <1>5, <1>10, n \in Nat, Uncut
<1>12. FirstOf(m, n) = m /\ FirstOf(r, n) = r
  BY ONLY <1>5, <1>10, n \in Nat, Uncut
<1>13. Padded(m, c) = m /\ Padded(r, b) = r
  BY ONLY <1>5, Unpadded
<1>14. PICK q : q = FirstOf(LastOf(a, IF Supervised THEN Len(s) ELSE Len(t)), n)
  OBVIOUS
<1>15. q = c
  BY ONLY <1>6, <1>9, <1>11, <1>14
<1>16. PICK p : p = FirstOf(LastOf(i, Len(x)), n)
  OBVIOUS
<1>17. p = b
  BY ONLY <1>9, <1>11, <1>16
<1>18. PICK st, te : /\ st = IF Supervised THEN q ELSE p
                     /\ te = IF Supervised THEN p ELSE q
  OBVIOUS
<1>19. /\ output'.response = p
       /\ output'.student = st /\ output'.studentMask = Padded(FirstOf(s, n), st)
       /\ output'.teacher = te /\ output'.teacherMask = Padded(FirstOf(t, n), te)
  BY <1>2, <1>3, <1>14, <1>16, <1>18 DEF Return
<1>20. CASE Supervised
  <2>1. st = c /\ te = b /\ m = s /\ r = t
    BY ONLY <1>6, <1>15, <1>17, <1>18, <1>20
  <2> QED BY ONLY <1>3, <1>4, <1>12, <1>13, <1>17, <1>19, <1>20, <2>1
<1>21. CASE ~Supervised
  <2>1. st = b /\ te = c /\ m = t /\ r = s
    BY ONLY <1>6, <1>15, <1>17, <1>18, <1>21
  <2> QED BY ONLY <1>3, <1>4, <1>12, <1>13, <1>17, <1>19, <1>21, <2>1
<1> QED BY <1>20, <1>21

LEMMA ReturnKeepsVersions ==
  ASSUME IInv, VersionsOK, Return
  PROVE  VersionsOK' /\ DistilledAlike' /\ SwappedInPlace'
<1>1. config' = config /\ out' = out /\ pc' = "done" /\ pc = "return"
  BY DEF Return
<1>2. /\ Supervised' = Supervised /\ TextsLeftOut' = TextsLeftOut
      /\ New' = New /\ Overlong' = Overlong
  BY <1>1, SameMode DEF Overlong
<1>3. CASE ~(Supervised \/ ~TextsLeftOut)
  BY <1>2, <1>3 DEF VersionsOK, DistilledAlike, SwappedInPlace
<1>4. CASE Supervised \/ ~TextsLeftOut
  <2>1. PICK w : Distils(out, w) /\ w # <<>>
    BY <1>1, <1>4, OutDistils
  <2>2. VersionsOK'
    BY <1>1, <2>1, DistilsOut
  <2>3. CASE Overlong
    BY <1>2, <2>2, <2>3 DEF DistilledAlike, SwappedInPlace
  <2>4. CASE ~Overlong
    <3>1. PICK s, v, m, r : /\ s = Body(out.ids) /\ v = Body(out.alt)
                            /\ m = VersionMask(out) /\ r = ResponseMask(out)
      OBVIOUS
    <3>2. /\ output'.response = s
          /\ IF Supervised
             THEN /\ output'.student = v /\ output'.studentMask = m
                  /\ output'.teacher = s /\ output'.teacherMask = r
             ELSE /\ output'.teacher = v /\ output'.teacherMask = m
                  /\ output'.student = s /\ output'.studentMask = r
      BY <1>4, <2>4, <3>1, ReturnDistils
    <3>3. /\ Where(v, m, 1) = w /\ Where(s, r, 1) = w
          /\ \A k \in 1 .. Len(w) : w[k].what = New
          /\ ~TextsLeftOut => Where(v, m, 0) = Kept(s) /\ SameTexts(s, v)
      BY <2>1, <3>1 DEF Distils, Takes, Piece, Versions
    <3>4. SameTokensDistilled'
      <4>1. Where(output'.teacher, output'.teacherMask, 1) = w
            /\ Where(output'.student, output'.studentMask, 1) = w
        BY ONLY <3>2, <3>3
      <4> QED BY ONLY <1>2, <2>1, <3>3, <4>1 DEF SameTokensDistilled
    <3>5. SwappedInPlace'
      <4> SUFFICES ASSUME ~TextsLeftOut
                   PROVE  SwappedInPlace'
        BY <1>2 DEF SwappedInPlace
      <4>1. Kept(s)' = Kept(s) /\ SameTexts(s, v)'
        BY <1>1, <3>3, KeptLater, SameTextsLater
      <4>2. Kept(output.response)' = Kept(s)
        BY <3>2, <4>1
      <4>3. (IF Supervised THEN output.student ELSE output.teacher)' = v
            /\ (IF Supervised THEN output.studentMask ELSE output.teacherMask)' = m
        BY <1>2, <3>2
      <4>4. SameTexts(output.response, IF Supervised THEN output.student ELSE output.teacher)'
        BY <3>2, <4>1, <4>3
      <4>5. Where(v, m, 0) = Kept(s)
        BY <3>3
      <4> QED BY <4>2, <4>3, <4>4, <4>5 DEF SwappedInPlace
    <3> QED BY <2>2, <3>4, <3>5 DEF DistilledAlike
  <2> QED BY <2>3, <2>4
<1> QED BY <1>3, <1>4

-----------------------------------------------------------------------------
(* The planner's lists.                                                    *)

\* One text of the response is missing in the version, and it is whole.
Missing(l) ==
  \E x, u, y \in Seq(TokenType) :
    /\ l.ids = (x \o u) \o y /\ l.alt = x \o y
    /\ Len(x) = l.hole /\ 2 <= Len(x)
    /\ Plain(Body(x)) /\ Plain(y)
    /\ Whole(u, "understanding")

Unchanged(l) == l.alt = l.ids /\ Plain(Body(l.ids))

\* What PlanOK says of the lists; first before the understanding.
PlanSound(l, first) ==
  /\ l \in ListsType
  /\ Supervised \/ ~TextsLeftOut => AllZero(l.teacherMask)
  /\ Supervised =>
        /\ ~first => 2 <= l.hole
        /\ ~TextsLeftOut => IF first THEN Unchanged(l) ELSE Missing(l)
  /\ ~Supervised /\ ~TextsLeftOut =>
        /\ Unchanged(l)
        /\ Takes(Body(l.ids), l.studentMask, l.root)
        /\ IF first THEN l.root = <<>> ELSE Whole(l.root, "understanding")

LEMMA PlanIs ==
  ASSUME IInv, PlanOK, Planning
  PROVE  PlanSound(plan, pc = "expand")
<1>1. Good(plan) /\ Placed(plan) /\ plan \in ListsType
  BY Holding DEF Good
<1>2. Supervised \/ ~TextsLeftOut => AllZero(plan.teacherMask)
  BY DEF PlanOK, AllZero
<1>3. Supervised /\ pc # "expand" => 2 <= plan.hole
  BY PromptLength DEF PlanOK
<1>4. Supervised /\ ~TextsLeftOut /\ pc = "expand" => Unchanged(plan)
  BY DEF PlanOK, Unchanged
<1>5. ASSUME Supervised, ~TextsLeftOut, pc # "expand" PROVE Missing(plan)
  <2>1. PICK i, a, h : i = plan.ids /\ a = plan.alt /\ h = plan.hole
    OBVIOUS
  <2>2. /\ i \in Seq(TokenType) /\ a \in Seq(TokenType) /\ h \in Nat /\ h <= Len(a) /\ 2 <= h
        /\ Len(i) \in Nat
    BY <1>1, <1>3, <1>5, <2>1, ListsAre DEF Placed
  <2>3. PICK x, y : x = FirstOf(a, h) /\ y = LastOf(a, Len(a) - h)
    OBVIOUS
  <2>4. x \in Seq(TokenType) /\ y \in Seq(TokenType) /\ Len(x) = h /\ x \o y = a
    BY <2>2, <2>3, SplitAt
  <2>5. PICK n \in 1 .. (Len(i) - h) :
          /\ i = x \o SubSeq(i, h + 1, h + n) \o y
          /\ IsUnderstanding(SubSeq(i, h + 1, h + n))
          /\ Plain(Body(x)) /\ Plain(y)
    BY <1>5, <2>1, <2>3 DEF PlanOK
  <2>6. PICK u : u = SubSeq(i, h + 1, h + n)
    OBVIOUS
  <2>7. u \in Seq(TokenType)
    <3>1. h + 1 \in Int /\ h + n \in Int
      BY <2>2
    <3>2. \A k \in h + 1 .. h + n : i[k] \in TokenType
      <4> TAKE k \in h + 1 .. h + n
      <4>1. k \in 1 .. Len(i)
        BY ONLY <2>2, k \in h + 1 .. h + n, n \in 1 .. (Len(i) - h)
      <4> QED BY ONLY <2>2, <4>1, ElementOfSeq
    <3> QED BY ONLY <2>2, <2>6, <3>1, <3>2, SubSeqProperties
  <2>8. Whole(u, "understanding")
    BY ONLY <2>5, <2>6, <2>7 DEF Whole, IsUnderstanding
  <2> QED BY <2>1, <2>2, <2>4, <2>5, <2>6, <2>7, <2>8 DEF Missing
<1>6. ASSUME ~Supervised, ~TextsLeftOut
      PROVE  /\ Unchanged(plan)
             /\ Takes(Body(plan.ids), plan.studentMask, plan.root)
             /\ IF pc = "expand" THEN plan.root = <<>> ELSE Whole(plan.root, "understanding")
  <2>1. PICK i, a, s, t, m, r :
          /\ i = plan.ids /\ a = plan.alt /\ s = plan.studentMask /\ t = plan.teacherMask
          /\ m = plan.mask /\ r = plan.root
    OBVIOUS
  <2>2. /\ i \in Seq(TokenType) /\ s \in Seq(Bits) /\ r \in Seq(TokenType)
        /\ Len(i) = 2 + Len(m) /\ Len(s) = Len(m) /\ Len(m) \in Nat
    BY <1>1, <1>6, <2>1, ListsAre DEF Good, Followed
  <2>3. Body(i) \in Seq(TokenType) /\ Len(Body(i)) = Len(s)
    <3>1. 2 <= Len(i)
      BY ONLY <2>2
    <3>2. Body(i) \in Seq(TokenType) /\ Len(Body(i)) = Len(i) - 2
      BY ONLY <2>2, <3>1, BodyIs
    <3> QED BY ONLY <2>2, <3>2
  <2>4. /\ a = i /\ Plain(Body(i)) /\ Where(Body(i), s, 1) = r
        /\ IF pc = "expand" THEN r = <<>> ELSE IsUnderstanding(r)
    BY <1>6, <2>1 DEF PlanOK
  <2>5. pc # "expand" => Whole(r, "understanding")
    BY ONLY <2>2, <2>4 DEF Whole, IsUnderstanding
  <2>6. Takes(Body(i), s, r)
    BY ONLY <2>2, <2>3, <2>4 DEF Takes
  <2> QED BY ONLY <2>1, <2>4, <2>5, <2>6 DEF Unchanged
<1> QED BY <1>1, <1>2, <1>3, <1>4, <1>5, <1>6 DEF PlanSound

LEMMA PlainLater ==
  ASSUME NEW s, config' = config, Plain(s)
  PROVE  Plain(s)'
BY DEF Plain, Replaced, Old, Supervised

LEMMA BodyLater ==
  ASSUME NEW s
  PROVE  Body(s)' = Body(s)
BY PromptLength DEF Body

LEMMA WholeLater ==
  ASSUME NEW s, step' = step, Whole(s, "understanding")
  PROVE  IsUnderstanding(s)'
BY DEF Whole, IsUnderstanding

LEMMA IsPlan ==
  ASSUME config' = config, step' = step, NEW l, l = plan', Planning',
         PlanSound(l, pc' = "expand")
  PROVE  PlanOK'
<1>1. Supervised' = Supervised /\ TextsLeftOut' = TextsLeftOut
  BY SameMode
<1>2. Supervised \/ ~TextsLeftOut => \A k \in 1 .. Len(l.teacherMask) : l.teacherMask[k] = 0
  BY DEF PlanSound, AllZero
<1>3. Supervised /\ pc' # "expand" => 2 <= l.hole
  BY DEF PlanSound
<1>4. ASSUME Supervised, ~TextsLeftOut, pc' = "expand"
      PROVE  l.alt = l.ids /\ Plain(Body(plan.ids))'
  <2>1. l.alt = l.ids /\ Plain(Body(l.ids))
    BY <1>4 DEF PlanSound, Unchanged
  <2>2. Plain(Body(l.ids))'
    <3>1. PICK s : s = Body(l.ids)
      OBVIOUS
    <3>2. Plain(s)'
      BY <2>1, <3>1, PlainLater
    <3> QED BY <3>1, <3>2, BodyLater
  <2> QED BY <2>1, <2>2
<1>5. ASSUME Supervised, ~TextsLeftOut, pc' # "expand"
      PROVE  /\ Plain(Body(FirstOf(plan.alt, plan.hole)))'
             /\ Plain(LastOf(plan.alt, Len(plan.alt) - plan.hole))'
             /\ \E n \in 1 .. (Len(l.ids) - l.hole) :
                   /\ l.ids = FirstOf(l.alt, l.hole) \o SubSeq(l.ids, l.hole + 1, l.hole + n)
                                \o LastOf(l.alt, Len(l.alt) - l.hole)
                   /\ IsUnderstanding(SubSeq(plan.ids, plan.hole + 1, plan.hole + n))'
  <2>1. Missing(l)
    BY <1>5 DEF PlanSound
  <2>2. PICK x \in Seq(TokenType), u \in Seq(TokenType), y \in Seq(TokenType) :
          /\ l.ids = (x \o u) \o y /\ l.alt = x \o y
          /\ Len(x) = l.hole /\ 2 <= Len(x)
          /\ Plain(Body(x)) /\ Plain(y)
          /\ Whole(u, "understanding")
    BY <2>1 DEF Missing
  <2>3. FirstOf(x \o y, Len(x)) = x /\ LastOf(x \o y, Len(x \o y) - Len(x)) = y
    BY SplitIs
  <2>4. SubSeq((x \o u) \o y, Len(x) + 1, Len(x) + Len(u)) = u
    BY MiddleIs
  <2>5. PICK n \in Nat : n = Len(u)
    BY LenProperties
  <2>6. n \in 1 .. (Len(l.ids) - l.hole)
    <3>1. n # 0
      BY <2>2, <2>5, EmptySeq DEF Whole
    <3>2. Len((x \o u) \o y) = Len(x) + Len(u) + Len(y)
      BY ThreeJoined
    <3>3. Len(x) \in Nat /\ Len(y) \in Nat
      BY LenProperties
    <3> QED BY ONLY <2>2, <2>5, <3>1, <3>2, <3>3, n \in Nat
  <2>7. Plain(y)' /\ IsUnderstanding(u)'
    BY <2>2, PlainLater, WholeLater
  <2>8. Plain(Body(x))'
    <3>1. PICK s : s = Body(x)
      OBVIOUS
    <3>2. Plain(s)'
      BY <2>2, <3>1, PlainLater
    <3> QED BY <3>1, <3>2, BodyLater
  <2>9. FirstOf(l.alt, l.hole) = x /\ LastOf(l.alt, Len(l.alt) - l.hole) = y
    BY ONLY <2>2, <2>3
  <2>10. SubSeq(l.ids, l.hole + 1, l.hole + n) = u
    BY ONLY <2>2, <2>4, <2>5
  <2>11. /\ Plain(Body(FirstOf(plan.alt, plan.hole)))'
         /\ Plain(LastOf(plan.alt, Len(plan.alt) - plan.hole))'
         /\ IsUnderstanding(SubSeq(plan.ids, plan.hole + 1, plan.hole + n))'
    BY <2>7, <2>8, <2>9, <2>10
  <2> QED BY <2>2, <2>6, <2>9, <2>10, <2>11
<1>6. ASSUME ~Supervised, ~TextsLeftOut
      PROVE  /\ l.alt = l.ids /\ Plain(Body(plan.ids))'
             /\ Where(Body(plan.ids), plan.studentMask, 1)' = l.root
             /\ IF pc' = "expand" THEN l.root = <<>> ELSE IsUnderstanding(plan.root)'
  <2>1. /\ l.alt = l.ids /\ Plain(Body(l.ids))
        /\ Takes(Body(l.ids), l.studentMask, l.root)
        /\ IF pc' = "expand" THEN l.root = <<>> ELSE Whole(l.root, "understanding")
    BY <1>6 DEF PlanSound, Unchanged
  <2>2. PICK s, r : s = Body(l.ids) /\ r = l.root
    OBVIOUS
  <2>3. Plain(s)' /\ (pc' # "expand" => IsUnderstanding(r)')
    BY <2>1, <2>2, PlainLater, WholeLater
  <2>4. Body(plan.ids)' = s
    BY <2>2, BodyLater
  <2>5. Plain(Body(plan.ids))' /\ (pc' # "expand" => IsUnderstanding(plan.root)')
    BY <2>2, <2>3, <2>4
  <2>6. Where(s, l.studentMask, 1) = r
    BY <2>1, <2>2 DEF Takes
  <2> QED BY <2>1, <2>2, <2>4, <2>5, <2>6
<1> QED BY <1>1, <1>2, <1>3, <1>4, <1>5, <1>6, PromptLength DEF PlanOK

-----------------------------------------------------------------------------
(* The planner's lists, step by step.                                      *)

LEMMA SilentOn ==
  ASSUME NEW m \in Seq(Bits), AllZero(m), NEW n \in Nat
  PROVE  m \o Zeros(n) \in Seq(Bits) /\ AllZero(m \o Zeros(n))
<1>1. PICK z : z = Zeros(n)
  OBVIOUS
<1>2. z \in Seq(Bits) /\ Len(z) = n /\ \A k \in 1 .. n : z[k] = 0
  BY <1>1, ZerosAre
<1>3. PICK j \in Nat : j = Len(m)
  BY LenProperties
<1>4. /\ m \o z \in Seq(Bits) /\ Len(m \o z) = j + n
      /\ \A k \in 1 .. j + n : (m \o z)[k] = IF k <= j THEN m[k] ELSE z[k - j]
  <2>1. /\ m \o z \in Seq(Bits) /\ Len(m \o z) = Len(m) + Len(z)
        /\ \A k \in 1 .. Len(m) + Len(z) : (m \o z)[k] = IF k <= Len(m) THEN m[k] ELSE z[k - Len(m)]
    BY ONLY <1>2, m \in Seq(Bits), ConcatProperties
  <2> QED BY ONLY <1>2, <1>3, <2>1
<1>5. ASSUME NEW k \in 1 .. j + n PROVE (m \o z)[k] = 0
  <2>1. CASE k <= j
    BY ONLY <1>3, <1>4, <2>1, AllZero(m), k \in 1 .. j + n DEF AllZero
  <2>2. CASE ~(k <= j)
    <3>1. k - j \in 1 .. n
      BY <2>2
    <3> QED BY ONLY <1>2, <1>4, <2>2, <3>1, k \in 1 .. j + n
  <2> QED BY <2>1, <2>2
<1> QED BY ONLY <1>1, <1>4, <1>5 DEF AllZero

\* A text goes to the end of a list and of its version.
LEMMA UnchangedOn ==
  ASSUME NEW l, Room(l), Unchanged(l), NEW t \in Seq(TokenType), Plain(t),
         NEW o, o.ids = l.ids \o t, o.alt = l.alt \o t
  PROVE  Unchanged(o) /\ Body(o.ids) = Body(l.ids) \o t
<1>1. PICK i : i = l.ids
  OBVIOUS
<1>2. i \in Seq(TokenType) /\ 2 <= Len(i) /\ l.alt = i /\ Plain(Body(i))
  BY <1>1, ListsAre DEF Room, Unchanged
<1>3. Body(i \o t) = Body(i) \o t /\ Body(i) \in Seq(TokenType)
  BY <1>2, BodyJoined
<1>4. Plain(Body(i) \o t)
  BY ONLY <1>2, <1>3, t \in Seq(TokenType), Plain(t), PlainJoined
<1> QED BY <1>1, <1>2, <1>3, <1>4 DEF Unchanged

LEMMA MissingOn ==
  ASSUME NEW l, Missing(l), NEW t \in Seq(TokenType), Plain(t),
         NEW o, o.ids = l.ids \o t, o.alt = l.alt \o t, o.hole = l.hole
  PROVE  Missing(o)
<1>1. PICK x \in Seq(TokenType), u \in Seq(TokenType), y \in Seq(TokenType) :
        /\ l.ids = (x \o u) \o y /\ l.alt = x \o y
        /\ Len(x) = l.hole /\ 2 <= Len(x)
        /\ Plain(Body(x)) /\ Plain(y)
        /\ Whole(u, "understanding")
  BY DEF Missing
<1>2. y \o t \in Seq(TokenType) /\ Plain(y \o t)
  BY <1>1, PlainJoined
<1>3. PICK s : s = x \o u
  OBVIOUS
<1>4. s \in Seq(TokenType)
  BY <1>3, ConcatProperties
<1>5. s \o (y \o t) = (s \o y) \o t
  <2>1. Regroups(s, y, t)
    BY ONLY <1>4, y \in Seq(TokenType), t \in Seq(TokenType), Regrouping
  <2> QED BY ONLY <2>1 DEF Regroups
<1>6. x \o (y \o t) = (x \o y) \o t
  <2>1. Regroups(x, y, t)
    BY ONLY x \in Seq(TokenType), y \in Seq(TokenType), t \in Seq(TokenType), Regrouping
  <2> QED BY ONLY <2>1 DEF Regroups
<1>7. o.ids = (x \o u) \o (y \o t) /\ o.alt = x \o (y \o t) /\ Len(x) = o.hole
  BY ONLY <1>1, <1>3, <1>5, <1>6, o.ids = l.ids \o t, o.alt = l.alt \o t, o.hole = l.hole
<1> QED BY ONLY <1>1, <1>2, <1>7, x \in Seq(TokenType), u \in Seq(TokenType) DEF Missing

LEMMA ToldSound ==
  ASSUME NEW l, Room(l), PlanSound(l, FALSE), NEW text \in Seq(TokenType), Plain(text)
  PROVE  PlanSound(Told(l, text), FALSE)
<1>1. l \in ListsType
  BY DEF Room
<1>2. PICK o : o = Told(l, text)
  OBVIOUS
<1>3. PICK n \in Nat : n = Len(text)
  BY LenProperties
<1>4. /\ o \in ListsType /\ o.ids = l.ids \o text /\ o.alt = l.alt \o text
      /\ o.teacherMask = l.teacherMask \o Zeros(n)
      /\ o.studentMask = l.studentMask \o Zeros(n)
      /\ o.hole = l.hole /\ o.root = l.root
  BY <1>1, <1>2, <1>3, ToldParts
<1>5. Supervised \/ ~TextsLeftOut => AllZero(o.teacherMask)
  <2>1. l.teacherMask \in Seq(Bits)
    BY <1>1, ListsAre
  <2>2. AllZero(l.teacherMask) => AllZero(l.teacherMask \o Zeros(n))
    BY ONLY <2>1, n \in Nat, SilentOn
  <2> QED BY <1>4, <2>2 DEF PlanSound
<1>6. Supervised => 2 <= o.hole
  BY <1>4 DEF PlanSound
<1>7. Supervised /\ ~TextsLeftOut => Missing(o)
  <2>1. Supervised /\ ~TextsLeftOut => Missing(l)
    BY DEF PlanSound
  <2> QED BY <1>4, <2>1, MissingOn
<1>8. ASSUME ~Supervised, ~TextsLeftOut
      PROVE  /\ Unchanged(o)
             /\ Takes(Body(o.ids), o.studentMask, o.root)
             /\ Whole(o.root, "understanding")
  <2>1. /\ Unchanged(l) /\ Takes(Body(l.ids), l.studentMask, l.root)
        /\ Whole(l.root, "understanding")
    BY <1>8 DEF PlanSound
  <2>2. Unchanged(o) /\ Body(o.ids) = Body(l.ids) \o text
    BY <1>4, <2>1, UnchangedOn
  <2>3. Takes(Body(l.ids) \o text, l.studentMask \o Zeros(n), l.root)
    BY ONLY <1>3, <2>1, n \in Nat, text \in Seq(TokenType), TakesNoMore
  <2> QED BY ONLY <1>4, <2>1, <2>2, <2>3
<1> QED BY ONLY <1>2, <1>4, <1>5, <1>6, <1>7, <1>8 DEF PlanSound

LEMMA NewPlanSound ==
  ASSUME Counted
  PROVE  PlanSound(NewPlan, TRUE)
<1>1. PICK q : q = Text("query", 0, 1)
  OBVIOUS
<1>2. "query" \in Kinds /\ "query" # Old /\ 0 \in 0 .. MaxTraj /\ 1 \in Nat
  BY ConfigAssumption DEF Kinds, Old
<1>3. q \in Seq(TokenType) /\ Plain(q)
  BY <1>1, <1>2, TextPlain
<1>q. Len(q) = 1
  BY <1>1 DEF Text
<1>4. PICK s : s = SystemPrompt
  OBVIOUS
<1>5. s \in Seq(TokenType) /\ Len(s) = 2 /\ 2 <= Len(s)
  <2>1. s \in Seq(TokenType) /\ Len(s) = 2
    BY <1>4, PromptIs
  <2> QED BY ONLY <2>1
<1>6. Body(s \o q) = Body(s) \o q
  BY ONLY <1>3, <1>5, BodyJoined
<1>7. Body(s) = <<>>
  <2>1. Body(s) \in Seq(TokenType) /\ Len(Body(s)) = Len(s) - 2
    BY ONLY <1>5, BodyIs
  <2> QED BY ONLY <1>5, <2>1, EmptySeq
<1>8. Body(s \o q) = q
  BY ONLY <1>3, <1>6, <1>7, ConcatEmptySeq
<1>9. /\ NewPlan.ids = s \o q /\ NewPlan.alt = s \o q
      /\ NewPlan.teacherMask = Zeros(1) /\ NewPlan.studentMask = Zeros(1)
      /\ NewPlan.root = <<>>
  BY <1>1, <1>4 DEF NewPlan
<1>10. NewPlan \in ListsType
  BY NewPlanGood DEF Good
<1>11. AllZero(Zeros(1))
  BY DEF AllZero, Zeros
<1>12. Takes(q, Zeros(1), <<>>)
  BY <1>3, <1>q, TakesNothing
<1>13. PICK l : l = NewPlan
  OBVIOUS
<1>14. /\ Unchanged(l) /\ AllZero(l.teacherMask)
       /\ Takes(Body(l.ids), l.studentMask, l.root) /\ l.root = <<>>
  BY ONLY <1>3, <1>8, <1>9, <1>11, <1>12, <1>13 DEF Unchanged
<1> QED BY <1>10, <1>13, <1>14 DEF PlanSound

LEMMA ExpandedParts ==
  ASSUME NEW p, IsInference(p), Good(plan), NEW n, n = Len(AllFour(p))
  PROVE  LET o == Expanded(p)
         IN  /\ o.ids = plan.ids \o AllFour(p)
             /\ o.teacherMask = plan.teacherMask \o Zeros(n)
             /\ Supervised => /\ o.alt = ((plan.alt \o p[1]) \o p[3]) \o p[4]
                              /\ o.hole = Len(plan.alt) + Len(p[1])
             /\ ~Supervised => /\ o.alt = plan.alt \o AllFour(p)
                               /\ o.studentMask = plan.studentMask \o ValueMaskOf(p)
                               /\ o.root = p[2]
<1>1. PICK l : l = Inferred(plan, p)
  OBVIOUS
<1>2. /\ l \in ListsType /\ l.alt = plan.alt /\ l.teacherMask = plan.teacherMask
      /\ l.studentMask = plan.studentMask
  BY <1>1, InferredAre
<1>3. l.ids = plan.ids \o AllFour(p)
  BY <1>1 DEF Inferred, Good, ListsType
<1>4. PICK o : o = Expanded(p)
  OBVIOUS
<1>5. CASE Supervised
  <2>1. o = [l EXCEPT !.hole = Len(plan.alt) + Len(p[1]),
                      !.alt = ((l.alt \o p[1]) \o p[3]) \o p[4],
                      !.teacherMask = l.teacherMask \o Zeros(n)]
    BY <1>1, <1>4, <1>5 DEF Expanded, Hole
  <2>2. /\ o.ids = l.ids /\ o.alt = ((l.alt \o p[1]) \o p[3]) \o p[4]
        /\ o.hole = Len(plan.alt) + Len(p[1])
        /\ o.teacherMask = l.teacherMask \o Zeros(n)
    BY ONLY <1>2, <2>1 DEF ListsType
  <2> QED BY ONLY <1>2, <1>3, <1>4, <1>5, <2>2
<1>6. CASE ~Supervised
  <2>1. o = [l EXCEPT !.root = p[2], !.alt = l.alt \o AllFour(p),
                      !.teacherMask = l.teacherMask \o Zeros(n),
                      !.studentMask = l.studentMask \o ValueMaskOf(p)]
    BY <1>1, <1>4, <1>6 DEF Expanded
  <2>2. /\ o.ids = l.ids /\ o.alt = l.alt \o AllFour(p) /\ o.root = p[2]
        /\ o.studentMask = l.studentMask \o ValueMaskOf(p)
        /\ o.teacherMask = l.teacherMask \o Zeros(n)
    BY ONLY <1>2, <2>1 DEF ListsType
  <2> QED BY ONLY <1>2, <1>3, <1>4, <1>6, <2>2
<1> QED BY <1>5, <1>6

\* The understanding is left out of the student's version.
LEMMA LeftOut ==
  ASSUME NEW l, Room(l), Unchanged(l),
         NEW a \in Seq(TokenType), NEW u, NEW c \in Seq(TokenType), NEW d \in Seq(TokenType),
         Whole(u, "understanding"), Plain(a), Plain(c), Plain(d),
         NEW o, o.ids = l.ids \o (((a \o u) \o c) \o d), o.alt = ((l.alt \o a) \o c) \o d,
         o.hole = Len(l.alt) + Len(a)
  PROVE  Missing(o)
<1>1. PICK i : i = l.ids
  OBVIOUS
<1>2. i \in Seq(TokenType) /\ 2 <= Len(i) /\ l.alt = i /\ Plain(Body(i))
  BY <1>1, ListsAre DEF Room, Unchanged
<1>3. u \in Seq(TokenType)
  BY DEF Whole
<1>4. PICK x : x = i \o a
  OBVIOUS
<1>5. x \in Seq(TokenType) /\ Len(x) = Len(i) + Len(a) /\ Len(i) \in Nat /\ Len(a) \in Nat
  BY ONLY <1>2, <1>4, a \in Seq(TokenType), ConcatProperties, LenProperties
<1>6. 2 <= Len(x)
  BY ONLY <1>2, <1>5
<1>7. Plain(Body(x))
  <2>1. Body(x) = Body(i) \o a /\ Body(i) \in Seq(TokenType)
    BY ONLY <1>2, <1>4, a \in Seq(TokenType), BodyJoined
  <2>2. Plain(Body(i) \o a)
    BY ONLY <1>2, <2>1, a \in Seq(TokenType), Plain(a), PlainJoined
  <2> QED BY ONLY <2>1, <2>2
<1>8. PICK y : y = c \o d
  OBVIOUS
<1>9. y \in Seq(TokenType) /\ Plain(y)
  BY ONLY <1>8, c \in Seq(TokenType), d \in Seq(TokenType), Plain(c), Plain(d), PlainJoined
<1>10. i \o (((a \o u) \o c) \o d) = (((i \o a) \o u) \o c) \o d
  <2>1. FourRegroup(i, a, u, c, d)
    BY ONLY <1>2, <1>3, a \in Seq(TokenType), c \in Seq(TokenType), d \in Seq(TokenType),
            FourRegrouping
  <2> QED BY ONLY <2>1 DEF FourRegroup
<1>11. (((i \o a) \o u) \o c) \o d = (x \o u) \o y
  <2>1. PICK s : s = x \o u
    OBVIOUS
  <2>2. s \in Seq(TokenType)
    BY ONLY <1>3, <1>5, <2>1, ConcatProperties
  <2>3. s \o (c \o d) = (s \o c) \o d
    <3>1. Regroups(s, c, d)
      BY ONLY <2>2, c \in Seq(TokenType), d \in Seq(TokenType), Regrouping
    <3> QED BY ONLY <3>1 DEF Regroups
  <2> QED BY ONLY <1>4, <1>8, <2>1, <2>3
<1>12. (x \o c) \o d = x \o y
  <2>1. x \o (c \o d) = (x \o c) \o d
    <3>1. Regroups(x, c, d)
      BY ONLY <1>5, c \in Seq(TokenType), d \in Seq(TokenType), Regrouping
    <3> QED BY ONLY <3>1 DEF Regroups
  <2> QED BY ONLY <1>8, <2>1
<1>13. o.ids = (x \o u) \o y
  BY <1>1, <1>10, <1>11
<1>14. o.alt = x \o y
  BY <1>1, <1>2, <1>4, <1>12
<1>15. Len(x) = o.hole
  BY <1>2, <1>5
<1> QED BY ONLY <1>3, <1>5, <1>6, <1>7, <1>9, <1>13, <1>14, <1>15, Whole(u, "understanding") DEF Missing

LEMMA FourPlain ==
  ASSUME NEW a \in Seq(TokenType), NEW b \in Seq(TokenType), NEW c \in Seq(TokenType),
         NEW d \in Seq(TokenType), Plain(a), Plain(b), Plain(c), Plain(d)
  PROVE  ((a \o b) \o c) \o d \in Seq(TokenType) /\ Plain(((a \o b) \o c) \o d)
<1>1. a \o b \in Seq(TokenType) /\ Plain(a \o b)
  BY PlainJoined
<1>2. (a \o b) \o c \in Seq(TokenType) /\ Plain((a \o b) \o c)
  BY ONLY <1>1, c \in Seq(TokenType), Plain(c), PlainJoined
<1> QED BY ONLY <1>2, d \in Seq(TokenType), Plain(d), PlainJoined

LEMMA WholePlain ==
  ASSUME NEW s, NEW what, Whole(s, what), what # Old
  PROVE  Plain(s)
BY DEF Whole, Plain, Replaced

LEMMA ExpandedSound ==
  ASSUME Good(plan), Placed(plan), PlanSound(plan, TRUE),
         NEW p, IsInference(p), Plain(p[1]), Plain(p[3]), Plain(p[4]),
         Whole(p[2], "understanding")
  PROVE  PlanSound(Expanded(p), FALSE)
<1>1. PICK a, u, c, d : a = p[1] /\ u = p[2] /\ c = p[3] /\ d = p[4]
  OBVIOUS
<1>2. /\ a \in Seq(TokenType) /\ u \in Seq(TokenType) /\ c \in Seq(TokenType) /\ d \in Seq(TokenType)
      /\ Plain(a) /\ Plain(c) /\ Plain(d) /\ Whole(u, "understanding")
  <2>1. \A k \in 1 .. 4 : p[k] \in Seq(TokenType)
    BY InferenceIs
  <2>2. /\ p[1] \in Seq(TokenType) /\ p[2] \in Seq(TokenType) /\ p[3] \in Seq(TokenType)
        /\ p[4] \in Seq(TokenType)
    BY ONLY <2>1
  <2> QED BY ONLY <1>1, <2>2, Plain(p[1]), Plain(p[3]), Plain(p[4]), Whole(p[2], "understanding")
<1>3. Room(plan)
  <2>1. plan \in ListsType /\ 2 <= Len(plan.alt)
    BY DEF Good, Placed
  <2>2. Len(plan.ids) = 2 + Len(plan.mask) /\ Len(plan.mask) \in Nat
    BY <2>1, ListsAre DEF Good, Followed
  <2>3. 2 <= Len(plan.ids)
    BY ONLY <2>2
  <2> QED BY ONLY <2>1, <2>3 DEF Room
<1>4. PICK t : t = AllFour(p)
  OBVIOUS
<1>5. t = ((a \o u) \o c) \o d /\ t \in Seq(TokenType)
  BY <1>1, <1>4, InferenceIs DEF AllFour
<1>6. PICK n \in Nat : n = Len(t)
  BY <1>5, LenProperties
<1>7. PICK o : o = Expanded(p)
  OBVIOUS
<1>8. /\ o.ids = plan.ids \o t
      /\ o.teacherMask = plan.teacherMask \o Zeros(n)
      /\ Supervised => /\ o.alt = ((plan.alt \o a) \o c) \o d
                       /\ o.hole = Len(plan.alt) + Len(a)
      /\ ~Supervised => /\ o.alt = plan.alt \o t
                        /\ o.studentMask = plan.studentMask \o ValueMaskOf(p)
                        /\ o.root = u
  BY <1>1, <1>4, <1>6, <1>7, ExpandedParts
<1>9. o \in ListsType
  BY <1>7, ExpandedGood DEF Good
<1>10. Supervised \/ ~TextsLeftOut => AllZero(o.teacherMask)
  <2>1. plan.teacherMask \in Seq(Bits)
    BY <1>3, ListsAre DEF Room
  <2>2. AllZero(plan.teacherMask) => AllZero(plan.teacherMask \o Zeros(n))
    BY ONLY <2>1, n \in Nat, SilentOn
  <2> QED BY <1>8, <2>2 DEF PlanSound
<1>11. Supervised => 2 <= o.hole
  <2>1. PICK j, k : j = Len(plan.alt) /\ k = Len(a)
    OBVIOUS
  <2>2. j \in Nat /\ k \in Nat /\ 2 <= j
    BY <1>2, <1>3, <2>1, ListsAre, LenProperties DEF Room
  <2>3. 2 <= j + k
    BY ONLY <2>2
  <2> QED BY ONLY <1>8, <2>1, <2>3
<1>12. ASSUME Supervised, ~TextsLeftOut PROVE Missing(o)
  <2>1. Unchanged(plan)
    BY <1>12 DEF PlanSound
  <2>2. /\ o.ids = plan.ids \o (((a \o u) \o c) \o d)
        /\ o.alt = ((plan.alt \o a) \o c) \o d
        /\ o.hole = Len(plan.alt) + Len(a)
    BY ONLY <1>5, <1>8, <1>12
  <2> QED BY ONLY <1>2, <1>3, <2>1, <2>2, LeftOut
<1>13. ASSUME ~Supervised, ~TextsLeftOut
       PROVE  /\ Unchanged(o)
              /\ Takes(Body(o.ids), o.studentMask, o.root)
              /\ Whole(o.root, "understanding")
  <2>1. Unchanged(plan) /\ Takes(Body(plan.ids), plan.studentMask, <<>>)
    BY <1>13 DEF PlanSound
  <2>2. Plain(u)
    <3>1. "understanding" # Old
      BY <1>13 DEF Old
    <3> QED BY ONLY <1>2, <3>1, WholePlain
  <2>3. Plain(t)
    BY ONLY <1>2, <1>5, <2>2, FourPlain
  <2>4. o.ids = plan.ids \o t /\ o.alt = plan.alt \o t
    BY <1>8, <1>13
  <2>5. Unchanged(o) /\ Body(o.ids) = Body(plan.ids) \o t
    BY ONLY <1>3, <1>5, <2>1, <2>3, <2>4, UnchangedOn
  <2>6. Takes(t, ValueMaskOf(p), u)
    <3>1. \A k \in 1 .. 4 : p[k] \in Seq(TokenType)
      BY InferenceIs
    <3> QED BY ONLY <1>1, <1>4, <3>1, TakesValue
  <2>7. Takes(Body(plan.ids) \o t, plan.studentMask \o ValueMaskOf(p), <<>> \o u)
    BY ONLY <2>1, <2>6, TakesJoined
  <2>8. <<>> \o u = u
    BY ONLY <1>2, ConcatEmptySeq
  <2> QED BY ONLY <1>2, <1>8, <1>13, <2>5, <2>7, <2>8
<1> QED BY ONLY <1>7, <1>9, <1>10, <1>11, <1>12, <1>13 DEF PlanSound

LEMMA SimulatedSound ==
  ASSUME Good(plan), Placed(plan), PlanSound(plan, FALSE), TextsLeftOut,
         NEW p, IsInference(p), NEW text, Marks(text, Zeros(Len(text)))
  PROVE  PlanSound(SimulatedBy(plan, p, text), FALSE)
<1>1. PICK o : o = SimulatedBy(plan, p, text)
  OBVIOUS
<1>2. o \in ListsType
  BY <1>1, SimulatedGood DEF Good
<1>3. PICK n \in Nat : n = Len(AllFour(p)) + Len(text)
  <2>1. AllFour(p) \in Seq(TokenType) /\ text \in Seq(TokenType)
    BY InferenceIs DEF Marks
  <2>2. Len(AllFour(p)) \in Nat /\ Len(text) \in Nat
    BY ONLY <2>1, LenProperties
  <2>3. Len(AllFour(p)) + Len(text) \in Nat
    BY ONLY <2>2
  <2> QED BY ONLY <2>3
<1>4. PICK l : l = Told(Inferred(plan, p), text)
  OBVIOUS
<1>5. l \in ListsType /\ l.hole = plan.hole
  <2>1. Inferred(plan, p) \in ListsType /\ Inferred(plan, p).hole = plan.hole
    BY InferredAre
  <2>2. text \in Seq(TokenType)
    BY DEF Marks
  <2> QED BY <1>4, <2>1, <2>2, ToldParts
<1>6. o = [l EXCEPT !.alt = plan.alt \o AllFour(p),
                    !.teacherMask = plan.teacherMask \o Zeros(n),
                    !.studentMask = plan.studentMask \o Zeros(n)]
  BY <1>1, <1>3, <1>4 DEF SimulatedBy
<1>7. o.teacherMask = plan.teacherMask \o Zeros(n) /\ o.hole = plan.hole
  BY ONLY <1>5, <1>6 DEF ListsType
<1>8. Supervised => AllZero(o.teacherMask)
  <2>1. plan.teacherMask \in Seq(Bits)
    BY ListsAre DEF Good
  <2>2. AllZero(plan.teacherMask) => AllZero(plan.teacherMask \o Zeros(n))
    BY ONLY <2>1, n \in Nat, SilentOn
  <2> QED BY <1>7, <2>2 DEF PlanSound
<1>9. Supervised => 2 <= o.hole
  BY <1>7 DEF PlanSound
<1> QED BY ONLY <1>1, <1>2, <1>8, <1>9, TextsLeftOut DEF PlanSound

\* The texts of the planner that are not swapped.
LEMMA PlannerTexts ==
  ASSUME Counted, NEW what \in Kinds \ {"understanding", "summary"}, NEW n \in Nat
  PROVE  Text(what, 0, n) \in Seq(TokenType) /\ Plain(Text(what, 0, n))
<1>1. what \in Kinds /\ what # Old /\ 0 \in 0 .. MaxTraj
  BY ConfigAssumption DEF Old
<1> QED BY <1>1, TextPlain

LEMMA PlanRoom ==
  ASSUME NEW l, Good(l), Placed(l)
  PROVE  Room(l)
<1>1. l \in ListsType /\ 2 <= Len(l.alt)
  BY DEF Good, Placed
<1>2. Len(l.ids) = 2 + Len(l.mask) /\ Len(l.mask) \in Nat
  BY <1>1, ListsAre DEF Good, Followed
<1>3. 2 <= Len(l.ids)
  BY ONLY <1>2
<1> QED BY ONLY <1>1, <1>3 DEF Room

LEMMA ExpandSound ==
  ASSUME IInv, PlanOK, NEW n \in Lengths, NEW k \in Lengths, NEW found \in 0..MaxTraj,
         Expand(n, k, found)
  PROVE  PlanSound(plan', FALSE)
<1>1. PICK p : p = Parts("understanding", "moves", 0, n, k)
  OBVIOUS
<1>2. PICK text : text = Text("feedback", 0, 1)
  OBVIOUS
<1>3. pc = "expand" /\ plan' = Told(Expanded(p), text) /\ Planning
  BY <1>1, <1>2 DEF Expand, Planning
<1>4. Counted /\ Good(plan) /\ Placed(plan)
  BY <1>3, Holding
<1>5. /\ n \in Nat \ {0} /\ k \in Nat /\ 0 \in 0..MaxTraj /\ 1 \in Nat
      /\ "understanding" \in Generated /\ "moves" \in Generated
      /\ "understanding" \in Kinds
      /\ {"value prompt", "move prompt", "moves", "feedback"} \subseteq Kinds \ {"understanding", "summary"}
  BY ConfigAssumption DEF Generated, Kinds
<1>6. IsInference(p)
  BY <1>1, <1>4, <1>5, PartsAre
<1>7. /\ p[1] = Text("value prompt", 0, 1) /\ p[2] = Text("understanding", 0, n)
      /\ p[3] = Text("move prompt", 0, 1) /\ p[4] = Text("moves", 0, k)
  BY <1>1 DEF Parts
<1>8. Plain(p[1]) /\ Plain(p[3]) /\ Plain(p[4])
  <2>1. /\ Plain(Text("value prompt", 0, 1)) /\ Plain(Text("move prompt", 0, 1))
        /\ Plain(Text("moves", 0, k))
    BY <1>4, <1>5, PlannerTexts
  <2> QED BY ONLY <1>7, <2>1
<1>9. Whole(p[2], "understanding")
  <2>1. Whole(Text("understanding", 0, n), "understanding")
    BY <1>4, <1>5, TextWhole
  <2> QED BY ONLY <1>7, <2>1
<1>10. PlanSound(plan, TRUE)
  <2>1. PlanSound(plan, pc = "expand")
    BY <1>3, PlanIs
  <2>2. (pc = "expand") = TRUE
    BY <1>3
  <2> QED BY ONLY <2>1, <2>2
<1>11. PICK l : l = Expanded(p)
  OBVIOUS
<1>12. PlanSound(l, FALSE)
  BY ONLY <1>4, <1>6, <1>8, <1>9, <1>10, <1>11, ExpandedSound
<1>13. Room(l)
  <2>1. Good(l) /\ Placed(l)
    BY ONLY <1>4, <1>6, <1>11, ExpandedGood
  <2> QED BY ONLY <2>1, PlanRoom
<1>14. text \in Seq(TokenType) /\ Plain(text)
  BY <1>2, <1>4, <1>5, PlannerTexts
<1>15. PlanSound(Told(l, text), FALSE)
  BY ONLY <1>12, <1>13, <1>14, ToldSound
<1> QED BY ONLY <1>3, <1>11, <1>15

LEMMA PlanLater ==
  ASSUME IInv, PlanOK, Planning, pc # "expand"
  PROVE  PlanSound(plan, FALSE) /\ Good(plan) /\ Placed(plan) /\ Room(plan) /\ Counted
<1>1. PlanSound(plan, pc = "expand")
  BY PlanIs
<1>2. (pc = "expand") = FALSE
  OBVIOUS
<1>3. PlanSound(plan, FALSE)
  BY ONLY <1>1, <1>2
<1>4. Good(plan) /\ Placed(plan) /\ Counted
  BY Holding
<1>5. Room(plan)
  BY ONLY <1>4, PlanRoom
<1> QED BY ONLY <1>3, <1>4, <1>5

LEMMA SimulateSound ==
  ASSUME IInv, PlanOK, NEW i \in todo, NEW n \in Lengths, Simulate(i, n)
  PROVE  PlanSound(plan', FALSE)
<1>1. PICK p : p = Parts("understanding", "moves", i, n, 1)
  OBVIOUS
<1>2. PICK text : text = Text("feedback", i, 1)
  OBVIOUS
<1>3. /\ pc = "simulate" /\ Planning /\ pc # "expand"
      /\ plan' = IF config.turn2 THEN SimulatedBy(plan, p, text) ELSE plan
  BY <1>1, <1>2 DEF Simulate, Planning
<1>4. PlanSound(plan, FALSE) /\ Good(plan) /\ Placed(plan) /\ Counted
  BY <1>3, PlanLater
<1>5. i \in 0..MaxTraj
  BY ConfigAssumption DEF IInv, TypeOK
<1>6. IsInference(p)
  <2>1. n \in Nat /\ 1 \in Nat /\ "understanding" \in Generated /\ "moves" \in Generated
    BY ConfigAssumption DEF Generated
  <2> QED BY <1>1, <1>4, <1>5, <2>1, PartsAre
<1>7. Marks(text, Zeros(Len(text)))
  <2>1. "feedback" \in Kinds \ Generated
    BY DEF Kinds, Generated
  <2> QED BY <1>2, <1>4, <1>5, <2>1, OneMore
<1>8. CASE config.turn2
  <2>1. TextsLeftOut
    BY <1>3, <1>8 DEF IInv, CountersOK, TextsLeftOut
  <2>2. PlanSound(SimulatedBy(plan, p, text), FALSE)
    BY ONLY <1>4, <1>6, <1>7, <2>1, SimulatedSound
  <2> QED BY ONLY <1>3, <1>8, <2>2
<1>9. CASE ~config.turn2
  BY ONLY <1>3, <1>4, <1>9
<1> QED BY <1>8, <1>9

LEMMA ExecuteSound ==
  ASSUME IInv, PlanOK, NEW over \in SUBSET running, Execute(over)
  PROVE  PlanSound(plan', FALSE)
<1>1. PICK text : text = Text("results", 0, 1)
  OBVIOUS
<1>2. /\ pc = "execute" /\ Planning /\ pc # "expand"
      /\ plan' = IF turn > 1 /\ ~config.turn2 THEN plan ELSE Told(plan, text)
  BY <1>1 DEF Execute, Planning
<1>3. PlanSound(plan, FALSE) /\ Room(plan) /\ Counted
  BY <1>2, PlanLater
<1>4. text \in Seq(TokenType) /\ Plain(text)
  <2>1. "results" \in Kinds \ {"understanding", "summary"} /\ 1 \in Nat
    BY DEF Kinds
  <2> QED BY <1>1, <1>3, <2>1, PlannerTexts
<1>5. PlanSound(Told(plan, text), FALSE)
  BY ONLY <1>3, <1>4, ToldSound
<1> QED BY ONLY <1>2, <1>3, <1>5

LEMMA OutLater ==
  ASSUME IInv, VersionsOK, config' = config, out' = out,
         pc' \notin {"act", "return", "done"} \/ pc \in {"act", "return", "done"}
  PROVE  VersionsOK'
<1>1. CASE ~(Supervised \/ ~TextsLeftOut)
  BY <1>1, SameMode DEF VersionsOK
<1>2. CASE Supervised \/ ~TextsLeftOut
  <2>1. PICK w : /\ Distils(out, w)
                 /\ pc \in {"act", "return", "done"} => w # <<>>
    BY <1>2, OutDistils
  <2>2. PICK o : o = out
    OBVIOUS
  <2>3. o = out' /\ Distils(o, w) /\ (pc' \in {"act", "return", "done"} => w # <<>>)
    BY <2>1, <2>2
  <2> QED BY ONLY <2>3, config' = config, DistilsOut
<1> QED BY <1>1, <1>2

\* What is left to show of the properties before the episode returns.
LEMMA NotDone ==
  ASSUME pc' # "done"
  PROVE  DistilledAlike' /\ SwappedInPlace'
BY DEF DistilledAlike, SameTokensDistilled, SwappedInPlace

LEMMA PlannerKeepsVersions ==
  ASSUME IInv, VersionsOK, PlanOK,
         \/ StartPlan
         \/ \E n, k \in Lengths, found \in 0..MaxTraj : Expand(n, k, found)
         \/ \E i \in todo, n \in Lengths : Simulate(i, n)
         \/ \E over \in SUBSET running : Execute(over)
  PROVE  VersionsOK' /\ PlanOK' /\ DistilledAlike' /\ SwappedInPlace'
<1>1. /\ config' = config /\ step' = step /\ out' = out
      /\ pc' \in {"expand", "execute", "simulate", "summarize"} /\ Planning'
      /\ PlanSound(plan', pc' = "expand")
  <2>1. CASE StartPlan
    <3>1. /\ config' = config /\ step' = step /\ out' = out /\ pc' = "expand" /\ plan' = NewPlan
      BY <2>1 DEF StartPlan
    <3>2. PlanSound(NewPlan, TRUE)
      BY Holding, NewPlanSound
    <3>3. (pc' = "expand") = TRUE
      BY <3>1
    <3> QED BY ONLY <3>1, <3>2, <3>3 DEF Planning
  <2>2. CASE \E n, k \in Lengths, found \in 0..MaxTraj : Expand(n, k, found)
    <3>1. PICK n \in Lengths, k \in Lengths, found \in 0..MaxTraj : Expand(n, k, found)
      BY <2>2
    <3>2. config' = config /\ step' = step /\ out' = out /\ pc' \in {"summarize", "execute"}
      BY <3>1 DEF Expand
    <3>3. PlanSound(plan', FALSE) /\ (pc' = "expand") = FALSE
      BY <3>1, <3>2, ExpandSound
    <3> QED BY ONLY <3>2, <3>3 DEF Planning
  <2>3. CASE \E i \in todo, n \in Lengths : Simulate(i, n)
    <3>1. PICK i \in todo, n \in Lengths : Simulate(i, n)
      BY <2>3
    <3>2. config' = config /\ step' = step /\ out' = out /\ pc' \in {"simulate", "execute"}
      BY <3>1 DEF Simulate
    <3>3. PlanSound(plan', FALSE) /\ (pc' = "expand") = FALSE
      BY <3>1, <3>2, SimulateSound
    <3> QED BY ONLY <3>2, <3>3 DEF Planning
  <2>4. CASE \E over \in SUBSET running : Execute(over)
    <3>1. PICK over \in SUBSET running : Execute(over)
      BY <2>4
    <3>2. config' = config /\ step' = step /\ out' = out /\ pc' \in {"simulate", "summarize"}
      BY <3>1 DEF Execute
    <3>3. PlanSound(plan', FALSE) /\ (pc' = "expand") = FALSE
      BY <3>1, <3>2, ExecuteSound
    <3> QED BY ONLY <3>2, <3>3 DEF Planning
  <2> QED BY <2>1, <2>2, <2>3, <2>4
<1>2. VersionsOK'
  BY <1>1, OutLater
<1>3. PlanOK'
  <2>1. PICK l : l = plan'
    OBVIOUS
  <2>2. PlanSound(l, pc' = "expand")
    BY ONLY <1>1, <2>1
  <2> QED BY ONLY <1>1, <2>1, <2>2, IsPlan
<1>4. DistilledAlike' /\ SwappedInPlace'
  BY <1>1, NotDone
<1> QED BY <1>2, <1>3, <1>4

-----------------------------------------------------------------------------
(* What the planner returns.                                               *)

LEMMA SummarizedParts ==
  ASSUME NEW p, IsInference(p), NEW told, told = Told(plan, Text("summary prompt", 0, 1)), Good(told)
  PROVE  LET o == Summarized(p)
         IN  /\ o.ids = told.ids \o AllFour(p) /\ o.hole = told.hole
             /\ Supervised => /\ o.alt = told.alt \o AllFour(p)
                              /\ o.teacherMask = told.teacherMask \o ValueMaskOf(p)
             /\ ~Supervised => /\ o.alt = told.alt \o AllFour(Swapped(p))
                               /\ o.teacherMask = told.teacherMask \o ValueMaskOf(Swapped(p))
                               /\ o.studentMask = told.studentMask \o Zeros(Len(AllFour(p)))
<1>1. PICK l : l = Inferred(told, p)
  OBVIOUS
<1>n. PICK n : n = Len(AllFour(p))
  OBVIOUS
<1>2. /\ l \in ListsType /\ l.alt = told.alt /\ l.teacherMask = told.teacherMask
      /\ l.studentMask = told.studentMask /\ l.hole = told.hole
  BY <1>1, InferredAre
<1>3. l.ids = told.ids \o AllFour(p)
  BY <1>1 DEF Inferred, Good, ListsType
<1>4. PICK o : o = Summarized(p)
  OBVIOUS
<1>5. CASE Supervised
  <2>1. o = [l EXCEPT !.alt = l.alt \o AllFour(p),
                      !.teacherMask = l.teacherMask \o ValueMaskOf(p)]
    BY <1>1, <1>4, <1>5 DEF Summarized
  <2>2. /\ o.ids = l.ids /\ o.alt = l.alt \o AllFour(p) /\ o.hole = l.hole
        /\ o.teacherMask = l.teacherMask \o ValueMaskOf(p)
    BY ONLY <1>2, <2>1 DEF ListsType
  <2> QED BY ONLY <1>2, <1>3, <1>4, <1>5, <2>2
<1>6. CASE ~Supervised
  <2>1. PICK q : q = Swapped(p)
    OBVIOUS
  <2>2. o = [l EXCEPT !.alt = l.alt \o AllFour(q),
                      !.teacherMask = l.teacherMask \o ValueMaskOf(q),
                      !.studentMask = l.studentMask \o Zeros(n)]
    BY <1>1, <1>n, <1>4, <1>6, <2>1 DEF Summarized
  <2>3. /\ o.ids = l.ids /\ o.alt = l.alt \o AllFour(q) /\ o.hole = l.hole
        /\ o.teacherMask = l.teacherMask \o ValueMaskOf(q)
        /\ o.studentMask = l.studentMask \o Zeros(n)
    BY ONLY <1>2, <2>2 DEF ListsType
  <2> QED BY ONLY <1>2, <1>n, <1>3, <1>4, <1>6, <2>1, <2>3
<1> QED BY <1>5, <1>6

LEMMA ZerosBody ==
  ASSUME NEW h \in Nat, 2 <= h, NEW j \in Nat, j = h - 2
  PROVE  Body(Zeros(h)) = Zeros(j)
<1>1. PICK z : z = Zeros(h)
  OBVIOUS
<1>2. z \in Seq(Bits) /\ Len(z) = h /\ \A k \in 1 .. h : z[k] = 0
  BY <1>1, ZerosAre
<1>3. PICK b : b = Body(z)
  OBVIOUS
<1>4. /\ b \in Seq(Bits) /\ Len(b) = Len(z) - 2
      /\ \A k \in 1 .. Len(z) - 2 : b[k] = z[k + 2]
  <2>1. 2 <= Len(z)
    BY ONLY <1>2, 2 <= h
  <2> QED BY ONLY <1>2, <1>3, <2>1, BodyIs
<1>5. \A k \in 1 .. j : k \in 1 .. Len(z) - 2 /\ k + 2 \in 1 .. h
  BY ONLY <1>2, h \in Nat, 2 <= h, j = h - 2
<1>6. PICK y : y = Zeros(j)
  OBVIOUS
<1>7. y \in Seq(Bits) /\ Len(y) = j /\ \A k \in 1 .. j : y[k] = 0
  BY <1>6, ZerosAre
<1>8. Len(b) = j /\ \A k \in 1 .. j : b[k] = y[k]
  BY ONLY <1>2, <1>4, <1>5, <1>7, j = h - 2
<1>9. b = y
  BY ONLY <1>4, <1>7, <1>8, j \in Nat, SameElements
<1> QED BY <1>1, <1>3, <1>6, <1>9

\* The student's version with the summary in its place, without the prompt.
FilledIs(a, s, z) == LastOf((a \o s) \o z, Len((a \o s) \o z) - 2) = (Body(a) \o s) \o z

LEMMA FilledBody ==
  ASSUME NEW U, NEW a \in Seq(U), NEW s \in Seq(U), NEW z \in Seq(U), 2 <= Len(a)
  PROVE  FilledIs(a, s, z)
<1>1. PICK c : c = a \o s
  OBVIOUS
<1>2. Body(c) = Body(a) \o s /\ c \in Seq(U) /\ 2 <= Len(c)
  BY ONLY <1>1, a \in Seq(U), s \in Seq(U), 2 <= Len(a), BodyJoined
<1>3. PICK t : t = c \o z
  OBVIOUS
<1>4. Body(t) = Body(c) \o z /\ t \in Seq(U) /\ 2 <= Len(t)
  BY ONLY <1>2, <1>3, z \in Seq(U), BodyJoined
<1>5. LastOf(t, Len(t) - 2) = Body(t)
  BY ONLY <1>4, BodyIs
<1> QED BY ONLY <1>1, <1>2, <1>3, <1>4, <1>5 DEF FilledIs

LEMMA ReturnedParts ==
  ASSUME NEW l, Good(l), Placed(l), NEW s \in Seq(TokenType)
  PROVE  LET r == Returned(l, s)
         IN  /\ r \in ListsType
             /\ r.ids = Body(l.ids) /\ r.teacherMask = l.teacherMask
             /\ ~Supervised => r.alt = Body(l.alt) /\ r.studentMask = l.studentMask
             /\ Supervised /\ 2 <= l.hole =>
                  /\ r.alt = (Body(FirstOf(l.alt, l.hole)) \o s)
                               \o LastOf(l.alt, Len(l.alt) - l.hole)
                  /\ r.studentMask = (Zeros(l.hole - 2) \o Ones(Len(s)))
                                       \o Zeros(Len(l.alt) - l.hole)
<1>1. PICK r : r = Returned(l, s)
  OBVIOUS
<1>2. r \in ListsType
  BY <1>1, ReturnedGood DEF Returnable
<1>3. PICK i, a, h, m : i = l.ids /\ a = l.alt /\ h = l.hole /\ m = l.mask
  OBVIOUS
<1>4. /\ l \in ListsType /\ i \in Seq(TokenType) /\ a \in Seq(TokenType) /\ h \in Nat
      /\ Len(m) \in Nat /\ Len(a) \in Nat /\ h <= Len(a) /\ 2 <= Len(a)
      /\ Len(i) = 2 + Len(m)
  <2>1. l \in ListsType
    BY DEF Good
  <2> QED BY <1>3, <2>1, ListsAre DEF Good, Followed, Placed
<1>5. Len(i) - Len(m) = 2 /\ 2 <= Len(i) /\ Len(m) = Len(i) - 2
  BY ONLY <1>4
<1>6. PICK alt, mask : alt = Filled(l, s) /\ mask = FilledMask(l, s)
  OBVIOUS
<1>7. r = [l EXCEPT !.ids = LastOf(i, Len(m)), !.alt = LastOf(alt, Len(alt) - 2),
                    !.studentMask = IF Supervised THEN LastOf(mask, Len(mask) - 2) ELSE mask]
  BY <1>1, <1>3, <1>5, <1>6 DEF Returned
<1>8. /\ r.ids = LastOf(i, Len(m)) /\ r.alt = LastOf(alt, Len(alt) - 2)
      /\ r.studentMask = IF Supervised THEN LastOf(mask, Len(mask) - 2) ELSE mask
      /\ r.teacherMask = l.teacherMask
  BY ONLY <1>4, <1>7 DEF ListsType
<1>9. r.ids = Body(i)
  <2>1. LastOf(i, Len(i) - 2) = Body(i)
    BY ONLY <1>4, <1>5, BodyIs
  <2> QED BY ONLY <1>5, <1>8, <2>1
<1>10. ASSUME ~Supervised PROVE r.alt = Body(a) /\ r.studentMask = l.studentMask
  <2>1. alt = a /\ mask = l.studentMask
    BY <1>3, <1>6, <1>10 DEF Filled, FilledMask
  <2>2. LastOf(a, Len(a) - 2) = Body(a)
    BY ONLY <1>4, BodyIs
  <2> QED BY ONLY <1>8, <1>10, <2>1, <2>2
<1>11. ASSUME Supervised, 2 <= h
       PROVE  /\ r.alt = (Body(FirstOf(a, h)) \o s) \o LastOf(a, Len(a) - h)
              /\ r.studentMask = (Zeros(h - 2) \o Ones(Len(s))) \o Zeros(Len(a) - h)
  <2>1. PICK x, z : x = FirstOf(a, h) /\ z = LastOf(a, Len(a) - h)
    OBVIOUS
  <2>2. x \in Seq(TokenType) /\ z \in Seq(TokenType) /\ Len(x) = h
    BY ONLY <1>4, <2>1, SplitAt
  <2>3. alt = (x \o s) \o z
    BY <1>3, <1>6, <1>11, <2>1 DEF Filled
  <2>4. LastOf(alt, Len(alt) - 2) = (Body(x) \o s) \o z
    <3>1. 2 <= Len(x)
      BY ONLY <1>11, <2>2
    <3>2. FilledIs(x, s, z)
      BY ONLY <2>2, <3>1, s \in Seq(TokenType), FilledBody
    <3> QED BY ONLY <2>3, <3>2 DEF FilledIs
  <2>5. PICK n \in Nat, j \in Nat, q \in Nat : n = Len(s) /\ j = h - 2 /\ q = Len(a) - h
    <3>1. Len(s) \in Nat /\ h - 2 \in Nat /\ Len(a) - h \in Nat
      BY <1>4, <1>11, LenProperties
    <3> QED BY ONLY <3>1
  <2>6. PICK b, c, d : b = Zeros(h) /\ c = Ones(n) /\ d = Zeros(q)
    OBVIOUS
  <2>7. b \in Seq(Bits) /\ Len(b) = h /\ c \in Seq(Bits) /\ d \in Seq(Bits)
    BY ONLY <1>4, <2>6, n \in Nat, q \in Nat, ZerosAre, OnesAre
  <2>8. mask = (b \o c) \o d
    BY <1>3, <1>6, <1>11, <2>5, <2>6 DEF FilledMask
  <2>9. LastOf(mask, Len(mask) - 2) = (Body(b) \o c) \o d
    <3>1. 2 <= Len(b)
      BY ONLY <1>11, <2>7
    <3>2. FilledIs(b, c, d)
      BY ONLY <2>7, <3>1, FilledBody
    <3> QED BY ONLY <2>8, <3>2 DEF FilledIs
  <2>10. Body(b) = Zeros(j)
    BY ONLY <1>4, <1>11, <2>5, <2>6, j \in Nat, ZerosBody
  <2> QED BY ONLY <1>8, <1>11, <2>1, <2>4, <2>5, <2>6, <2>9, <2>10
<1> QED BY ONLY <1>1, <1>2, <1>3, <1>8, <1>9, <1>10, <1>11

\* The parts of the inference that makes the summary.
SummaryParts(p) ==
  /\ IsInference(p)
  /\ \A k \in 1 .. 4 : p[k] \in Seq(TokenType)
  /\ Plain(p[1]) /\ Plain(p[3]) /\ Plain(p[4])
  /\ Whole(p[2], "summary")

LEMMA SummaryPartsAre ==
  ASSUME NEW p, SummaryParts(p)
  PROVE  /\ p[1] \in Seq(TokenType) /\ p[2] \in Seq(TokenType) /\ p[3] \in Seq(TokenType)
         /\ p[4] \in Seq(TokenType)
         /\ Plain(p[1]) /\ Plain(p[3]) /\ Plain(p[4]) /\ Whole(p[2], "summary")
<1>1. /\ \A k \in 1 .. 4 : p[k] \in Seq(TokenType)
      /\ Plain(p[1]) /\ Plain(p[3]) /\ Plain(p[4]) /\ Whole(p[2], "summary")
  BY DEF SummaryParts
<1>2. 1 \in 1 .. 4 /\ 2 \in 1 .. 4 /\ 3 \in 1 .. 4 /\ 4 \in 1 .. 4
  OBVIOUS
<1> QED BY ONLY <1>1, <1>2

\* The mask of the response, and the response, when the planner returns.
LEMMA ResponseSilent ==
  ASSUME NEW l, Good(l), Room(l), AllZero(l.teacherMask), Supervised \/ ~TextsLeftOut,
         Supervised \/ l.alt = l.ids
  PROVE  Takes(Body(l.ids), l.teacherMask, <<>>)
         /\ (Plain(Body(l.ids)) => Piece(Body(l.ids), Body(l.ids), l.teacherMask))
<1>1. PICK i, m, x : i = l.ids /\ m = l.teacherMask /\ x = l.mask
  OBVIOUS
<1>2. /\ i \in Seq(TokenType) /\ m \in Seq(Bits) /\ 2 <= Len(i)
      /\ Len(i) \in Nat /\ Len(x) \in Nat /\ Len(m) \in Nat
  BY <1>1, ListsAre DEF Room
<1>3. Len(i) = 2 + Len(m)
  BY <1>1 DEF Good, Followed
<1>4. PICK b : b = Body(i)
  OBVIOUS
<1>5. b \in Seq(TokenType) /\ Len(b) = Len(i) - 2
  BY ONLY <1>2, <1>4, BodyIs
<1>6. Len(m) = Len(b)
  BY ONLY <1>2, <1>3, <1>5
<1>7. AllZero(m)
  BY <1>1
<1>8. Takes(b, m, <<>>) /\ (Plain(b) => Piece(b, b, m))
  BY ONLY <1>2, <1>5, <1>6, <1>7, SilentTakes
<1> QED BY <1>1, <1>4, <1>8

LEMMA StudentHears ==
  ASSUME Supervised, NEW told, told = Told(plan, Text("summary prompt", 0, 1)),
         Good(told), Room(told), PlanSound(told, FALSE),
         NEW p, SummaryParts(p), Good(Summarized(p)), Placed(Summarized(p))
  PROVE  DistilsPart(Returned(Summarized(p), p[2]), p[2])
<1>1. PICK i, a, h, m : i = told.ids /\ a = told.alt /\ h = told.hole /\ m = told.teacherMask
  OBVIOUS
<1>2. PICK s, t, v : s = p[2] /\ t = AllFour(p) /\ v = ValueMaskOf(p)
  OBVIOUS
<1>3. /\ i \in Seq(TokenType) /\ a \in Seq(TokenType) /\ h \in Nat /\ m \in Seq(Bits)
      /\ 2 <= Len(i) /\ 2 <= Len(a) /\ 2 <= h
  BY <1>1, ListsAre DEF Room, PlanSound
<1>4. /\ s \in Seq(TokenType) /\ t \in Seq(TokenType) /\ Whole(s, "summary")
      /\ Takes(t, v, s)
  <2>1. p[2] \in Seq(TokenType) /\ Whole(p[2], "summary")
    BY SummaryPartsAre
  <2>2. Takes(AllFour(p), ValueMaskOf(p), p[2])
    BY TakesValue DEF SummaryParts
  <2>3. Takes(t, v, s)
    BY ONLY <1>2, <2>2
  <2>4. t \in Seq(TokenType)
    BY ONLY <2>3 DEF Takes
  <2> QED BY ONLY <1>2, <2>1, <2>3, <2>4
<1>5. PICK o : o = Summarized(p)
  OBVIOUS
<1>6. /\ Good(o) /\ Placed(o)
      /\ o.ids = i \o t /\ o.alt = a \o t /\ o.hole = h /\ o.teacherMask = m \o v
  <2>1. IsInference(p)
    BY DEF SummaryParts
  <2> QED BY <1>1, <1>2, <1>5, <2>1, SummarizedParts
<1>7. PICK c : c = a \o t
  OBVIOUS
<1>8. c \in Seq(TokenType) /\ h <= Len(c)
  <2>1. c \in Seq(TokenType)
    BY ONLY <1>3, <1>4, <1>7, ConcatProperties
  <2>2. h <= Len(c)
    BY ONLY <1>6, <1>7 DEF Placed
  <2> QED BY ONLY <2>1, <2>2
<1>9. PICK x0, y0 : x0 = FirstOf(c, h) /\ y0 = LastOf(c, Len(c) - h)
  OBVIOUS
<1>10. /\ x0 \in Seq(TokenType) /\ y0 \in Seq(TokenType) /\ Len(x0) = h /\ Len(y0) = Len(c) - h
  BY ONLY <1>3, <1>8, <1>9, SplitAt
<1>11. PICK j, k, q : j = h - 2 /\ k = Len(s) /\ q = Len(c) - h
  OBVIOUS
<1>12. j \in Nat /\ k \in Nat /\ q \in Nat
  <2>1. Len(s) \in Nat /\ Len(c) \in Nat
    BY ONLY <1>4, <1>8, LenProperties
  <2> QED BY ONLY <1>3, <1>8, <1>11, <2>1
<1>13. PICK r : r = Returned(o, s)
  OBVIOUS
<1>14. /\ r \in ListsType /\ r.ids = Body(i \o t) /\ r.teacherMask = m \o v
       /\ r.alt = (Body(x0) \o s) \o y0
       /\ r.studentMask = (Zeros(j) \o Ones(k)) \o Zeros(q)
  <2>1. /\ r \in ListsType /\ r.ids = Body(o.ids) /\ r.teacherMask = o.teacherMask
        /\ Supervised /\ 2 <= o.hole =>
              /\ r.alt = (Body(FirstOf(o.alt, o.hole)) \o s) \o LastOf(o.alt, Len(o.alt) - o.hole)
              /\ r.studentMask = (Zeros(o.hole - 2) \o Ones(Len(s))) \o Zeros(Len(o.alt) - o.hole)
    BY <1>4, <1>6, <1>13, ReturnedParts
  <2> QED BY ONLY <1>3, <1>6, <1>7, <1>9, <1>11, <2>1, Supervised
<1>15. PICK b : b = Body(x0)
  OBVIOUS
<1>16. b \in Seq(TokenType) /\ Len(b) = j
  <2>1. 2 <= Len(x0)
    BY ONLY <1>3, <1>10
  <2>2. Body(x0) \in Seq(TokenType) /\ Len(Body(x0)) = Len(x0) - 2
    BY ONLY <1>10, <2>1, BodyIs
  <2> QED BY ONLY <1>10, <1>11, <1>15, <2>2
<1>17. Takes(r.alt, r.studentMask, s)
  <2>1. Takes(b, Zeros(j), <<>>)
    BY ONLY <1>12, <1>16, TakesNothing
  <2>2. Takes(s, Ones(k), s)
    BY ONLY <1>4, <1>11, <1>12, TakesNothing
  <2>3. Takes(b \o s, Zeros(j) \o Ones(k), <<>> \o s)
    BY ONLY <2>1, <2>2, TakesJoined
  <2>4. <<>> \o s = s
    BY ONLY <1>4, ConcatEmptySeq
  <2>5. Takes(b \o s, Zeros(j) \o Ones(k), s)
    BY ONLY <2>3, <2>4
  <2>6. Takes((b \o s) \o y0, (Zeros(j) \o Ones(k)) \o Zeros(q), s)
    BY ONLY <1>10, <1>11, <1>12, <2>5, TakesNoMore
  <2> QED BY ONLY <1>14, <1>15, <2>6
<1>18. r.ids = Body(i) \o t
  <2>1. Body(i \o t) = Body(i) \o t
    BY ONLY <1>3, <1>4, BodyJoined
  <2> QED BY ONLY <1>14, <2>1
<1>19. Takes(r.ids, r.teacherMask, s)
  <2>1. AllZero(told.teacherMask)
    BY DEF PlanSound
  <2>2. Takes(Body(i), m, <<>>)
    BY <1>1, <2>1, ResponseSilent
  <2>3. Takes(Body(i) \o t, m \o v, <<>> \o s)
    BY ONLY <1>4, <2>2, TakesJoined
  <2>4. <<>> \o s = s
    BY ONLY <1>4, ConcatEmptySeq
  <2> QED BY ONLY <1>14, <1>18, <2>3, <2>4
<1>20. ASSUME ~TextsLeftOut PROVE Piece(r.ids, r.alt, r.studentMask)
  <2>1. Missing(told)
    BY <1>20 DEF PlanSound
  <2>2. PICK x \in Seq(TokenType), u \in Seq(TokenType), y \in Seq(TokenType) :
          /\ i = (x \o u) \o y /\ a = x \o y
          /\ Len(x) = h /\ 2 <= Len(x)
          /\ Plain(Body(x)) /\ Plain(y)
          /\ Whole(u, "understanding")
    BY <1>1, <2>1 DEF Missing
  <2>3. Old = "understanding" /\ New = "summary"
    BY DEF Old, New
  <2>4. Plain(t)
    <3>1. /\ p[1] \in Seq(TokenType) /\ p[2] \in Seq(TokenType) /\ p[3] \in Seq(TokenType)
          /\ p[4] \in Seq(TokenType)
          /\ Plain(p[1]) /\ Plain(p[3]) /\ Plain(p[4]) /\ Whole(p[2], "summary")
      BY SummaryPartsAre
    <3>2. "summary" # Old
      BY ONLY <2>3
    <3>3. Plain(p[2])
      BY ONLY <3>1, <3>2, WholePlain
    <3>4. Plain(((p[1] \o p[2]) \o p[3]) \o p[4])
      BY ONLY <3>1, <3>3, FourPlain
    <3> QED BY ONLY <1>2, <3>4 DEF AllFour
  <2>5. PICK z : z = y \o t
    OBVIOUS
  <2>6. z \in Seq(TokenType) /\ Plain(z)
    BY ONLY <1>4, <2>2, <2>4, <2>5, PlainJoined
  <2>7. c = x \o z
    <3>1. (x \o y) \o t = x \o (y \o t)
      <4>1. Regroups(x, y, t)
        BY ONLY <1>4, <2>2, Regrouping
      <4> QED BY ONLY <4>1 DEF Regroups
    <3> QED BY ONLY <1>7, <2>2, <2>5, <3>1
  <2>8. x0 = x /\ y0 = z
    <3>1. FirstOf(x \o z, Len(x)) = x /\ LastOf(x \o z, Len(x \o z) - Len(x)) = z
      BY ONLY <2>2, <2>6, SplitIs
    <3> QED BY ONLY <1>9, <2>2, <2>7, <3>1
  <2>9. Piece(b, b, Zeros(j))
    <3>1. Plain(b)
      BY ONLY <1>15, <2>2, <2>8
    <3> QED BY ONLY <1>12, <1>16, <3>1, PlainPiece
  <2>10. Piece(u, s, Ones(k))
    <3>1. Whole(u, Old) /\ Whole(s, New)
      BY ONLY <1>4, <2>2, <2>3
    <3> QED BY ONLY <1>11, <1>12, <3>1, SwapPiece
  <2>11. Piece(z, z, Zeros(q))
    <3>1. q = Len(z)
      BY ONLY <1>10, <1>11, <2>8
    <3> QED BY ONLY <1>12, <2>6, <3>1, PlainPiece
  <2>12. Piece(b \o u, b \o s, Zeros(j) \o Ones(k))
    BY ONLY <2>9, <2>10, PieceJoined
  <2>13. Piece((b \o u) \o z, (b \o s) \o z, (Zeros(j) \o Ones(k)) \o Zeros(q))
    BY ONLY <2>11, <2>12, PieceJoined
  <2>14. Body(i) \o t = (b \o u) \o z
    <3>1. b = Body(x)
      BY ONLY <1>15, <2>8
    <3>2. PICK w : w = x \o u
      OBVIOUS
    <3>3. Body(w) = b \o u /\ w \in Seq(TokenType) /\ 2 <= Len(w)
      BY ONLY <2>2, <3>1, <3>2, BodyJoined
    <3>4. Body(w \o y) = Body(w) \o y /\ Body(w) \in Seq(TokenType)
      BY ONLY <2>2, <3>3, BodyJoined
    <3>5. PICK d : d = b \o u
      OBVIOUS
    <3>6. d \in Seq(TokenType)
      BY ONLY <3>3, <3>4, <3>5
    <3>7. (d \o y) \o t = d \o (y \o t)
      <4>1. Regroups(d, y, t)
        BY ONLY <1>4, <2>2, <3>6, Regrouping
      <4> QED BY ONLY <4>1 DEF Regroups
    <3> QED BY ONLY <2>2, <2>5, <3>2, <3>3, <3>4, <3>5, <3>7
  <2> QED BY ONLY <1>14, <1>15, <1>18, <2>8, <2>13, <2>14
<1>21. VersionMask(r) = r.studentMask /\ ResponseMask(r) = r.teacherMask
  BY DEF VersionMask, ResponseMask
<1>22. s # <<>> /\ \A n \in 1 .. Len(s) : s[n].what = New
  BY <1>4 DEF Whole, New
<1>23. DistilsPart(r, s)
  BY ONLY <1>14, <1>17, <1>19, <1>20, <1>21, <1>22 DEF DistilsPart
<1> QED BY <1>2, <1>5, <1>13, <1>23

\* Two inferences that differ in the value.
LEMMA ValueSwapped ==
  ASSUME NEW a \in Seq(TokenType), NEW u, NEW w, NEW c \in Seq(TokenType), NEW d \in Seq(TokenType),
         Plain(a), Plain(c), Plain(d), Whole(u, Old), Whole(w, New)
  PROVE  Piece(((a \o u) \o c) \o d, ((a \o w) \o c) \o d,
               ((Zeros(Len(a)) \o Ones(Len(w))) \o Zeros(Len(c))) \o Zeros(Len(d)))
<1>1. w \in Seq(TokenType)
  BY DEF Whole
<1>2. Len(a) \in Nat /\ Len(w) \in Nat /\ Len(c) \in Nat /\ Len(d) \in Nat
  BY <1>1, LenProperties
<1>3. Piece(a, a, Zeros(Len(a))) /\ Piece(c, c, Zeros(Len(c))) /\ Piece(d, d, Zeros(Len(d)))
  BY <1>2, PlainPiece
<1>4. Piece(u, w, Ones(Len(w)))
  BY <1>2, SwapPiece
<1>5. Piece(a \o u, a \o w, Zeros(Len(a)) \o Ones(Len(w)))
  BY ONLY <1>3, <1>4, PieceJoined
<1>6. Piece((a \o u) \o c, (a \o w) \o c, (Zeros(Len(a)) \o Ones(Len(w))) \o Zeros(Len(c)))
  BY ONLY <1>3, <1>5, PieceJoined
<1> QED BY ONLY <1>3, <1>6, PieceJoined

LEMMA SecondSwapped ==
  ASSUME NEW p, DOMAIN p = 1 .. 4, NEW w, NEW q, q = [p EXCEPT ![2] = w]
  PROVE  q[1] = p[1] /\ q[2] = w /\ q[3] = p[3] /\ q[4] = p[4]
<1>1. 1 \in 1 .. 4 /\ 2 \in 1 .. 4 /\ 3 \in 1 .. 4 /\ 4 \in 1 .. 4
  OBVIOUS
<1> QED BY <1>1

LEMMA OneToFour ==
  ASSUME NEW k \in 1 .. 4
  PROVE  k = 1 \/ k = 2 \/ k = 3 \/ k = 4
OBVIOUS

LEMMA TeacherTold ==
  ASSUME ~Supervised, ~TextsLeftOut, NEW told, told = Told(plan, Text("summary prompt", 0, 1)),
         told.root = plan.root, Good(told), Room(told), PlanSound(told, FALSE),
         NEW p, SummaryParts(p), DOMAIN p = 1 .. 4, Good(Summarized(p)), Placed(Summarized(p))
  PROVE  DistilsPart(Returned(Summarized(p), p[2]), told.root)
<1>1. PICK i, w, m, e : i = told.ids /\ w = told.root /\ m = told.teacherMask /\ e = told.studentMask
  OBVIOUS
<1>2. PICK a, s, c, d : a = p[1] /\ s = p[2] /\ c = p[3] /\ d = p[4]
  OBVIOUS
<1>3. /\ a \in Seq(TokenType) /\ s \in Seq(TokenType) /\ c \in Seq(TokenType) /\ d \in Seq(TokenType)
      /\ Plain(a) /\ Plain(c) /\ Plain(d) /\ Whole(s, "summary")
  BY ONLY <1>2, SummaryParts(p), SummaryPartsAre
<1>4. /\ i \in Seq(TokenType) /\ 2 <= Len(i) /\ told.alt = i /\ Plain(Body(i))
      /\ Takes(Body(i), e, w) /\ Whole(w, "understanding") /\ w \in Seq(TokenType)
      /\ AllZero(m)
  <2>1. told \in ListsType /\ 2 <= Len(told.ids)
    BY DEF Room
  <2>2. told.ids \in Seq(TokenType)
    BY ONLY <2>1, ListsAre
  <2>3. /\ told.alt = told.ids /\ Plain(Body(told.ids)) /\ AllZero(told.teacherMask)
        /\ Takes(Body(told.ids), told.studentMask, told.root)
        /\ Whole(told.root, "understanding")
    BY DEF PlanSound, Unchanged
  <2>4. told.root \in Seq(TokenType)
    BY ONLY <2>3 DEF Whole
  <2> QED BY ONLY <1>1, <2>1, <2>2, <2>3, <2>4
<1>5. PICK t : t = AllFour(p)
  OBVIOUS
<1>6. t = ((a \o s) \o c) \o d
  BY ONLY <1>2, <1>5 DEF AllFour
<1>7. PICK q : q = Swapped(p)
  OBVIOUS
<1>8. q[1] = a /\ q[2] = w /\ q[3] = c /\ q[4] = d
  <2>1. q = [p EXCEPT ![2] = w]
    BY <1>1, <1>7 DEF Swapped
  <2>2. q[1] = p[1] /\ q[2] = w /\ q[3] = p[3] /\ q[4] = p[4]
    BY ONLY <2>1, DOMAIN p = 1 .. 4, SecondSwapped
  <2> QED BY ONLY <1>2, <2>2
<1>9. PICK g, v : g = AllFour(q) /\ v = ValueMaskOf(q)
  OBVIOUS
<1>10. /\ g = ((a \o w) \o c) \o d
       /\ v = ((Zeros(Len(a)) \o Ones(Len(w))) \o Zeros(Len(c))) \o Zeros(Len(d))
  BY ONLY <1>8, <1>9 DEF AllFour, ValueMaskOf
<1>11. Takes(g, v, w)
  <2>1. q[1] \in Seq(TokenType) /\ q[2] \in Seq(TokenType) /\ q[3] \in Seq(TokenType)
        /\ q[4] \in Seq(TokenType)
    BY ONLY <1>3, <1>4, <1>8
  <2>3. \A k \in 1 .. 4 : q[k] \in Seq(TokenType)
    BY ONLY <2>1, OneToFour
  <2>4. Takes(AllFour(q), ValueMaskOf(q), q[2])
    BY ONLY <2>3, TakesValue
  <2> QED BY ONLY <1>8, <1>9, <2>4
<1>12. Old = "summary" /\ New = "understanding"
  BY DEF Old, New
<1>13. Piece(t, g, v)
  <2>1. Whole(s, Old) /\ Whole(w, New)
    BY ONLY <1>3, <1>4, <1>12
  <2> QED BY ONLY <1>3, <1>6, <1>10, <2>1, ValueSwapped
<1>14. t \in Seq(TokenType) /\ g \in Seq(TokenType)
  BY ONLY <1>13 DEF Piece
<1>15. PICK n : n = Len(t)
  OBVIOUS
<1>16. n \in Nat
  BY ONLY <1>14, <1>15, LenProperties
<1>17. PICK o : o = Summarized(p)
  OBVIOUS
<1>18. /\ Good(o) /\ Placed(o)
       /\ o.ids = i \o t /\ o.alt = i \o g
       /\ o.teacherMask = m \o v /\ o.studentMask = e \o Zeros(n)
  <2>1. IsInference(p)
    BY DEF SummaryParts
  <2>2. n = Len(AllFour(p))
    BY ONLY <1>5, <1>15
  <2>3. /\ o.ids = told.ids \o AllFour(p)
        /\ ~Supervised => /\ o.alt = told.alt \o AllFour(Swapped(p))
                          /\ o.teacherMask = told.teacherMask \o ValueMaskOf(Swapped(p))
                          /\ o.studentMask = told.studentMask \o Zeros(n)
    BY ONLY <1>17, <2>1, <2>2, Good(told), told = Told(plan, Text("summary prompt", 0, 1)), SummarizedParts
  <2>4. Good(o) /\ Placed(o)
    BY <1>17
  <2> QED BY ONLY <1>1, <1>4, <1>5, <1>7, <1>9, <2>3, <2>4, ~Supervised
<1>19. PICK r : r = Returned(o, s)
  OBVIOUS
<1>20. /\ r \in ListsType /\ r.ids = Body(i \o t) /\ r.alt = Body(i \o g)
       /\ r.teacherMask = m \o v /\ r.studentMask = e \o Zeros(n)
  <2>1. /\ r \in ListsType /\ r.ids = Body(o.ids) /\ r.teacherMask = o.teacherMask
        /\ ~Supervised => r.alt = Body(o.alt) /\ r.studentMask = o.studentMask
    BY <1>3, <1>18, <1>19, ReturnedParts
  <2> QED BY ONLY <1>18, <2>1, ~Supervised
<1>21. PICK b : b = Body(i)
  OBVIOUS
<1>22. r.ids = b \o t /\ r.alt = b \o g
  <2>1. Body(i \o t) = Body(i) \o t /\ Body(i \o g) = Body(i) \o g
    BY ONLY <1>4, <1>14, BodyJoined
  <2> QED BY ONLY <1>20, <1>21, <2>1
<1>23. Takes(b, m, <<>>) /\ Piece(b, b, m)
  <2>1. /\ told.alt = told.ids /\ AllZero(told.teacherMask) /\ Plain(Body(told.ids))
    BY ONLY <1>1, <1>4
  <2>2. Takes(Body(told.ids), told.teacherMask, <<>>)
         /\ Piece(Body(told.ids), Body(told.ids), told.teacherMask)
    BY ONLY <2>1, ~TextsLeftOut, Good(told), Room(told), ResponseSilent
  <2> QED BY ONLY <1>1, <1>21, <2>2
<1>24. Takes(r.ids, r.studentMask, w)
  <2>1. Takes(b, e, w)
    BY ONLY <1>4, <1>21
  <2>2. Takes(b \o t, e \o Zeros(n), w)
    BY ONLY <1>14, <1>15, <1>16, <2>1, TakesNoMore
  <2> QED BY ONLY <1>20, <1>22, <2>2
<1>25. Takes(r.alt, r.teacherMask, w)
  <2>1. Takes(b \o g, m \o v, <<>> \o w)
    BY ONLY <1>11, <1>23, TakesJoined
  <2>2. <<>> \o w = w
    BY ONLY <1>4, ConcatEmptySeq
  <2> QED BY ONLY <1>20, <1>22, <2>1, <2>2
<1>26. Piece(r.ids, r.alt, r.teacherMask)
  <2>1. Piece(b \o t, b \o g, m \o v)
    BY ONLY <1>13, <1>23, PieceJoined
  <2> QED BY ONLY <1>20, <1>22, <2>1
<1>27. VersionMask(r) = r.teacherMask /\ ResponseMask(r) = r.studentMask
  BY DEF VersionMask, ResponseMask
<1>28. w # <<>> /\ \A k \in 1 .. Len(w) : w[k].what = New
  BY ONLY <1>4, <1>12 DEF Whole
<1>29. DistilsPart(r, w)
  BY ONLY <1>20, <1>24, <1>25, <1>26, <1>27, <1>28 DEF DistilsPart
<1> QED BY <1>1, <1>2, <1>17, <1>19, <1>29

\* The summary asked for and made.
LEMMA SummaryArrives ==
  ASSUME IInv, PlanOK, NEW n \in Lengths, NEW k \in Lengths, pc = "summarize",
         Supervised \/ ~TextsLeftOut, NEW p, p = Parts("summary", "answer", 0, n, k)
  PROVE  \E v : DistilsPart(Returned(Summarized(p), p[2]), v)
<1>1. PICK text : text = Text("summary prompt", 0, 1)
  OBVIOUS
<1>2. PICK told : told = Told(plan, text)
  OBVIOUS
<1>3. PlanSound(plan, FALSE) /\ Good(plan) /\ Placed(plan) /\ Room(plan) /\ Counted
  <2>1. Planning /\ pc # "expand"
    BY DEF Planning
  <2> QED BY <2>1, PlanLater
<1>4. /\ n \in Nat \ {0} /\ k \in Nat /\ 0 \in 0..MaxTraj /\ 1 \in Nat
      /\ "summary" \in Generated /\ "answer" \in Generated
      /\ "summary" \in Kinds
      /\ {"value prompt", "move prompt", "answer", "summary prompt"} \subseteq Kinds \ {"understanding", "summary"}
      /\ "summary prompt" \in Kinds \ Generated
  BY ConfigAssumption DEF Generated, Kinds
<1>5. /\ Plain(Text("value prompt", 0, 1)) /\ Plain(Text("move prompt", 0, 1))
      /\ Plain(Text("answer", 0, k)) /\ Plain(text) /\ text \in Seq(TokenType)
  BY <1>1, <1>3, <1>4, PlannerTexts
<1>6. /\ p[1] = Text("value prompt", 0, 1) /\ p[2] = Text("summary", 0, n)
      /\ p[3] = Text("move prompt", 0, 1) /\ p[4] = Text("answer", 0, k)
      /\ DOMAIN p = 1 .. 4 /\ p = <<p[1], p[2], p[3], p[4]>>
  <2>1. PICK a, b, c, d : /\ a = Text("value prompt", 0, 1) /\ b = Text("summary", 0, n)
                          /\ c = Text("move prompt", 0, 1) /\ d = Text("answer", 0, k)
    OBVIOUS
  <2>2. p = <<a, b, c, d>>
    BY <2>1 DEF Parts
  <2>3. /\ p[1] = a /\ p[2] = b /\ p[3] = c /\ p[4] = d /\ DOMAIN p = 1 .. 4
    BY ONLY <2>2
  <2> QED BY ONLY <2>1, <2>2, <2>3
<1>7. IsInference(p)
  BY <1>3, <1>4, PartsAre
<1>8. Whole(p[2], "summary")
  <2>1. Whole(Text("summary", 0, n), "summary")
    BY <1>3, <1>4, TextWhole
  <2> QED BY ONLY <1>6, <2>1
<1>9. SummaryParts(p)
  <2>1. \A j \in 1 .. 4 : p[j] \in Seq(TokenType)
    BY <1>7, InferenceIs
  <2>2. Plain(p[1]) /\ Plain(p[3]) /\ Plain(p[4])
    BY ONLY <1>5, <1>6
  <2> QED BY ONLY <1>7, <1>8, <2>1, <2>2 DEF SummaryParts
<1>10. Good(told) /\ Placed(told) /\ Room(told)
  <2>1. Marks(text, Zeros(Len(text)))
    BY <1>1, <1>3, <1>4, OneMore
  <2>2. Good(Told(plan, text))
    BY ONLY <1>3, <2>1, ToldKeeps
  <2>3. plan \in ListsType
    BY <1>3 DEF Good
  <2>4. Placed(Told(plan, text))
    BY ONLY <1>3, <1>5, <2>3, ToldPlaced
  <2>5. Room(Told(plan, text))
    BY ONLY <2>2, <2>4, PlanRoom
  <2> QED BY ONLY <1>2, <2>2, <2>4, <2>5
<1>11. PlanSound(told, FALSE)
  BY ONLY <1>2, <1>3, <1>5, ToldSound
<1>12. told.root = plan.root
  <2>1. plan \in ListsType
    BY <1>3 DEF Good
  <2> QED BY ONLY <1>2, <1>5, <2>1, ToldParts
<1>13. Good(Summarized(p)) /\ Placed(Summarized(p))
  <2>1. PICK a, b, c, d : a = p[1] /\ b = p[2] /\ c = p[3] /\ d = p[4]
    OBVIOUS
  <2>2. p = <<a, b, c, d>>
    BY ONLY <1>6, <2>1
  <2>3. IsInference(<<a, b, c, d>>)
    BY ONLY <1>7, <2>2
  <2>4. Good(Summarized(<<a, b, c, d>>)) /\ Placed(Summarized(<<a, b, c, d>>))
    BY ONLY <1>3, <2>3, SummarizedGood
  <2> QED BY ONLY <2>2, <2>4
<1>14. told = Told(plan, Text("summary prompt", 0, 1))
  BY <1>1, <1>2
<1>15. CASE Supervised
  <2>1. DistilsPart(Returned(Summarized(p), p[2]), p[2])
    BY ONLY <1>9, <1>10, <1>11, <1>13, <1>14, <1>15, StudentHears
  <2> QED BY ONLY <2>1
<1>16. CASE ~Supervised
  <2>1. DistilsPart(Returned(Summarized(p), p[2]), told.root)
    BY ONLY <1>6, <1>9, <1>10, <1>11, <1>12, <1>13, <1>14, <1>16, Supervised \/ ~TextsLeftOut, TeacherTold
  <2> QED BY ONLY <2>1
<1> QED BY <1>15, <1>16

LEMMA JoiningOut ==
  ASSUME IInv, VersionsOK, Supervised \/ ~TextsLeftOut, config' = config,
         NEW r, NEW v, DistilsPart(r, v), out' = Joining(out, r)
  PROVE  VersionsOK'
<1>1. PICK w : Distils(out, w)
  BY OutDistils
<1>2. Room(out)
  BY Holding, GoodRoom
<1>3. PICK l : l = out
  OBVIOUS
<1>4. Distils(l, w) /\ Room(l)
  BY <1>1, <1>2, <1>3
<1>5. PICK o : o = Joining(l, r)
  OBVIOUS
<1>6. PICK x : x = w \o v
  OBVIOUS
<1>7. Distils(o, x) /\ x # <<>>
  BY ONLY <1>4, <1>5, <1>6, DistilsPart(r, v), JoiningDistils
<1>8. o = out'
  BY <1>3, <1>5
<1> QED BY ONLY <1>7, <1>8, config' = config, DistilsOut

LEMMA SummarizeKeepsVersions ==
  ASSUME IInv, VersionsOK, PlanOK, NEW n \in Lengths, NEW k \in Lengths, Summarize(n, k)
  PROVE  VersionsOK' /\ PlanOK' /\ DistilledAlike' /\ SwappedInPlace'
<1>1. PICK p : p = Parts("summary", "answer", 0, n, k)
  OBVIOUS
<1>2. /\ pc = "summarize" /\ out' = Joining(out, Returned(Summarized(p), p[2]))
      /\ pc' = "act" /\ config' = config
  BY <1>1 DEF Summarize
<1>3. VersionsOK'
  <2>1. CASE ~(Supervised \/ ~TextsLeftOut)
    BY <1>2, <2>1, SameMode DEF VersionsOK
  <2>2. CASE Supervised \/ ~TextsLeftOut
    <3>1. PICK v : DistilsPart(Returned(Summarized(p), p[2]), v)
      BY <1>1, <1>2, <2>2, SummaryArrives
    <3> QED BY <1>2, <2>2, <3>1, JoiningOut
  <2> QED BY <2>1, <2>2
<1>4. PlanOK'
  BY <1>2 DEF PlanOK, Planning
<1>5. DistilledAlike' /\ SwappedInPlace'
  BY <1>2, NotDone
<1> QED BY <1>3, <1>4, <1>5

\* A text of the game goes to every list, and the rewards are not looked at.
LEMMA GameKeepsVersions ==
  ASSUME IInv, VersionsOK, pc = "act", pc' \in {"return", "plan"}, config' = config,
         NEW what \in {"state", "end"},
         NEW l \in ListsType, l.ids = out.ids, l.alt = out.alt,
         l.teacherMask = out.teacherMask, l.studentMask = out.studentMask,
         NEW t, t = Told(l, Text(what, 0, 1)),
         out'.ids = t.ids, out'.alt = t.alt,
         out'.teacherMask = t.teacherMask, out'.studentMask = t.studentMask
  PROVE  VersionsOK' /\ PlanOK' /\ DistilledAlike' /\ SwappedInPlace'
<1>1. VersionsOK'
  <2>1. CASE ~(Supervised \/ ~TextsLeftOut)
    BY <2>1, SameMode DEF VersionsOK
  <2>2. CASE Supervised \/ ~TextsLeftOut
    <3>1. PICK w : Distils(out, w) /\ w # <<>>
      BY <2>2, OutDistils
    <3>2. PICK text : text = Text(what, 0, 1)
      OBVIOUS
    <3>3. text \in Seq(TokenType) /\ Plain(text)
      <4>1. Counted
        BY Holding
      <4>2. what \in Kinds
        BY DEF Kinds
      <4>3. what # Old
        BY DEF Old
      <4>4. 0 \in 0 .. MaxTraj /\ 1 \in Nat
        BY ConfigAssumption
      <4> QED BY ONLY <3>2, <4>1, <4>2, <4>3, <4>4, TextPlain
    <3>4. PICK b : b = out
      OBVIOUS
    <3>5. /\ Distils(b, w) /\ l.ids = b.ids /\ l.alt = b.alt
          /\ l.teacherMask = b.teacherMask /\ l.studentMask = b.studentMask
      BY ONLY <3>1, <3>4, l.ids = out.ids, l.alt = out.alt,
              l.teacherMask = out.teacherMask, l.studentMask = out.studentMask
    <3>6. Distils(l, w)
      BY ONLY <3>5, DistilsSame
    <3>7. Room(l)
      <4>1. Room(out)
        BY <2>2, Holding, GoodRoom
      <4> QED BY <4>1 DEF Room
    <3>8. Distils(t, w)
      <4>1. Distils(Told(l, text), w)
        BY ONLY <3>3, <3>6, <3>7, ToldDistils
      <4> QED BY ONLY <3>2, <4>1, t = Told(l, Text(what, 0, 1))
    <3>9. PICK o : o = out'
      OBVIOUS
    <3>10. /\ o.ids = t.ids /\ o.alt = t.alt
           /\ o.teacherMask = t.teacherMask /\ o.studentMask = t.studentMask
      BY ONLY <3>9, out'.ids = t.ids, out'.alt = t.alt,
              out'.teacherMask = t.teacherMask, out'.studentMask = t.studentMask
    <3>11. Distils(o, w)
      BY ONLY <3>8, <3>10, DistilsSame
    <3> QED BY ONLY <3>1, <3>9, <3>11, config' = config, DistilsOut
  <2> QED BY <2>1, <2>2
<1>2. PlanOK'
  BY DEF PlanOK, Planning
<1>3. DistilledAlike' /\ SwappedInPlace'
  BY NotDone
<1> QED BY <1>1, <1>2, <1>3

LEMMA AddedType ==
  ASSUME NEW r \in Seq(Int), NEW x \in Int
  PROVE  AddToLast(r, x) \in Seq(Int)
<1>1. PICK n \in Nat : n = Len(r)
  BY LenProperties
<1>2. r \in [1 .. n -> Int]
  BY <1>1, LenProperties
<1>3. PICK s : s = AddToLast(r, x)
  OBVIOUS
<1>4. s = [r EXCEPT ![n] = r[n] + x]
  BY <1>1, <1>3 DEF AddToLast
<1>5. s \in [1 .. n -> Int]
  <2>1. DOMAIN s = 1 .. n /\ s = [k \in 1 .. n |-> IF k = n THEN r[n] + x ELSE r[k]]
    BY ONLY <1>2, <1>4
  <2>2. \A k \in 1 .. n : r[k] \in Int
    BY ONLY <1>2
  <2>3. \A k \in 1 .. n : (IF k = n THEN r[n] + x ELSE r[k]) \in Int
    BY ONLY <2>2, x \in Int
  <2> QED BY ONLY <2>1, <2>3
<1>6. s = [k \in 1 .. n |-> s[k]] /\ \A k \in 1 .. n : s[k] \in Int
  BY ONLY <1>5
<1> QED BY <1>3, <1>6, IsASeq

LEMMA EndWithKeepsVersions ==
  ASSUME IInv, VersionsOK, pc = "act", NEW x, EndWith(x)
  PROVE  VersionsOK' /\ PlanOK' /\ DistilledAlike' /\ SwappedInPlace'
<1>1. PICK l : l = out
  OBVIOUS
<1>2. PICK t : t = Told(l, Text("end", 0, 1))
  OBVIOUS
<1>3. l \in ListsType
  BY <1>1 DEF IInv, TypeOK
<1>4. PICK s : s = Rewarded(x, Text("end", 0, 1))
  OBVIOUS
<1>5. out' = [t EXCEPT !.reward = s] /\ pc' = "return" /\ config' = config
  BY <1>1, <1>2, <1>4 DEF EndWith
<1>6. t \in ListsType
  <2>1. Text("end", 0, 1) \in Seq(TokenType)
    BY GameTexts
  <2> QED BY <1>2, <1>3, <2>1, ToldParts
<1>7. PICK r : r = [t EXCEPT !.reward = s]
  OBVIOUS
<1>8. /\ r.ids = t.ids /\ r.alt = t.alt
      /\ r.teacherMask = t.teacherMask /\ r.studentMask = t.studentMask
  BY ONLY <1>6, <1>7, RewardSame
<1>9. /\ out'.ids = t.ids /\ out'.alt = t.alt
      /\ out'.teacherMask = t.teacherMask /\ out'.studentMask = t.studentMask
  BY ONLY <1>5, <1>7, <1>8
<1> QED BY <1>1, <1>2, <1>3, <1>5, <1>9, GameKeepsVersions

LEMMA MoveKeepsVersions ==
  ASSUME IInv, VersionsOK, NEW x \in {0, 1}, Move(x)
  PROVE  VersionsOK' /\ PlanOK' /\ DistilledAlike' /\ SwappedInPlace'
<1>1. PICK s : s = AddToLast(out.reward, x)
  OBVIOUS
<1>2. PICK b : b = out
  OBVIOUS
<1>3. PICK l : l = [b EXCEPT !.reward = s]
  OBVIOUS
<1>4. /\ pc = "act" /\ pc' = "plan" /\ config' = config
      /\ out' = Told(l, Text("state", 0, 1))
  BY <1>1, <1>2, <1>3 DEF Move
<1>5. b \in ListsType
  BY <1>2 DEF IInv, TypeOK
<1>6. /\ l.ids = b.ids /\ l.alt = b.alt
      /\ l.teacherMask = b.teacherMask /\ l.studentMask = b.studentMask
  BY ONLY <1>3, <1>5, RewardSame
<1>7. l \in ListsType
  <2>1. s \in Seq(Int)
    <3>1. out.reward \in Seq(Int)
      BY <1>2, <1>5, ListsAre
    <3>2. x \in Int
      OBVIOUS
    <3> QED BY <1>1, <3>1, <3>2, AddedType
  <2> QED BY <1>3, <1>5, <2>1 DEF ListsType
<1>8. PICK t : t = Told(l, Text("state", 0, 1))
  OBVIOUS
<1>9. /\ out'.ids = t.ids /\ out'.alt = t.alt
      /\ out'.teacherMask = t.teacherMask /\ out'.studentMask = t.studentMask
  BY ONLY <1>4, <1>8
<1> QED BY <1>2, <1>4, <1>6, <1>7, <1>8, <1>9, GameKeepsVersions

LEMMA NothingKeepsVersions ==
  ASSUME IInv, VersionsOK, PlanOK, DistilledAlike, SwappedInPlace, UNCHANGED vars
  PROVE  VersionsOK' /\ PlanOK' /\ DistilledAlike' /\ SwappedInPlace'
<1>1. /\ config' = config /\ out' = out /\ pc' = pc /\ plan' = plan /\ step' = step
      /\ output' = output
  BY DEF vars
<1>2. VersionsOK'
  BY <1>1, OutLater
<1>3. PlanOK'
  <2>1. CASE ~Planning
    BY <1>1, <2>1 DEF PlanOK, Planning
  <2>2. CASE Planning
    <3>1. PlanSound(plan, pc = "expand")
      BY <2>2, PlanIs
    <3>2. PICK l : l = plan'
      OBVIOUS
    <3>3. PlanSound(l, pc' = "expand") /\ Planning'
      BY <1>1, <2>2, <3>1, <3>2 DEF Planning
    <3> QED BY ONLY <1>1, <3>2, <3>3, IsPlan
  <2> QED BY <2>1, <2>2
<1>4. DistilledAlike'
  BY <1>1 DEF DistilledAlike, SameTokensDistilled, Overlong, Supervised, TextsLeftOut, New
<1>5. SwappedInPlace'
  <2>1. SUFFICES ASSUME pc = "done", ~Overlong, ~TextsLeftOut PROVE SwappedInPlace'
    BY <1>1 DEF SwappedInPlace, Overlong, TextsLeftOut, Supervised
  <2>2. PICK v, m, s : /\ v = IF Supervised THEN output.student ELSE output.teacher
                       /\ m = IF Supervised THEN output.studentMask ELSE output.teacherMask
                       /\ s = output.response
    OBVIOUS
  <2>3. Where(v, m, 0) = Kept(s) /\ SameTexts(s, v)
    BY <2>1, <2>2 DEF SwappedInPlace
  <2>4. Kept(s)' = Kept(s) /\ SameTexts(s, v)'
    BY <1>1, <2>3, KeptLater, SameTextsLater
  <2> QED BY <1>1, <2>2, <2>3, <2>4 DEF SwappedInPlace, Supervised
<1> QED BY <1>2, <1>3, <1>4, <1>5

VersionsInv == VersionsOK /\ PlanOK /\ DistilledAlike /\ SwappedInPlace

LEMMA VersionsStart == Init => VersionsInv
<1> SUFFICES ASSUME Init PROVE VersionsInv
  OBVIOUS
<1>1. pc = "plan" /\ out = [NoLists EXCEPT !.ids = SystemPrompt, !.alt = SystemPrompt] /\ Counted
  BY DEF Init, Counted
<1>2. PICK s : s = SystemPrompt
  OBVIOUS
<1>3. s \in Seq(TokenType) /\ Len(s) = 2
  BY <1>1, <1>2, PromptIs
<1>4. /\ out.ids = s /\ out.alt = s /\ out.teacherMask = <<>> /\ out.studentMask = <<>>
  BY <1>1, <1>2 DEF NoLists
<1>5. Body(s) = <<>>
  <2>1. 2 <= Len(s)
    BY ONLY <1>3
  <2>2. Body(s) \in Seq(TokenType) /\ Len(Body(s)) = Len(s) - 2
    BY ONLY <1>3, <2>1, BodyIs
  <2> QED BY ONLY <1>3, <2>2, EmptySeq
<1>6. Piece(<<>>, <<>>, <<>>)
  BY EmptyPiece
<1>7. Where(<<>>, <<>>, 1) = <<>>
  <2>1. <<>> \in Seq(TokenType) /\ \A k \in 1 .. Len(<<>>) : FALSE
    BY EmptySeq
  <2> QED BY ONLY <2>1, WhereSame
<1>8. VersionMask(out) = <<>> /\ ResponseMask(out) = <<>>
  BY <1>4 DEF VersionMask, ResponseMask
<1>9. Body(out.ids) = <<>> /\ Body(out.alt) = <<>>
  BY <1>4, <1>5
<1>10. \A k \in 1 .. Len(<<>>) : FALSE
  BY EmptySeq
<1>11. VersionsOK
  BY ONLY <1>1, <1>6, <1>7, <1>8, <1>9, <1>10 DEF VersionsOK, Piece
<1>12. PlanOK /\ DistilledAlike /\ SwappedInPlace
  BY <1>1 DEF PlanOK, Planning, DistilledAlike, SameTokensDistilled, SwappedInPlace
<1> QED BY ONLY <1>11, <1>12 DEF VersionsInv

LEMMA VersionsKept == IInv /\ VersionsInv /\ [Next]_vars => VersionsInv'
<1> SUFFICES ASSUME IInv, VersionsInv, [Next]_vars
             PROVE  VersionsOK' /\ PlanOK' /\ DistilledAlike' /\ SwappedInPlace'
  BY DEF VersionsInv
<1>0. VersionsOK /\ PlanOK /\ DistilledAlike /\ SwappedInPlace
  BY DEF VersionsInv
<1>1. CASE \/ StartPlan
           \/ \E n, k \in Lengths, found \in 0..MaxTraj : Expand(n, k, found)
           \/ \E i \in todo, n \in Lengths : Simulate(i, n)
           \/ \E over \in SUBSET running : Execute(over)
  BY <1>0, <1>1, PlannerKeepsVersions
<1>2. CASE \E n, k \in Lengths : Summarize(n, k)
  BY <1>0, <1>2, SummarizeKeepsVersions
<1>3. CASE NoAction
  <2>1. pc = "act" /\ EndWith(-2)
    BY <1>3 DEF NoAction
  <2> QED BY <1>0, <2>1, EndWithKeepsVersions
<1>4. CASE \E r \in {0, 1} : LastMove(r)
  <2>1. PICK r \in {0, 1} : LastMove(r)
    BY <1>4
  <2>2. pc = "act" /\ EndWith(r)
    BY <2>1 DEF LastMove
  <2> QED BY <1>0, <2>2, EndWithKeepsVersions
<1>5. CASE \E r \in {0, 1} : Move(r)
  BY <1>0, <1>5, MoveKeepsVersions
<1>6. CASE Return
  <2>1. VersionsOK' /\ DistilledAlike' /\ SwappedInPlace'
    BY <1>0, <1>6, ReturnKeepsVersions
  <2>2. PlanOK'
    BY <1>6 DEF Return, PlanOK, Planning
  <2> QED BY <2>1, <2>2
<1>7. CASE UNCHANGED vars
  BY <1>0, <1>7, NothingKeepsVersions
<1> QED BY <1>1, <1>2, <1>3, <1>4, <1>5, <1>6, <1>7 DEF Next

LEMMA VersionsAlways == Spec => []VersionsInv
<1> QED BY VersionsStart, VersionsKept, Invariance, PTL DEF Spec

(* Student and teacher are compared on the same tokens, in the same order  *)
(* and of the kind the mode distills, unless a list is cut or texts were   *)
(* left out of the teacher's (run_parallel_planning builds the two         *)
(* versions and their masks list by list).                                 *)
THEOREM VersionsDistillAlike == Spec => []DistilledAlike
<1>1. VersionsInv => DistilledAlike
  BY DEF VersionsInv
<1> QED BY <1>1, VersionsAlways, PTL

(* The summary is put where the first understanding was, or the other way  *)
(* round, and the rest of the response is in both versions, token by token *)
(* (run_parallel_planning and the cut of run_lpm).                         *)
THEOREM TextsSwappedInPlace == Spec => []SwappedInPlace
<1>1. VersionsInv => SwappedInPlace
  BY DEF VersionsInv
<1> QED BY <1>1, VersionsAlways, PTL
=============================================================================
