---------------------------- MODULE EpisodesProofs ----------------------------
(***************************************************************************)
(* Theorems about the episodes, for every number of episodes, every size   *)
(* of a plan and every size of the pool.                                   *)
(*                                                                         *)
(* IInv says of each episode which environments it may hold at the stage   *)
(* it is in (HoldsOK), which of them are open (LiveOK) and which have no   *)
(* life yet (FreshOK), and that only the one it waits for is between two   *)
(* lives (BetweenOK).  A step of one episode leaves the others' parts      *)
(* alone, except that a slot it gives back may start the environment the   *)
(* first in line waits for (OthersKeep, GrantKeeps).                       *)
(***************************************************************************)
EXTENDS Episodes, FiniteSetTheorems, SequenceTheorems, TLAPS

\* An episode whose own state does not change, nor its environments'.
Still(x) ==
  /\ pc'[x] = pc[x] /\ target'[x] = target[x] /\ after'[x] = after[x]
  /\ step'[x] = step[x] /\ n'[x] = n[x] /\ turn'[x] = turn[x]
  /\ cursor'[x] = cursor[x] /\ ended'[x] = ended[x]

-----------------------------------------------------------------------------
(* Environments' names.                                                    *)

LEMMA EnvName ==
  ASSUME NEW x \in Eps, NEW r \in Roles, step[x] \in Nat,
         r = Main \/ step[x] <= MaxSteps
  PROVE  /\ Env(x, r) \in EnvIds
         /\ Env(x, r)[1] = x /\ Env(x, r)[2] = r
         /\ Env(x, r)[3] = IF r = Main THEN 0 ELSE step[x]
BY EpisodesAssumption DEF Env, EnvIds

LEMMA EnvParts ==
  ASSUME NEW e \in EnvIds
  PROVE  /\ e[1] \in Eps /\ e[2] \in Roles /\ e[3] \in 0 .. MaxSteps
         /\ e = <<e[1], e[2], e[3]>>
BY DEF EnvIds

LEMMA RolesAre ==
  /\ Main \in Roles /\ Sim \in Roles /\ Traj \subseteq Roles
  /\ Main \notin Traj /\ Sim \notin Traj /\ Main # Sim
  /\ Roles = {Main, Sim} \cup Traj
BY EpisodesAssumption DEF Main, Sim, Traj, Roles

-----------------------------------------------------------------------------
(* Initially.                                                              *)

LEMMA InitOK == Init => IInv
<1> SUFFICES ASSUME Init PROVE IInv
  OBVIOUS
<1>1. TypeOK
  BY EpisodesAssumption, EmptySeq
     DEF Init, TypeOK, EnvIds, Roles, Main, PCs, Pool!Phases
<1>2. LineOK
  BY DEF Init, LineOK
<1>3. ASSUME NEW x \in Eps PROVE EpisodeOK(x)
  <2>1. \A e \in EnvIds : phase[e] = "none"
    BY DEF Init
  <2>2. BoundsOK(x)
    BY EpisodesAssumption DEF Init, BoundsOK, Stage
  <2>3. WaitOK(x)
    BY DEF Init, WaitOK
  <2>4. HoldsOK(x)
    BY <2>1 DEF HoldsOK, HeldBy, Pool!Held, Pool!EnvsIn
  <2>5. FreshOK(x)
    BY <2>1, EpisodesAssumption DEF FreshOK, EnvIds, Roles, Main
  <2>6. LiveOK(x)
    BY DEF Init, LiveOK, Opened, Stage
  <2>7. BetweenOK(x)
    BY <2>1 DEF BetweenOK
  <2> QED BY <2>2, <2>3, <2>4, <2>5, <2>6, <2>7 DEF EpisodeOK
<1> QED BY <1>1, <1>2, <1>3 DEF IInv

-----------------------------------------------------------------------------
(* Episodes that do not move.                                              *)

\* The parts of EpisodeOK that do not look at environments.
LEMMA StillStages ==
  ASSUME NEW x \in Eps, Still(x)
  PROVE  /\ Stage(x)' = Stage(x) /\ Keeps(x)' = Keeps(x)
         /\ Unopened(x)' = Unopened(x) /\ Opened(x)' = Opened(x)
         /\ Awaited(x)' = Awaited(x)
         /\ \A r : Env(x, r)' = Env(x, r)
         /\ BoundsOK(x) => BoundsOK(x)'
         /\ WaitOK(x) => WaitOK(x)'
<1>1. Stage(x)' = Stage(x)
  BY DEF Still, Stage
<1>2. Keeps(x)' = Keeps(x) /\ Unopened(x)' = Unopened(x)
      /\ Opened(x)' = Opened(x) /\ Awaited(x)' = Awaited(x)
  BY <1>1 DEF Still, Keeps, Unopened, Opened, Awaited
<1>3. \A r : Env(x, r)' = Env(x, r)
  BY DEF Still, Env
<1>4. BoundsOK(x) => BoundsOK(x)'
  BY <1>1 DEF Still, BoundsOK
<1>5. WaitOK(x) => WaitOK(x)'
  BY <1>2, <1>3 DEF Still, WaitOK
<1> QED BY <1>1, <1>2, <1>3, <1>4, <1>5

LEMMA OpenedAre ==
  ASSUME TypeOK, NEW x \in Eps, BoundsOK(x), NEW i \in Opened(x)
  PROVE  i \in Traj /\ step[x] <= MaxSteps /\ step[x] \in Nat
<1>0. /\ cursor[x] \in 1 .. MaxTraj + 1 /\ n[x] \in 0 .. MaxTraj
      /\ step[x] \in 0 .. MaxSteps + 1 /\ MaxTraj \in Nat /\ MaxSteps \in Nat
  BY EpisodesAssumption DEF TypeOK
<1>1. CASE Stage(x) = "group"
  <2>1. step[x] <= MaxSteps
    BY <1>1 DEF BoundsOK
  <2>2. CASE pc[x] = "create"
    <3>1. i \in 1 .. cursor[x] - 2
      BY <1>1, <2>2 DEF Opened
    <3> QED BY <1>0, <2>1, <3>1 DEF Traj
  <2>3. CASE pc[x] # "create"
    <3>1. i \in 1 .. cursor[x] - 1
      BY <1>1, <2>3 DEF Opened
    <3> QED BY <1>0, <2>1, <3>1 DEF Traj
  <2> QED BY <2>2, <2>3
<1>2. CASE Stage(x) = "turn"
  <2>1. step[x] <= MaxSteps
    BY <1>2 DEF BoundsOK
  <2>2. i \in 1 .. n[x]
    BY <1>2 DEF Opened
  <2> QED BY <1>0, <2>1, <2>2 DEF Traj
<1>3. CASE Stage(x) \notin {"group", "turn"}
  BY <1>3 DEF Opened
<1> QED BY <1>1, <1>2, <1>3

LEMMA Frame ==
  ASSUME IInv, NEW x \in Eps, Still(x),
         \A e \in EnvIds : e[1] = x => phase'[e] = phase[e]
  PROVE  EpisodeOK(x)'
<1>0. EpisodeOK(x) /\ TypeOK
  BY DEF IInv
<1>1. BoundsOK(x)' /\ WaitOK(x)'
  BY <1>0, StillStages DEF EpisodeOK
<1>2. HeldBy(x)' = HeldBy(x)
  BY DEF HeldBy, Pool!Held, Pool!EnvsIn
<1>3. HoldsOK(x)'
  BY <1>0, <1>2, StillStages DEF EpisodeOK, HoldsOK, Still
<1>4. FreshOK(x)'
  <2>1. \A r \in Roles, k \in 0 .. MaxSteps : phase'[<<x, r, k>>] = phase[<<x, r, k>>]
    BY DEF EnvIds
  <2>2. Main \in Roles /\ 0 \in 0 .. MaxSteps
    BY RolesAre, EpisodesAssumption
  <2> QED BY <1>0, <2>1, <2>2, StillStages DEF EpisodeOK, FreshOK, Still
<1>5. LiveOK(x)'
  <2>1. ASSUME NEW i \in Opened(x) PROVE phase'[Env(x, i)] = phase[Env(x, i)]
    <3>1. i \in Traj /\ step[x] <= MaxSteps /\ step[x] \in Nat
      BY <1>0, OpenedAre DEF EpisodeOK
    <3>2. Env(x, i) \in EnvIds /\ Env(x, i)[1] = x
      BY <3>1, EnvName, RolesAre
    <3> QED BY <3>2
  <2> QED BY <1>0, <2>1, StillStages DEF EpisodeOK, LiveOK
<1>6. BetweenOK(x)'
  BY <1>0 DEF EpisodeOK, BetweenOK, Still
<1> QED BY <1>1, <1>3, <1>4, <1>5, <1>6 DEF EpisodeOK

\* The environment x waits for, or waited for when it failed, gets its slot.
LEMMA GrantKeeps ==
  ASSUME IInv, NEW x \in Eps, Still(x), pc[x] \in {"create", "failed"},
         phase[target[x]] = "none", phase'[target[x]] = "starting",
         \A e \in EnvIds \ {target[x]} : e[1] = x => phase'[e] = phase[e]
  PROVE  EpisodeOK(x)'
<1>0. EpisodeOK(x) /\ TypeOK /\ target[x] \in EnvIds
  BY DEF IInv, TypeOK
<1>1. BoundsOK(x)' /\ WaitOK(x)'
  BY <1>0, StillStages DEF EpisodeOK
<1>2. HeldBy(x)' \subseteq HeldBy(x) \cup {target[x]}
  BY DEF HeldBy, Pool!Held, Pool!EnvsIn
<1>3. pc[x] = "create" => Awaited(x) \in Keeps(x) /\ Awaited(x) \notin Unopened(x)
                          /\ target[x] = Env(x, Awaited(x)) /\ Awaited(x) \in Roles
  <2>1. SUFFICES ASSUME pc[x] = "create"
                 PROVE  /\ Awaited(x) \in Keeps(x) /\ Awaited(x) \notin Unopened(x)
                        /\ target[x] = Env(x, Awaited(x)) /\ Awaited(x) \in Roles
    OBVIOUS
  <2>2. /\ after[x] \in {"round", "peek", "group"} /\ Stage(x) = after[x]
        /\ target[x] = Env(x, Awaited(x))
        /\ after[x] = "group" => cursor[x] \in 2 .. n[x] + 1
    BY <1>0, <2>1 DEF EpisodeOK, WaitOK, Stage
  <2>3. CASE after[x] = "round"
    BY <2>2, <2>3, RolesAre DEF Awaited, Keeps, Unopened
  <2>4. CASE after[x] = "peek"
    BY <2>2, <2>4, RolesAre DEF Awaited, Keeps, Unopened
  <2>5. CASE after[x] = "group"
    <3>1. cursor[x] \in 2 .. MaxTraj + 1 /\ MaxTraj \in Nat
      BY <1>0, <2>2, <2>5, EpisodesAssumption DEF TypeOK
    <3> QED BY <2>2, <2>5, <3>1 DEF Awaited, Keeps, Unopened, Roles
  <2> QED BY <2>2, <2>3, <2>4, <2>5
<1>4. HoldsOK(x)'
  <2>1. SUFFICES ASSUME pc[x] = "create", NEW e \in HeldBy(x)'
                 PROVE  \E r \in Keeps(x) : e = Env(x, r)
    BY StillStages DEF HoldsOK, Still
  <2>2. CASE e = target[x]
    BY <1>3, <2>1, <2>2
  <2>3. CASE e # target[x]
    BY <1>0, <1>2, <2>1, <2>3 DEF EpisodeOK, HoldsOK
  <2> QED BY <2>2, <2>3
<1>5. FreshOK(x)'
  <2>1. ASSUME NEW r \in Roles \ {Main}, NEW k \in 0 .. MaxSteps,
               k > step[x] \/ (k = step[x] /\ r \in Unopened(x))
        PROVE  phase'[<<x, r, k>>] = "none"
    <3>1. <<x, r, k>> \in EnvIds /\ phase[<<x, r, k>>] = "none"
      BY <1>0, <2>1 DEF EpisodeOK, FreshOK, EnvIds
    <3>2. target[x] # <<x, r, k>>
      <4>1. SUFFICES ASSUME target[x] = <<x, r, k>> PROVE FALSE
        OBVIOUS
      <4>2. k <= step[x] /\ step[x] \in Nat /\ k \in Nat
        BY <1>0, <4>1 DEF EpisodeOK, WaitOK, TypeOK
      <4>3. k = step[x] /\ r \in Unopened(x)
        BY <2>1, <4>2
      <4>4. pc[x] = "create"
        BY <4>3 DEF Unopened, Stage
      <4>5. r = Awaited(x)
        BY <1>3, <4>1, <4>4 DEF Env
      <4> QED BY <1>3, <4>3, <4>4, <4>5
    <3> QED BY <3>1, <3>2
  <2> QED BY <2>1, StillStages DEF FreshOK, Still
<1>6. LiveOK(x)'
  <2>1. ASSUME NEW i \in Opened(x) PROVE phase'[Env(x, i)] = "live"
    <3>1. i \in Traj /\ step[x] <= MaxSteps /\ step[x] \in Nat
      BY <1>0, OpenedAre DEF EpisodeOK
    <3>2. Env(x, i) \in EnvIds /\ Env(x, i)[1] = x /\ phase[Env(x, i)] = "live"
      BY <1>0, <2>1, <3>1, EnvName, RolesAre DEF EpisodeOK, LiveOK
    <3> QED BY <3>2
  <2> QED BY <2>1, StillStages DEF LiveOK
<1>7. BetweenOK(x)'
  BY <1>0 DEF EpisodeOK, BetweenOK, Still
<1> QED BY <1>1, <1>4, <1>5, <1>6, <1>7 DEF EpisodeOK

-----------------------------------------------------------------------------
(* What an action leaves of the line and of the other episodes.            *)

\* The environment an episode waits for is not in line while it has a life,
\* nor is anything of an episode that is neither creating nor failed.
LEMMA NotInLine ==
  ASSUME IInv, NEW x \in Eps,
         pc[x] \notin {"create", "failed"} \/ phase[target[x]] # "none"
  PROVE  \A i \in 1 .. Len(line) : line[i] \in EnvIds /\ line[i][1] \in Eps \ {x}
<1>1. line \in Seq(EnvIds) /\ LineOK
  BY DEF IInv, TypeOK
<1>2. ASSUME NEW i \in 1 .. Len(line)
      PROVE  line[i] \in EnvIds /\ line[i][1] \in Eps \ {x}
  <2>1. PICK e \in EnvIds : e = line[i]
    BY <1>1
  <2>2. phase[e] = "none" /\ target[e[1]] = e /\ pc[e[1]] \in {"create", "failed"}
    BY <1>1, <2>1 DEF LineOK
  <2> QED BY <2>1, <2>2, EnvParts
<1> QED BY <1>2

\* No slot changes hands: phases of ep's environments only, the line as it
\* was or longer by an environment of ep.
LEMMA OthersKeep ==
  ASSUME IInv, NEW ep \in Eps, \A x \in Eps \ {ep} : Still(x),
         \A e \in EnvIds : e[1] # ep => phase'[e] = phase[e]
  PROVE  \A x \in Eps \ {ep} : EpisodeOK(x)'
BY Frame

LEMMA LineStays ==
  ASSUME IInv, NEW ep \in Eps, \A x \in Eps \ {ep} : Still(x), line' = line,
         \A e \in EnvIds : e[1] # ep => phase'[e] = phase[e],
         pc[ep] \notin {"create", "failed"} \/ phase[target[ep]] # "none"
  PROVE  LineOK'
<1>1. \A i \in 1 .. Len(line) : line[i] \in EnvIds /\ line[i][1] \in Eps \ {ep}
  BY NotInLine
<1> QED BY <1>1 DEF IInv, LineOK, Still

LEMMA LineGrows ==
  ASSUME IInv, NEW ep \in Eps, \A x \in Eps \ {ep} : Still(x), phase' = phase,
         pc[ep] \notin {"create", "failed"}, pc'[ep] = "create",
         NEW e \in EnvIds, e[1] = ep, phase[e] = "none", target'[ep] = e,
         line' = Append(line, e)
  PROVE  LineOK'
<1>1. \A i \in 1 .. Len(line) : line[i] \in EnvIds /\ line[i][1] \in Eps \ {ep}
  BY NotInLine
<1>2. line \in Seq(EnvIds) /\ LineOK
  BY DEF IInv, TypeOK
<1>3. /\ Len(line') = Len(line) + 1 /\ Len(line) \in Nat
      /\ \A i \in 1 .. Len(line) : line'[i] = line[i]
      /\ line'[Len(line) + 1] = e
  BY <1>2, AppendProperties
<1>4. ASSUME NEW i \in 1 .. Len(line')
      PROVE  /\ phase[line'[i]] = "none"
             /\ target'[line'[i][1]] = line'[i]
             /\ pc'[line'[i][1]] \in {"create", "failed"}
  <2>1. CASE i = Len(line) + 1
    BY <1>3, <2>1
  <2>2. CASE i # Len(line) + 1
    <3>1. i \in 1 .. Len(line) /\ line'[i] = line[i]
      BY <1>3, <2>2
    <3> QED BY <1>1, <1>2, <3>1 DEF LineOK, Still
  <2> QED BY <2>1, <2>2
<1>5. ASSUME NEW i \in 1 .. Len(line'), NEW j \in 1 .. Len(line'), line'[i] = line'[j]
      PROVE  i = j
  <2>1. \A k \in 1 .. Len(line') : k = Len(line) + 1 \/ k \in 1 .. Len(line)
    BY <1>3
  <2>2. \A k \in 1 .. Len(line) : line'[k] # e
    BY <1>1, <1>3
  <2> QED BY <1>2, <1>3, <1>5, <2>1, <2>2 DEF LineOK
<1> QED BY <1>4, <1>5 DEF LineOK

\* The first in line gets a slot.
LEMMA LineAdvances ==
  ASSUME IInv, line # <<>>, line' = Tail(line),
         NEW S \in SUBSET Eps, \A x \in S : Still(x),
         \A i \in 1 .. Len(line) : line[i][1] \in S,
         NEW D \in SUBSET EnvIds, \A i \in 1 .. Len(line) : line[i] \notin D,
         \A d \in EnvIds \ (D \cup {Head(line)}) : phase'[d] = phase[d]
  PROVE  line' \in Seq(EnvIds) /\ LineOK'
<1>1. line \in Seq(EnvIds) /\ LineOK
  BY DEF IInv, TypeOK
<1>2. /\ Len(line) \in Nat \ {0} /\ Len(line') = Len(line) - 1
      /\ line' \in Seq(EnvIds) /\ Head(line) = line[1]
      /\ \A i \in 1 .. Len(line') : line'[i] = line[i + 1]
  BY <1>1, HeadTailProperties, EmptySeq
<1>3. ASSUME NEW i \in 1 .. Len(line')
      PROVE  /\ phase'[line'[i]] = "none"
             /\ target'[line'[i][1]] = line'[i]
             /\ pc'[line'[i][1]] \in {"create", "failed"}
  <2>1. i + 1 \in 1 .. Len(line) /\ i + 1 # 1 /\ 1 \in 1 .. Len(line)
    BY <1>2
  <2>2. line[i + 1] # Head(line) /\ line[i + 1] \in EnvIds
    BY <1>1, <1>2, <2>1 DEF LineOK
  <2>3. phase'[line[i + 1]] = phase[line[i + 1]]
    BY <2>1, <2>2
  <2> QED BY <1>1, <1>2, <2>1, <2>3 DEF LineOK, Still
<1>4. ASSUME NEW i \in 1 .. Len(line'), NEW j \in 1 .. Len(line'), line'[i] = line'[j]
      PROVE  i = j
  <2>1. i + 1 \in 1 .. Len(line) /\ j + 1 \in 1 .. Len(line)
    BY <1>2
  <2>2. i + 1 = j + 1
    BY <1>1, <1>2, <1>4, <2>1 DEF LineOK
  <2> QED BY <2>2
<1> QED BY <1>2, <1>3, <1>4 DEF LineOK

LEMMA GiveBackKeeps ==
  ASSUME IInv, NEW ep \in Eps, \A x \in Eps \ {ep} : Still(x),
         phase[target[ep]] \in {"starting", "ending"}, GiveBack(target[ep])
  PROVE  /\ phase' \in [EnvIds -> Pool!Phases] /\ line' \in Seq(EnvIds)
         /\ phase'[target[ep]] = "gone"
         /\ \A d \in EnvIds \ {target[ep]} : d[1] = ep => phase'[d] = phase[d]
         /\ LineOK' /\ \A x \in Eps \ {ep} : EpisodeOK(x)'
<1>0. /\ TypeOK /\ LineOK /\ target[ep] \in EnvIds /\ target[ep][1] = ep
      /\ phase \in [EnvIds -> Pool!Phases] /\ line \in Seq(EnvIds)
  BY DEF IInv, TypeOK, EpisodeOK, WaitOK
<1>1. \A i \in 1 .. Len(line) : line[i] \in EnvIds /\ line[i][1] \in Eps \ {ep}
  BY NotInLine
<1>2. CASE line = <<>>
  <2>1. phase' = [phase EXCEPT ![target[ep]] = "gone"] /\ line' = line
    BY <1>2 DEF GiveBack, Pool!Release
  <2>2. LineOK'
    BY <1>0, <2>1, LineStays
  <2>3. \A x \in Eps \ {ep} : EpisodeOK(x)'
    BY <1>0, <2>1, OthersKeep
  <2> QED BY <1>0, <2>1, <2>2, <2>3 DEF Pool!Phases
<1>3. CASE line # <<>>
  <2>1. /\ phase' = [phase EXCEPT ![target[ep]] = "gone", ![Head(line)] = "starting"]
        /\ line' = Tail(line)
    BY <1>3 DEF GiveBack, Pool!HandOver
  <2>2. /\ 1 \in 1 .. Len(line) /\ Head(line) = line[1]
    BY <1>0, <1>3, HeadTailProperties, EmptySeq
  <2>3. PICK f \in EnvIds : f = Head(line)
    BY <1>1, <2>2
  <2>4. /\ f[1] \in Eps \ {ep} /\ phase[f] = "none" /\ target[f[1]] = f
        /\ pc[f[1]] \in {"create", "failed"}
    BY <1>0, <1>1, <2>2, <2>3 DEF LineOK
  <2>5. /\ phase' \in [EnvIds -> Pool!Phases] /\ phase'[target[ep]] = "gone"
        /\ phase'[f] = "starting"
        /\ \A d \in EnvIds \ {target[ep], f} : phase'[d] = phase[d]
    BY <1>0, <2>1, <2>3, <2>4 DEF Pool!Phases
  <2>6. line' \in Seq(EnvIds) /\ LineOK'
    <3>1. \A i \in 1 .. Len(line) : line[i] \notin {target[ep]}
      BY <1>0, <1>1
    <3>2. /\ Eps \ {ep} \in SUBSET Eps /\ {target[ep]} \in SUBSET EnvIds
          /\ \A i \in 1 .. Len(line) : line[i][1] \in Eps \ {ep}
          /\ \A d \in EnvIds \ ({target[ep]} \cup {Head(line)}) : phase'[d] = phase[d]
      BY <1>0, <1>1, <2>3, <2>5
    <3> QED BY <1>3, <2>1, <3>1, <3>2, LineAdvances
  <2>7. ASSUME NEW x \in Eps \ {ep} PROVE EpisodeOK(x)'
    <3>1. CASE f[1] = x
      <4>1. \A d \in EnvIds \ {target[x]} : d[1] = x => phase'[d] = phase[d]
        BY <1>0, <2>4, <2>5, <3>1
      <4> QED BY <2>4, <2>5, <3>1, <4>1, GrantKeeps
    <3>2. CASE f[1] # x
      <4>1. \A d \in EnvIds : d[1] = x => phase'[d] = phase[d]
        BY <1>0, <2>5, <3>2
      <4> QED BY <4>1, Frame
    <3> QED BY <3>1, <3>2
  <2> QED BY <2>4, <2>5, <2>6, <2>7
<1> QED BY <1>2, <1>3

-----------------------------------------------------------------------------
(* What an action does to its own episode.                                 *)

\* No environment of x changes, x asks for one or moves on.
LEMMA OwnQuiet ==
  ASSUME IInv, NEW x \in Eps, phase' = phase, step'[x] = step[x],
         pc[x] \notin {"create", "close", "failed"}, pc'[x] # "idle",
         \A r \in Keeps(x) : \/ r \in Keeps(x)'
                            \/ phase[Env(x, r)] \notin {"starting", "live", "ending"},
         Unopened(x)' \subseteq Unopened(x),
         Opened(x)' \subseteq Opened(x), BoundsOK(x)', WaitOK(x)'
  PROVE  EpisodeOK(x)'
<1>0. EpisodeOK(x) /\ TypeOK
  BY DEF IInv
<1>1. \A r : Env(x, r)' = Env(x, r)
  BY DEF Env
<1>2. HoldsOK(x)'
  BY <1>0, <1>1 DEF EpisodeOK, HoldsOK, HeldBy, Pool!Held, Pool!EnvsIn
<1>3. FreshOK(x)'
  BY <1>0 DEF EpisodeOK, FreshOK
<1>4. LiveOK(x)'
  BY <1>0, <1>1 DEF EpisodeOK, LiveOK
<1>5. BetweenOK(x)'
  BY <1>0 DEF EpisodeOK, BetweenOK
<1> QED BY <1>2, <1>3, <1>4, <1>5 DEF EpisodeOK

\* x closes the environment of role r.
LEMMA OwnClose ==
  ASSUME IInv, NEW x \in Eps, step'[x] = step[x], NEW r \in Roles,
         pc[x] \notin {"create", "close", "failed"}, pc'[x] = "close",
         r = Main \/ step[x] <= MaxSteps,
         phase[Env(x, r)] = "live", target'[x] = Env(x, r),
         phase' = [phase EXCEPT ![Env(x, r)] = "ending"],
         Keeps(x) \subseteq Keeps(x)' \cup {r},
         Unopened(x)' \subseteq Unopened(x),
         Opened(x)' \subseteq Opened(x) \ {r}, BoundsOK(x)', WaitOK(x)'
  PROVE  EpisodeOK(x)'
<1>0. EpisodeOK(x) /\ TypeOK /\ step[x] \in Nat
  BY DEF IInv, TypeOK
<1>1. \A s : Env(x, s)' = Env(x, s)
  BY DEF Env
<1>2. Env(x, r) \in EnvIds /\ Env(x, r)[1] = x
  BY <1>0, EnvName
<1>3. /\ phase'[Env(x, r)] = "ending"
      /\ \A d \in EnvIds \ {Env(x, r)} : phase'[d] = phase[d]
  BY <1>0, <1>2 DEF TypeOK
<1>4. HoldsOK(x)'
  <2>1. HeldBy(x)' = HeldBy(x)
    BY <1>2, <1>3 DEF HeldBy, Pool!Held, Pool!EnvsIn
  <2> QED BY <1>0, <1>1, <2>1 DEF EpisodeOK, HoldsOK
<1>5. FreshOK(x)'
  <2>1. ASSUME NEW q \in Roles \ {Main}, NEW k \in 0 .. MaxSteps,
               k > step[x] \/ (k = step[x] /\ q \in Unopened(x))
        PROVE  phase'[<<x, q, k>>] = "none"
    <3>1. <<x, q, k>> \in EnvIds /\ phase[<<x, q, k>>] = "none"
      BY <1>0, <2>1 DEF EpisodeOK, FreshOK, EnvIds
    <3> QED BY <1>3, <3>1
  <2> QED BY <2>1 DEF FreshOK
<1>6. LiveOK(x)'
  <2>1. ASSUME NEW i \in Opened(x)' PROVE phase'[Env(x, i)] = "live"
    <3>1. i \in Opened(x) /\ i # r
      OBVIOUS
    <3>2. i \in Traj /\ step[x] <= MaxSteps
      BY <1>0, <3>1, OpenedAre DEF EpisodeOK
    <3>3. Env(x, i) \in EnvIds /\ Env(x, i)[2] = i /\ Env(x, r)[2] = r
      BY <1>0, <3>2, EnvName, RolesAre
    <3>4. phase[Env(x, i)] = "live"
      BY <1>0, <3>1 DEF EpisodeOK, LiveOK
    <3> QED BY <1>3, <3>1, <3>3, <3>4
  <2> QED BY <1>1, <2>1 DEF LiveOK
<1>7. BetweenOK(x)'
  <2>1. \A e \in EnvIds : e[1] = x => phase[e] \notin {"starting", "ending"}
    BY <1>0 DEF EpisodeOK, BetweenOK
  <2> QED BY <1>3, <2>1 DEF BetweenOK
<1> QED BY <1>4, <1>5, <1>6, <1>7 DEF EpisodeOK

\* The environment x waits for becomes live or is gone, and x moves on.
LEMMA OwnAnswer ==
  ASSUME IInv, NEW x \in Eps, step'[x] = step[x], target'[x] = target[x],
         pc[x] \in {"create", "close", "failed"},
         pc'[x] \notin {"create", "close", "idle"},
         phase[target[x]] \in {"starting", "ending"},
         phase'[target[x]] \in {"live", "gone"},
         pc[x] = "close" => phase'[target[x]] = "gone",
         \A d \in EnvIds \ {target[x]} : d[1] = x => phase'[d] = phase[d],
         pc'[x] # "failed" => Keeps(x) \subseteq Keeps(x)',
         Unopened(x)' \subseteq Unopened(x),
         \A i \in Opened(x)' : i \in Opened(x)
            \/ (Env(x, i) = target[x] /\ phase'[target[x]] = "live"),
         pc[x] = "failed" => pc'[x] = "failed",
         BoundsOK(x)', WaitOK(x)'
  PROVE  EpisodeOK(x)'
<1>0. EpisodeOK(x) /\ TypeOK /\ step[x] \in Nat /\ target[x] \in EnvIds
      /\ target[x][1] = x
  BY DEF IInv, TypeOK, EpisodeOK, WaitOK
<1>1. \A s : Env(x, s)' = Env(x, s)
  BY DEF Env
<1>2. HoldsOK(x)'
  <2>1. SUFFICES ASSUME pc'[x] # "failed", NEW e \in HeldBy(x)'
                 PROVE  \E r \in Keeps(x) : e = Env(x, r)
    BY <1>1 DEF HoldsOK
  <2>2. e \in EnvIds /\ e[1] = x /\ phase'[e] \in {"starting", "live", "ending"}
    BY <2>1 DEF HeldBy, Pool!Held, Pool!EnvsIn
  <2>3. e \in HeldBy(x)
    BY <1>0, <2>2 DEF HeldBy, Pool!Held, Pool!EnvsIn
  <2>4. pc[x] = "close" => e # target[x]
    BY <2>2
  <2> QED BY <1>0, <2>1, <2>3, <2>4 DEF EpisodeOK, HoldsOK
<1>3. FreshOK(x)'
  <2>1. ASSUME NEW q \in Roles \ {Main}, NEW k \in 0 .. MaxSteps,
               k > step[x] \/ (k = step[x] /\ q \in Unopened(x))
        PROVE  phase'[<<x, q, k>>] = "none"
    <3>1. <<x, q, k>> \in EnvIds /\ phase[<<x, q, k>>] = "none"
      BY <1>0, <2>1 DEF EpisodeOK, FreshOK, EnvIds
    <3> QED BY <3>1
  <2> QED BY <2>1 DEF FreshOK
<1>4. LiveOK(x)'
  <2>1. ASSUME NEW i \in Opened(x)', i \in Opened(x)
        PROVE  phase'[Env(x, i)] = "live"
    <3>1. i \in Traj /\ step[x] <= MaxSteps
      BY <1>0, <2>1, OpenedAre DEF EpisodeOK
    <3>2. Env(x, i) \in EnvIds /\ Env(x, i)[1] = x
      BY <1>0, <3>1, EnvName, RolesAre
    <3>3. phase[Env(x, i)] = "live"
      BY <1>0, <2>1 DEF EpisodeOK, LiveOK
    <3> QED BY <3>2, <3>3
  <2> QED BY <1>1, <2>1 DEF LiveOK
<1>5. BetweenOK(x)'
  <2>1. ASSUME NEW e \in EnvIds, e[1] = x
        PROVE  phase'[e] \notin {"starting", "ending"}
    <3>1. CASE e = target[x]
      BY <3>1
    <3>2. CASE e # target[x]
      BY <1>0, <2>1, <3>2 DEF EpisodeOK, BetweenOK
    <3> QED BY <3>1, <3>2
  <2> QED BY <2>1 DEF BetweenOK
<1> QED BY <1>2, <1>3, <1>4, <1>5 DEF EpisodeOK

-----------------------------------------------------------------------------
(* The three kinds of step an episode takes when it waits for nothing: it  *)
(* goes on, it sends a create, it sends a close.                           *)

LEMMA QuietStep ==
  ASSUME IInv, NEW ep \in Eps, NEW st \in PCs \ {"idle", "create", "close"},
         pc[ep] \notin {"idle", "create", "close", "failed"},
         Goto(ep, st), UNCHANGED <<step, failures>>,
         \A x \in Eps \ {ep} : /\ n'[x] = n[x] /\ turn'[x] = turn[x]
                               /\ cursor'[x] = cursor[x] /\ ended'[x] = ended[x],
         n' \in [Eps -> 0 .. MaxTraj], turn' \in [Eps -> 1 .. MaxHorizon + 1],
         cursor' \in [Eps -> 1 .. MaxTraj + 1], ended' \in [Eps -> SUBSET Traj],
         \A r \in Keeps(ep) : \/ r \in Keeps(ep)'
                             \/ phase[Env(ep, r)] \notin {"starting", "live", "ending"},
         Unopened(ep)' \subseteq Unopened(ep),
         Opened(ep)' \subseteq Opened(ep), BoundsOK(ep)'
  PROVE  IInv'
<1>0. TypeOK /\ EpisodeOK(ep)
  BY DEF IInv
<1>1. /\ pc' = [pc EXCEPT ![ep] = st] /\ phase' = phase /\ line' = line
      /\ target' = target /\ after' = after /\ step' = step /\ failures' = failures
  BY DEF Goto
<1>2. pc'[ep] = st /\ pc' \in [Eps -> PCs] /\ \A x \in Eps \ {ep} : pc'[x] = pc[x]
  BY <1>0, <1>1 DEF TypeOK
<1>3. TypeOK'
  BY <1>0, <1>1, <1>2 DEF TypeOK
<1>4. \A x \in Eps \ {ep} : Still(x)
  BY <1>1, <1>2 DEF Still
<1>5. LineOK'
  BY <1>1, <1>4, LineStays
<1>6. WaitOK(ep)'
  BY <1>0, <1>1, <1>2 DEF EpisodeOK, WaitOK
<1>7. EpisodeOK(ep)'
  BY <1>1, <1>2, <1>6, OwnQuiet
<1>8. \A x \in Eps \ {ep} : EpisodeOK(x)'
  BY <1>1, <1>4, OthersKeep
<1> QED BY <1>3, <1>5, <1>7, <1>8 DEF IInv

LEMMA AskStep ==
  ASSUME IInv, NEW ep \in Eps, NEW r \in Roles, NEW st \in {"round", "peek", "group"},
         pc[ep] \notin {"create", "close", "failed"},
         Ask(ep, r, st), UNCHANGED <<step, n, turn, ended, failures>>,
         r = Main \/ step[ep] <= MaxSteps, phase[Env(ep, r)] = "none",
         cursor' \in [Eps -> 1 .. MaxTraj + 1],
         \A x \in Eps \ {ep} : cursor'[x] = cursor[x],
         r = IF st = "round" THEN Main ELSE IF st = "peek" THEN Sim ELSE cursor'[ep] - 1,
         st = "group" => cursor'[ep] \in 2 .. n[ep] + 1,
         Keeps(ep) \subseteq Keeps(ep)', Unopened(ep)' \subseteq Unopened(ep),
         Opened(ep)' \subseteq Opened(ep), BoundsOK(ep)'
  PROVE  IInv'
<1>0. TypeOK /\ EpisodeOK(ep) /\ step[ep] \in Nat
  BY DEF IInv, TypeOK
<1>1. /\ pc' = [pc EXCEPT ![ep] = "create"] /\ phase' = phase
      /\ line' = Append(line, Env(ep, r)) /\ target' = [target EXCEPT ![ep] = Env(ep, r)]
      /\ after' = [after EXCEPT ![ep] = st]
      /\ step' = step /\ n' = n /\ turn' = turn /\ ended' = ended /\ failures' = failures
  BY DEF Ask
<1>2. /\ Env(ep, r) \in EnvIds /\ Env(ep, r)[1] = ep /\ Env(ep, r)[3] <= step[ep]
      /\ Env(ep, r)' = Env(ep, r)
  <2>1. Env(ep, r)' = Env(ep, r)
    BY <1>1 DEF Env
  <2>2. Env(ep, r) \in EnvIds /\ Env(ep, r)[1] = ep
    BY <1>0, EnvName
  <2>3. Env(ep, r)[3] <= step[ep]
    BY <1>0 DEF Env
  <2> QED BY <2>1, <2>2, <2>3
<1>3. /\ pc'[ep] = "create" /\ target'[ep] = Env(ep, r) /\ after'[ep] = st
      /\ pc' \in [Eps -> PCs] /\ target' \in [Eps -> EnvIds] /\ after' \in [Eps -> PCs]
      /\ \A x \in Eps \ {ep} : pc'[x] = pc[x] /\ target'[x] = target[x] /\ after'[x] = after[x]
  BY <1>0, <1>1, <1>2 DEF TypeOK, PCs
<1>4. TypeOK'
  <2>1. line' \in Seq(EnvIds)
    BY <1>0, <1>1, <1>2, AppendProperties DEF TypeOK
  <2> QED BY <1>0, <1>1, <1>3, <2>1 DEF TypeOK
<1>5. \A x \in Eps \ {ep} : Still(x)
  BY <1>1, <1>3 DEF Still
<1>6. LineOK'
  BY <1>1, <1>2, <1>3, <1>5, LineGrows
<1>7. WaitOK(ep)'
  <2>1. Awaited(ep)' = r
    BY <1>3 DEF Awaited
  <2> QED BY <1>1, <1>2, <1>3, <2>1 DEF WaitOK
<1>8. EpisodeOK(ep)'
  BY <1>1, <1>3, <1>7, OwnQuiet
<1>9. \A x \in Eps \ {ep} : EpisodeOK(x)'
  BY <1>1, <1>5, OthersKeep
<1> QED BY <1>4, <1>6, <1>8, <1>9 DEF IInv

LEMMA CloseStep ==
  ASSUME IInv, NEW ep \in Eps, NEW r \in Roles,
         NEW st \in {"expand", "turn", "cleanup", "done"},
         pc[ep] \notin {"create", "close", "failed"},
         Close(ep, r, st), UNCHANGED <<step, n, turn, failures>>,
         r = Main \/ step[ep] <= MaxSteps,
         cursor' \in [Eps -> 1 .. MaxTraj + 1], ended' \in [Eps -> SUBSET Traj],
         \A x \in Eps \ {ep} : cursor'[x] = cursor[x] /\ ended'[x] = ended[x],
         r = IF st = "done" THEN Main ELSE IF st = "expand" THEN Sim ELSE cursor'[ep] - 1,
         st \in {"turn", "cleanup"} => cursor'[ep] \in 2 .. n[ep] + 1,
         Keeps(ep) \subseteq Keeps(ep)' \cup {r},
         Unopened(ep)' \subseteq Unopened(ep),
         Opened(ep)' \subseteq Opened(ep) \ {r}, BoundsOK(ep)'
  PROVE  IInv'
<1>0. TypeOK /\ EpisodeOK(ep) /\ step[ep] \in Nat
  BY DEF IInv, TypeOK
<1>1. /\ pc' = [pc EXCEPT ![ep] = "close"] /\ line' = line
      /\ phase[Env(ep, r)] = "live" /\ phase' = [phase EXCEPT ![Env(ep, r)] = "ending"]
      /\ target' = [target EXCEPT ![ep] = Env(ep, r)] /\ after' = [after EXCEPT ![ep] = st]
      /\ step' = step /\ n' = n /\ turn' = turn /\ failures' = failures
  BY DEF Close, Pool!Retire
<1>2. /\ Env(ep, r) \in EnvIds /\ Env(ep, r)[1] = ep /\ Env(ep, r)[3] <= step[ep]
      /\ Env(ep, r)' = Env(ep, r)
  <2>1. Env(ep, r)' = Env(ep, r)
    BY <1>1 DEF Env
  <2>2. Env(ep, r) \in EnvIds /\ Env(ep, r)[1] = ep
    BY <1>0, EnvName
  <2>3. Env(ep, r)[3] <= step[ep]
    BY <1>0 DEF Env
  <2> QED BY <2>1, <2>2, <2>3
<1>3. /\ pc'[ep] = "close" /\ target'[ep] = Env(ep, r) /\ after'[ep] = st
      /\ pc' \in [Eps -> PCs] /\ target' \in [Eps -> EnvIds] /\ after' \in [Eps -> PCs]
      /\ \A x \in Eps \ {ep} : pc'[x] = pc[x] /\ target'[x] = target[x] /\ after'[x] = after[x]
  BY <1>0, <1>1, <1>2 DEF TypeOK, PCs
<1>4. /\ phase' \in [EnvIds -> Pool!Phases]
      /\ \A e \in EnvIds : e[1] # ep => phase'[e] = phase[e]
  BY <1>0, <1>1, <1>2 DEF TypeOK, Pool!Phases
<1>5. TypeOK'
  BY <1>0, <1>1, <1>3, <1>4 DEF TypeOK
<1>6. \A x \in Eps \ {ep} : Still(x)
  BY <1>1, <1>3 DEF Still
<1>7. LineOK'
  BY <1>1, <1>4, <1>6, LineStays
<1>8. WaitOK(ep)'
  <2>1. Awaited(ep)' = r
    BY <1>3 DEF Awaited
  <2> QED BY <1>1, <1>2, <1>3, <2>1 DEF WaitOK
<1>9. EpisodeOK(ep)'
  BY <1>1, <1>3, <1>8, OwnClose
<1>10. \A x \in Eps \ {ep} : EpisodeOK(x)'
  BY <1>4, <1>6, OthersKeep
<1> QED BY <1>5, <1>7, <1>9, <1>10 DEF IInv

-----------------------------------------------------------------------------
(* Each action of an episode.                                              *)

\* What the bounds of the variables are, and what a quiet step of ep knows.
LEMMA Ranges ==
  ASSUME IInv, NEW ep \in Eps
  PROVE  /\ MaxTraj \in Nat \ {0} /\ MaxHorizon \in Nat \ {0} /\ MaxSteps \in Nat
         /\ pc \in [Eps -> PCs] /\ step \in [Eps -> 0 .. MaxSteps + 1]
         /\ n \in [Eps -> 0 .. MaxTraj] /\ turn \in [Eps -> 1 .. MaxHorizon + 1]
         /\ cursor \in [Eps -> 1 .. MaxTraj + 1] /\ ended \in [Eps -> SUBSET Traj]
         /\ step[ep] \in 0 .. MaxSteps + 1 /\ n[ep] \in 0 .. MaxTraj
         /\ turn[ep] \in 1 .. MaxHorizon + 1 /\ cursor[ep] \in 1 .. MaxTraj + 1
         /\ EpisodeOK(ep) /\ BoundsOK(ep)
BY EpisodesAssumption DEF IInv, TypeOK, EpisodeOK

LEMMA StartKeeps ==
  ASSUME IInv, NEW ep \in Eps, Start(ep)  PROVE  IInv'
<1>1. /\ pc[ep] = "idle" /\ Ask(ep, Main, "round")
      /\ UNCHANGED <<step, n, turn, cursor, ended, failures>>
  BY DEF Start, planVars
<1>2. pc'[ep] = "create" /\ after'[ep] = "round"
  BY <1>1 DEF Ask, IInv, TypeOK
<1>3. Stage(ep) = "idle" /\ Stage(ep)' = "round"
  BY <1>1, <1>2 DEF Stage
<1>4. phase[Env(ep, Main)] = "none"
  BY <1>1, Ranges DEF EpisodeOK, FreshOK, Env
<1>5. /\ Keeps(ep) \subseteq Keeps(ep)' /\ Unopened(ep)' \subseteq Unopened(ep)
      /\ Opened(ep)' \subseteq Opened(ep)
  BY <1>3 DEF Keeps, Unopened, Opened
<1>6. BoundsOK(ep)'
  BY <1>1, <1>3, Ranges DEF BoundsOK
<1> QED BY <1>1, <1>4, <1>5, <1>6, AskStep, RolesAre, Ranges

LEMMA OpenSimulatorKeeps ==
  ASSUME IInv, NEW ep \in Eps, OpenSimulator(ep)  PROVE  IInv'
<1>1. /\ pc[ep] = "round" /\ Ask(ep, Sim, "peek")
      /\ UNCHANGED <<step, n, turn, cursor, ended, failures>>
  BY DEF OpenSimulator, planVars
<1>2. pc'[ep] = "create" /\ after'[ep] = "peek"
  BY <1>1 DEF Ask, IInv, TypeOK
<1>3. Stage(ep) = "round" /\ Stage(ep)' = "peek"
  BY <1>1, <1>2 DEF Stage
<1>4. step[ep] <= MaxSteps
  BY <1>3, Ranges DEF BoundsOK
<1>5. phase[Env(ep, Sim)] = "none"
  <2>1. Sim \in Unopened(ep) /\ Sim \in Roles \ {Main} /\ step[ep] \in 0 .. MaxSteps
    BY <1>3, <1>4, Ranges, RolesAre DEF Unopened
  <2> QED BY <2>1, Ranges DEF EpisodeOK, FreshOK, Env
<1>6. /\ Keeps(ep) \subseteq Keeps(ep)' /\ Unopened(ep)' \subseteq Unopened(ep)
      /\ Opened(ep)' \subseteq Opened(ep)
  BY <1>3, RolesAre DEF Keeps, Unopened, Opened
<1>7. BoundsOK(ep)'
  BY <1>1, <1>3, <1>4, Ranges DEF BoundsOK
<1> QED BY <1>1, <1>4, <1>5, <1>6, <1>7, AskStep, RolesAre, Ranges

LEMMA CloseSimulatorKeeps ==
  ASSUME IInv, NEW ep \in Eps, CloseSimulator(ep)  PROVE  IInv'
<1>1. /\ pc[ep] = "peek" /\ Close(ep, Sim, "expand")
      /\ UNCHANGED <<step, n, turn, cursor, ended, failures>>
  BY DEF CloseSimulator, planVars
<1>2. pc'[ep] = "close" /\ after'[ep] = "expand"
  BY <1>1 DEF Close, IInv, TypeOK
<1>3. Stage(ep) = "peek" /\ Stage(ep)' = "expand"
  BY <1>1, <1>2 DEF Stage
<1>4. step[ep] <= MaxSteps
  BY <1>3, Ranges DEF BoundsOK
<1>5. /\ Keeps(ep) \subseteq Keeps(ep)' \cup {Sim} /\ Unopened(ep)' \subseteq Unopened(ep)
      /\ Opened(ep)' \subseteq Opened(ep) \ {Sim}
  BY <1>3 DEF Keeps, Unopened, Opened
<1>6. BoundsOK(ep)'
  BY <1>1, <1>3, <1>4 DEF BoundsOK
<1> QED BY <1>1, <1>4, <1>5, <1>6, CloseStep, RolesAre, Ranges

LEMMA ExpandKeeps ==
  ASSUME IInv, NEW ep \in Eps, Expand(ep)  PROVE  IInv'
<1>1. PICK k \in 0 .. MaxTraj :
        /\ pc[ep] = "expand" /\ n' = [n EXCEPT ![ep] = k]
        /\ cursor' = [cursor EXCEPT ![ep] = 1] /\ turn' = [turn EXCEPT ![ep] = 1]
        /\ ended' = [ended EXCEPT ![ep] = {}]
        /\ Goto(ep, IF n'[ep] = 0 THEN "cleanup" ELSE "group")
        /\ UNCHANGED <<step, failures>>
  BY DEF Expand
<1>2. /\ n'[ep] = k /\ cursor'[ep] = 1 /\ turn'[ep] = 1 /\ ended'[ep] = {}
      /\ n' \in [Eps -> 0 .. MaxTraj] /\ turn' \in [Eps -> 1 .. MaxHorizon + 1]
      /\ cursor' \in [Eps -> 1 .. MaxTraj + 1] /\ ended' \in [Eps -> SUBSET Traj]
      /\ \A x \in Eps \ {ep} : /\ n'[x] = n[x] /\ turn'[x] = turn[x]
                               /\ cursor'[x] = cursor[x] /\ ended'[x] = ended[x]
  BY <1>1, Ranges
<1> DEFINE st == IF k = 0 THEN "cleanup" ELSE "group"
<1>3. Goto(ep, st) /\ st \in {"cleanup", "group"}
  BY <1>1, <1>2
<1>4. pc'[ep] = st
  BY <1>3, Ranges DEF Goto
<1>5. Stage(ep) = "expand" /\ Stage(ep)' = st
  BY <1>1, <1>3, <1>4 DEF Stage
<1> HIDE DEF st
<1>6. /\ Keeps(ep) \subseteq Keeps(ep)' /\ Unopened(ep)' \subseteq Unopened(ep)
      /\ Opened(ep)' \subseteq Opened(ep)
  <2>1. Keeps(ep) = {Main} /\ Unopened(ep) = Traj
    BY <1>5 DEF Keeps, Unopened
  <2>2. {Main} \subseteq Keeps(ep)'
    BY <1>2, <1>3, <1>5 DEF Keeps, Main
  <2>3. Unopened(ep)' \subseteq Traj
    BY <1>2, <1>3, <1>5 DEF Unopened, Traj
  <2>4. Opened(ep)' = {}
    BY <1>2, <1>3, <1>4, <1>5, Ranges DEF Opened
  <2> QED BY <2>1, <2>2, <2>3, <2>4
<1>7. BoundsOK(ep)'
  BY <1>1, <1>2, <1>3, <1>5, Ranges DEF BoundsOK
<1>8. st \in PCs \ {"idle", "create", "close"}
  BY <1>3 DEF PCs
<1> QED BY <1>1, <1>2, <1>3, <1>6, <1>7, <1>8, QuietStep

LEMMA OpenGroupKeeps ==
  ASSUME IInv, NEW ep \in Eps, OpenGroup(ep)  PROVE  IInv'
<1>1. /\ pc[ep] = "group" /\ cursor[ep] <= n[ep]
      /\ cursor' = [cursor EXCEPT ![ep] = cursor[ep] + 1]
      /\ Ask(ep, cursor[ep], "group")
      /\ UNCHANGED <<step, n, turn, ended, failures>>
  BY DEF OpenGroup
<1>2. pc'[ep] = "create" /\ after'[ep] = "group"
  BY <1>1 DEF Ask, IInv, TypeOK
<1>3. Stage(ep) = "group" /\ Stage(ep)' = "group"
  BY <1>1, <1>2 DEF Stage
<1>4. /\ step[ep] <= MaxSteps /\ cursor[ep] \in Traj /\ cursor[ep] \in 1 .. n[ep]
      /\ cursor'[ep] = cursor[ep] + 1 /\ cursor' \in [Eps -> 1 .. MaxTraj + 1]
      /\ \A x \in Eps \ {ep} : cursor'[x] = cursor[x]
  BY <1>1, <1>3, Ranges DEF BoundsOK, Traj
<1>5. phase[Env(ep, cursor[ep])] = "none"
  <2>1. /\ cursor[ep] \in Unopened(ep) /\ cursor[ep] \in Roles \ {Main}
        /\ step[ep] \in 0 .. MaxSteps
    BY <1>3, <1>4, Ranges, RolesAre DEF Unopened
  <2> QED BY <2>1, Ranges DEF EpisodeOK, FreshOK, Env, Main
<1>6. /\ Keeps(ep) \subseteq Keeps(ep)' /\ Unopened(ep)' \subseteq Unopened(ep)
      /\ Opened(ep)' \subseteq Opened(ep)
  <2>1. Keeps(ep) \subseteq Keeps(ep)'
    BY <1>3, <1>4, Ranges DEF Keeps
  <2>2. Unopened(ep)' \subseteq Unopened(ep)
    BY <1>3, <1>4, Ranges DEF Unopened
  <2>3. Opened(ep)' \subseteq Opened(ep)
    BY <1>1, <1>2, <1>3, <1>4, Ranges DEF Opened
  <2> QED BY <2>1, <2>2, <2>3
<1>7. BoundsOK(ep)'
  BY <1>1, <1>3, <1>4, Ranges DEF BoundsOK
<1>8. /\ cursor[ep] = cursor'[ep] - 1 /\ cursor'[ep] \in 2 .. n[ep] + 1
      /\ cursor[ep] \in Roles
  BY <1>4, Ranges, RolesAre
<1> QED BY <1>1, <1>4, <1>5, <1>6, <1>7, <1>8, AskStep

LEMMA GroupOpenKeeps ==
  ASSUME IInv, NEW ep \in Eps, GroupOpen(ep)  PROVE  IInv'
<1>1. /\ pc[ep] = "group" /\ cursor[ep] > n[ep]
      /\ cursor' = [cursor EXCEPT ![ep] = 1] /\ Goto(ep, "turn")
      /\ UNCHANGED <<step, n, turn, ended, failures>>
  BY DEF GroupOpen
<1>2. pc'[ep] = "turn"
  BY <1>1, Ranges DEF Goto
<1>3. Stage(ep) = "group" /\ Stage(ep)' = "turn"
  BY <1>1, <1>2 DEF Stage
<1>4. /\ step[ep] <= MaxSteps /\ cursor[ep] = n[ep] + 1
      /\ cursor' \in [Eps -> 1 .. MaxTraj + 1]
      /\ \A x \in Eps \ {ep} : cursor'[x] = cursor[x]
  BY <1>1, <1>3, Ranges DEF BoundsOK
<1>5. /\ Keeps(ep) \subseteq Keeps(ep)' /\ Unopened(ep)' \subseteq Unopened(ep)
      /\ Opened(ep)' \subseteq Opened(ep)
  <2>1. Keeps(ep) \subseteq Keeps(ep)'
    BY <1>1, <1>3, <1>4, Ranges DEF Keeps
  <2>2. Unopened(ep)' \subseteq Unopened(ep)
    BY <1>3 DEF Unopened
  <2>3. Opened(ep)' \subseteq Opened(ep)
    BY <1>1, <1>2, <1>3, <1>4, Ranges DEF Opened
  <2> QED BY <2>1, <2>2, <2>3
<1>6. BoundsOK(ep)'
  BY <1>1, <1>3, <1>4, Ranges DEF BoundsOK
<1> QED BY <1>1, <1>4, <1>5, <1>6, QuietStep, Ranges DEF PCs

LEMMA SimulateKeeps ==
  ASSUME IInv, NEW ep \in Eps, Simulate(ep)  PROVE  IInv'
<1>1. /\ pc[ep] = "turn" /\ cursor[ep] <= n[ep] /\ cursor[ep] \notin ended[ep]
      /\ cursor' = [cursor EXCEPT ![ep] = cursor[ep] + 1]
      /\ UNCHANGED <<step, n, turn, failures>>
  BY DEF Simulate
<1>2. /\ Stage(ep) = "turn" /\ step[ep] <= MaxSteps /\ turn[ep] <= MaxHorizon
  BY <1>1, Ranges DEF Stage, BoundsOK
<1>3. /\ cursor[ep] \in Traj /\ cursor[ep] \in 1 .. n[ep] /\ cursor[ep] \in Roles
      /\ cursor'[ep] = cursor[ep] + 1 /\ cursor' \in [Eps -> 1 .. MaxTraj + 1]
      /\ \A x \in Eps \ {ep} : cursor'[x] = cursor[x]
  BY <1>1, Ranges, RolesAre DEF Traj
<1>4. CASE /\ ended' = [ended EXCEPT ![ep] = ended[ep] \cup {cursor[ep]}]
           /\ Close(ep, cursor[ep], "turn")
  <2>1. pc'[ep] = "close" /\ after'[ep] = "turn"
    BY <1>4 DEF Close, IInv, TypeOK
  <2>2. Stage(ep)' = "turn"
    BY <2>1 DEF Stage
  <2>3. /\ ended'[ep] = ended[ep] \cup {cursor[ep]} /\ ended' \in [Eps -> SUBSET Traj]
        /\ \A x \in Eps \ {ep} : ended'[x] = ended[x]
    BY <1>3, <1>4, Ranges
  <2>4. /\ Keeps(ep) \subseteq Keeps(ep)' \cup {cursor[ep]}
        /\ Unopened(ep)' \subseteq Unopened(ep)
        /\ Opened(ep)' \subseteq Opened(ep) \ {cursor[ep]}
    BY <1>1, <1>2, <2>2, <2>3 DEF Keeps, Unopened, Opened
  <2>5. BoundsOK(ep)'
    BY <1>1, <1>2, <2>2 DEF BoundsOK
  <2>6. cursor[ep] = cursor'[ep] - 1 /\ cursor'[ep] \in 2 .. n[ep] + 1
    BY <1>3, Ranges
  <2> QED BY <1>1, <1>2, <1>3, <1>4, <2>3, <2>4, <2>5, <2>6, CloseStep
<1>5. CASE turn[ep] < MaxHorizon /\ Goto(ep, "turn") /\ UNCHANGED ended
  <2>1. pc'[ep] = "turn"
    BY <1>5, Ranges DEF Goto
  <2>2. Stage(ep)' = "turn"
    BY <2>1 DEF Stage
  <2>3. /\ Keeps(ep) \subseteq Keeps(ep)' /\ Unopened(ep)' \subseteq Unopened(ep)
        /\ Opened(ep)' \subseteq Opened(ep)
    BY <1>1, <1>2, <1>5, <2>2 DEF Keeps, Unopened, Opened
  <2>4. BoundsOK(ep)'
    BY <1>1, <1>2, <2>2 DEF BoundsOK
  <2> QED BY <1>1, <1>3, <1>5, <2>3, <2>4, QuietStep, Ranges DEF PCs
<1> QED BY <1>4, <1>5 DEF Simulate

LEMMA NoMoveKeeps ==
  ASSUME IInv, NEW ep \in Eps, NoMove(ep)  PROVE  IInv'
<1>1. /\ pc[ep] = "turn" /\ cursor[ep] <= n[ep]
      /\ cursor' = [cursor EXCEPT ![ep] = cursor[ep] + 1]
      /\ ended' = [ended EXCEPT ![ep] = ended[ep] \cup {cursor[ep]}]
      /\ Goto(ep, "turn") /\ UNCHANGED <<step, n, turn, failures>>
  BY DEF NoMove
<1>2. pc'[ep] = "turn" /\ Stage(ep) = "turn" /\ Stage(ep)' = "turn"
  BY <1>1, Ranges DEF Goto, Stage
<1>3. cursor' \in [Eps -> 1 .. MaxTraj + 1] /\ \A x \in Eps \ {ep} : cursor'[x] = cursor[x]
  BY <1>1, Ranges
<1>4. /\ ended'[ep] = ended[ep] \cup {cursor[ep]} /\ ended' \in [Eps -> SUBSET Traj]
      /\ \A x \in Eps \ {ep} : ended'[x] = ended[x]
  <2>1. cursor[ep] \in Traj
    BY <1>1, Ranges DEF Traj
  <2> QED BY <1>1, <2>1, Ranges
<1>5. /\ Keeps(ep) \subseteq Keeps(ep)' /\ Unopened(ep)' \subseteq Unopened(ep)
      /\ Opened(ep)' \subseteq Opened(ep)
  BY <1>1, <1>2, <1>4 DEF Keeps, Unopened, Opened
<1>6. BoundsOK(ep)'
  BY <1>1, <1>2, Ranges DEF BoundsOK
<1> QED BY <1>1, <1>3, <1>4, <1>5, <1>6, QuietStep, Ranges DEF PCs

LEMMA SkipEndedKeeps ==
  ASSUME IInv, NEW ep \in Eps, SkipEnded(ep)  PROVE  IInv'
<1>1. /\ pc[ep] = "turn" /\ cursor[ep] <= n[ep]
      /\ cursor' = [cursor EXCEPT ![ep] = cursor[ep] + 1]
      /\ Goto(ep, "turn") /\ UNCHANGED <<step, n, turn, ended, failures>>
  BY DEF SkipEnded
<1>2. pc'[ep] = "turn" /\ Stage(ep) = "turn" /\ Stage(ep)' = "turn"
  BY <1>1, Ranges DEF Goto, Stage
<1>3. cursor' \in [Eps -> 1 .. MaxTraj + 1] /\ \A x \in Eps \ {ep} : cursor'[x] = cursor[x]
  BY <1>1, Ranges
<1>4. /\ Keeps(ep) \subseteq Keeps(ep)' /\ Unopened(ep)' \subseteq Unopened(ep)
      /\ Opened(ep)' \subseteq Opened(ep)
  BY <1>1, <1>2 DEF Keeps, Unopened, Opened
<1>5. BoundsOK(ep)'
  BY <1>1, <1>2, Ranges DEF BoundsOK
<1> QED BY <1>1, <1>3, <1>4, <1>5, QuietStep, Ranges DEF PCs

LEMMA EndTurnKeeps ==
  ASSUME IInv, NEW ep \in Eps, EndTurn(ep)  PROVE  IInv'
<1> DEFINE st == IF turn'[ep] > MaxHorizon \/ ended[ep] = 1 .. n[ep]
                   THEN "cleanup" ELSE "turn"
<1>1. /\ pc[ep] = "turn"
      /\ cursor' = [cursor EXCEPT ![ep] = 1]
      /\ turn' = [turn EXCEPT ![ep] = turn[ep] + 1]
      /\ Goto(ep, st) /\ UNCHANGED <<step, n, ended, failures>>
  BY DEF EndTurn
<1>2. st \in {"cleanup", "turn"} /\ (st = "turn" => turn'[ep] <= MaxHorizon)
  BY <1>1, Ranges
<1> HIDE DEF st
<1>3. pc'[ep] = st /\ Stage(ep) = "turn" /\ Stage(ep)' = st
  BY <1>1, <1>2, Ranges DEF Goto, Stage
<1>4. /\ cursor'[ep] = 1 /\ cursor' \in [Eps -> 1 .. MaxTraj + 1]
      /\ turn' \in [Eps -> 1 .. MaxHorizon + 1]
      /\ \A x \in Eps \ {ep} : cursor'[x] = cursor[x] /\ turn'[x] = turn[x]
  <2>1. turn[ep] <= MaxHorizon
    BY <1>3, Ranges DEF BoundsOK
  <2> QED BY <1>1, <2>1, Ranges
<1>5. /\ Keeps(ep) \subseteq Keeps(ep)' /\ Unopened(ep)' \subseteq Unopened(ep)
      /\ Opened(ep)' \subseteq Opened(ep)
  <2>1. Keeps(ep) = 0 .. n[ep]
    BY <1>3 DEF Keeps
  <2>2. Keeps(ep)' = 0 .. n[ep]
    <3>1. {0} \cup (1 .. n[ep]) = 0 .. n[ep]
      BY Ranges
    <3>2. CASE st = "cleanup"
      BY <1>1, <1>3, <1>4, <3>1, <3>2 DEF Keeps, Main
    <3>3. CASE st = "turn"
      BY <1>1, <1>3, <3>3 DEF Keeps
    <3> QED BY <1>2, <3>2, <3>3
  <2>3. Unopened(ep)' = {} /\ Opened(ep)' \subseteq Opened(ep)
    BY <1>1, <1>2, <1>3 DEF Unopened, Opened
  <2> QED BY <2>1, <2>2, <2>3
<1>6. BoundsOK(ep)'
  BY <1>1, <1>2, <1>3, <1>4, Ranges DEF BoundsOK
<1>7. st \in PCs \ {"idle", "create", "close"}
  BY <1>2 DEF PCs
<1> QED BY <1>1, <1>4, <1>5, <1>6, <1>7, QuietStep, Ranges

LEMMA CleanedUpKeeps ==
  ASSUME IInv, NEW ep \in Eps, CleanedUp(ep)  PROVE  IInv'
<1>1. /\ pc[ep] = "cleanup" /\ cursor[ep] > n[ep] /\ Goto(ep, "act")
      /\ UNCHANGED <<step, n, turn, cursor, ended, failures>>
  BY DEF CleanedUp, planVars
<1>2. pc'[ep] = "act" /\ Stage(ep) = "cleanup" /\ Stage(ep)' = "act"
  BY <1>1, Ranges DEF Goto, Stage
<1>3. /\ Keeps(ep) \subseteq Keeps(ep)' /\ Unopened(ep)' \subseteq Unopened(ep)
      /\ Opened(ep)' \subseteq Opened(ep)
  <2>1. cursor[ep] .. n[ep] = {}
    BY <1>1, Ranges
  <2> QED BY <1>2, <2>1 DEF Keeps, Unopened, Opened
<1>4. BoundsOK(ep)'
  BY <1>1, <1>2, Ranges DEF BoundsOK
<1> QED BY <1>1, <1>3, <1>4, QuietStep, Ranges DEF PCs

LEMMA NoActionKeeps ==
  ASSUME IInv, NEW ep \in Eps, NoAction(ep)  PROVE  IInv'
<1>1. /\ pc[ep] = "act" /\ Goto(ep, "finish")
      /\ UNCHANGED <<step, n, turn, cursor, ended, failures>>
  BY DEF NoAction, planVars
<1>2. pc'[ep] = "finish" /\ Stage(ep) = "act" /\ Stage(ep)' = "finish"
  BY <1>1, Ranges DEF Goto, Stage
<1>3. /\ Keeps(ep) \subseteq Keeps(ep)' /\ Unopened(ep)' \subseteq Unopened(ep)
      /\ Opened(ep)' \subseteq Opened(ep)
  BY <1>2 DEF Keeps, Unopened, Opened
<1>4. BoundsOK(ep)'
  BY <1>1, <1>2, Ranges DEF BoundsOK
<1> QED BY <1>1, <1>3, <1>4, QuietStep, Ranges DEF PCs

LEMMA FinishKeeps ==
  ASSUME IInv, NEW ep \in Eps, Finish(ep)  PROVE  IInv'
<1>1. /\ pc[ep] = "finish" /\ Close(ep, Main, "done")
      /\ UNCHANGED <<step, n, turn, cursor, ended, failures>>
  BY DEF Finish, planVars
<1>2. pc'[ep] = "close" /\ after'[ep] = "done"
  BY <1>1 DEF Close, IInv, TypeOK
<1>3. Stage(ep) = "finish" /\ Stage(ep)' = "done"
  BY <1>1, <1>2 DEF Stage
<1>4. /\ Keeps(ep) \subseteq Keeps(ep)' \cup {Main} /\ Unopened(ep)' \subseteq Unopened(ep)
      /\ Opened(ep)' \subseteq Opened(ep) \ {Main}
  BY <1>3 DEF Keeps, Unopened, Opened
<1>5. BoundsOK(ep)'
  BY <1>1, <1>3 DEF BoundsOK
<1> QED BY <1>1, <1>4, <1>5, CloseStep, RolesAre, Ranges

\* The environment CleanUp leaves alone holds no slot: it is not live, and
\* an episode that waits for nothing has none between two lives.
LEMMA CleanUpKeeps ==
  ASSUME IInv, NEW ep \in Eps, CleanUp(ep)  PROVE  IInv'
<1>1. /\ pc[ep] = "cleanup" /\ cursor[ep] <= n[ep]
      /\ cursor' = [cursor EXCEPT ![ep] = cursor[ep] + 1]
      /\ UNCHANGED <<step, n, turn, ended, failures>>
  BY DEF CleanUp
<1>2. Stage(ep) = "cleanup" /\ step[ep] <= MaxSteps
  BY <1>1, Ranges DEF Stage, BoundsOK
<1>3. /\ cursor[ep] \in 1 .. n[ep] /\ cursor[ep] \in Roles
      /\ cursor'[ep] = cursor[ep] + 1 /\ cursor' \in [Eps -> 1 .. MaxTraj + 1]
      /\ \A x \in Eps \ {ep} : cursor'[x] = cursor[x]
  BY <1>1, Ranges, RolesAre DEF Traj, Roles
<1>4. ASSUME Stage(ep)' = "cleanup"
      PROVE  /\ Keeps(ep) \subseteq Keeps(ep)' \cup {cursor[ep]}
             /\ Unopened(ep)' \subseteq Unopened(ep)
             /\ Opened(ep)' \subseteq Opened(ep) \ {cursor[ep]} /\ BoundsOK(ep)'
  <2>1. cursor[ep] .. n[ep] \subseteq (cursor'[ep] .. n[ep]) \cup {cursor[ep]}
    BY <1>3, Ranges
  <2>2. Keeps(ep) \subseteq Keeps(ep)' \cup {cursor[ep]}
    BY <1>1, <1>2, <1>4, <2>1 DEF Keeps
  <2>3. Unopened(ep)' \subseteq Unopened(ep) /\ Opened(ep)' \subseteq Opened(ep) \ {cursor[ep]}
    BY <1>2, <1>4 DEF Unopened, Opened
  <2>4. BoundsOK(ep)'
    BY <1>1, <1>2, <1>3, <1>4, Ranges DEF BoundsOK
  <2> QED BY <2>2, <2>3, <2>4
<1>5. CASE Close(ep, cursor[ep], "cleanup")
  <2>1. Stage(ep)' = "cleanup"
    BY <1>5, Ranges DEF Close, Stage, IInv, TypeOK
  <2>2. cursor[ep] = cursor'[ep] - 1 /\ cursor'[ep] \in 2 .. n[ep] + 1
    BY <1>3, Ranges
  <2> QED BY <1>1, <1>2, <1>3, <1>4, <1>5, <2>1, <2>2, CloseStep, Ranges
<1>6. CASE phase[Env(ep, cursor[ep])] # "live" /\ Goto(ep, "cleanup")
  <2>1. Stage(ep)' = "cleanup"
    BY <1>6, Ranges DEF Goto, Stage
  <2>2. Env(ep, cursor[ep]) \in EnvIds /\ Env(ep, cursor[ep])[1] = ep
    BY <1>2, <1>3, EnvName, Ranges
  <2>3. phase[Env(ep, cursor[ep])] \notin {"starting", "live", "ending"}
    BY <1>1, <1>6, <2>2, Ranges DEF EpisodeOK, BetweenOK
  <2>4. Opened(ep)' \subseteq Opened(ep)
    BY <1>4, <2>1
  <2> QED BY <1>1, <1>3, <1>4, <1>6, <2>1, <2>3, <2>4, QuietStep, Ranges DEF PCs
<1> QED BY <1>5, <1>6 DEF CleanUp

LEMMA ActKeeps ==
  ASSUME IInv, NEW ep \in Eps, Act(ep)  PROVE  IInv'
<1>1. PICK st \in {"finish", "round"} :
        /\ pc[ep] = "act" /\ step' = [step EXCEPT ![ep] = step[ep] + 1]
        /\ Goto(ep, st) /\ (st = "round" => step'[ep] <= MaxSteps)
        /\ UNCHANGED <<n, turn, cursor, ended, failures>>
  BY DEF Act
<1>2. /\ pc' = [pc EXCEPT ![ep] = st] /\ phase' = phase /\ line' = line
      /\ target' = target /\ after' = after
  BY <1>1 DEF Goto
<1>3. /\ pc'[ep] = st /\ pc' \in [Eps -> PCs] /\ \A x \in Eps \ {ep} : pc'[x] = pc[x]
      /\ Stage(ep) = "act" /\ Stage(ep)' = st
  BY <1>1, <1>2, Ranges DEF Stage, PCs
<1>4. /\ step[ep] <= MaxSteps /\ step'[ep] = step[ep] + 1
      /\ step' \in [Eps -> 0 .. MaxSteps + 1]
      /\ \A x \in Eps \ {ep} : step'[x] = step[x]
  <2>1. step[ep] <= MaxSteps
    BY <1>3, Ranges DEF BoundsOK
  <2> QED BY <1>1, <2>1, Ranges
<1>5. TypeOK'
  BY <1>1, <1>2, <1>3, <1>4 DEF IInv, TypeOK
<1>6. \A x \in Eps \ {ep} : Still(x)
  BY <1>1, <1>2, <1>3, <1>4 DEF Still
<1>7. LineOK'
  BY <1>1, <1>2, <1>6, LineStays
<1>8. \A x \in Eps \ {ep} : EpisodeOK(x)'
  BY <1>2, <1>6, OthersKeep
<1>9. BoundsOK(ep)'
  BY <1>1, <1>3 DEF BoundsOK
<1>10. WaitOK(ep)'
  <2>1. target[ep] \in EnvIds /\ target[ep][3] \in Nat
    BY EnvParts, EpisodesAssumption DEF IInv, TypeOK
  <2>2. target[ep][3] <= step'[ep]
    BY <1>4, <2>1, Ranges DEF EpisodeOK, WaitOK
  <2> QED BY <1>1, <1>2, <1>3, <2>2, Ranges DEF EpisodeOK, WaitOK
<1>11. HoldsOK(ep)'
  <2>1. Env(ep, Main)' = Env(ep, Main)
    BY DEF Env
  <2>2. Keeps(ep) = {Main} /\ Keeps(ep)' = {Main}
    BY <1>3 DEF Keeps
  <2>3. HeldBy(ep)' = HeldBy(ep)
    BY <1>2 DEF HeldBy, Pool!Held, Pool!EnvsIn
  <2> QED BY <1>1, <2>1, <2>2, <2>3, Ranges DEF EpisodeOK, HoldsOK
<1>12. FreshOK(ep)'
  <2>1. \A k \in 0 .. MaxSteps : k > step'[ep] \/ k = step'[ep] => k > step[ep]
    BY <1>4, Ranges
  <2> QED BY <1>1, <1>2, <1>3, <2>1, Ranges DEF EpisodeOK, FreshOK
<1>13. LiveOK(ep)'
  BY <1>3 DEF LiveOK, Opened
<1>14. BetweenOK(ep)'
  BY <1>1, <1>2, Ranges DEF EpisodeOK, BetweenOK
<1> QED BY <1>5, <1>7, <1>8, <1>9, <1>10, <1>11, <1>12, <1>13, <1>14
        DEF IInv, EpisodeOK

LEMMA CreatedKeeps ==
  ASSUME IInv, NEW ep \in Eps, Created(ep)  PROVE  IInv'
<1>1. /\ pc[ep] = "create" /\ phase[target[ep]] = "starting"
      /\ phase' = [phase EXCEPT ![target[ep]] = "live"]
      /\ pc' = [pc EXCEPT ![ep] = after[ep]] /\ line' = line
      /\ UNCHANGED <<target, after, step, n, turn, cursor, ended, failures>>
  BY DEF Created, Return, Pool!Ready, planVars
<1>2. /\ TypeOK /\ target[ep] \in EnvIds /\ target[ep][1] = ep
      /\ after[ep] \in {"round", "peek", "group"} /\ target[ep] = Env(ep, Awaited(ep))
  BY <1>1, Ranges DEF IInv, TypeOK, EpisodeOK, WaitOK
<1>3. /\ pc'[ep] = after[ep] /\ pc' \in [Eps -> PCs]
      /\ \A x \in Eps \ {ep} : pc'[x] = pc[x]
      /\ Stage(ep) = after[ep] /\ Stage(ep)' = after[ep]
  BY <1>1, <1>2 DEF Stage, TypeOK
<1>4. /\ phase' \in [EnvIds -> Pool!Phases] /\ phase'[target[ep]] = "live"
      /\ \A e \in EnvIds \ {target[ep]} : phase'[e] = phase[e]
  BY <1>1, <1>2 DEF TypeOK, Pool!Phases
<1>5. TypeOK'
  BY <1>1, <1>2, <1>3, <1>4 DEF TypeOK
<1>6. \A x \in Eps \ {ep} : Still(x)
  BY <1>1, <1>3 DEF Still
<1>7. LineOK' /\ \A x \in Eps \ {ep} : EpisodeOK(x)'
  BY <1>1, <1>2, <1>4, <1>6, LineStays, OthersKeep
<1>8. /\ Keeps(ep) \subseteq Keeps(ep)' /\ Unopened(ep)' \subseteq Unopened(ep)
  BY <1>1, <1>3 DEF Keeps, Unopened
<1>9. \A i \in Opened(ep)' : i \in Opened(ep) \/ Env(ep, i) = target[ep]
  <2>1. CASE after[ep] = "group"
    <3>1. Opened(ep)' = 1 .. cursor[ep] - 1 /\ Opened(ep) = 1 .. cursor[ep] - 2
      BY <1>1, <1>3, <2>1 DEF Opened
    <3>2. target[ep] = Env(ep, cursor[ep] - 1)
      BY <1>2, <2>1 DEF Awaited
    <3> QED BY <3>1, <3>2, Ranges
  <2>2. CASE after[ep] # "group"
    BY <1>2, <1>3, <2>2 DEF Opened
  <2> QED BY <2>1, <2>2
<1>10. BoundsOK(ep)'
  BY <1>1, <1>3, Ranges DEF BoundsOK
<1>11. WaitOK(ep)'
  BY <1>1, <1>2, <1>3, Ranges DEF EpisodeOK, WaitOK
<1>12. EpisodeOK(ep)'
  BY <1>1, <1>2, <1>3, <1>4, <1>8, <1>9, <1>10, <1>11, OwnAnswer
<1> QED BY <1>5, <1>7, <1>12 DEF IInv

LEMMA ClosedKeeps ==
  ASSUME IInv, NEW ep \in Eps, Closed(ep)  PROVE  IInv'
<1>1. /\ pc[ep] = "close" /\ phase[target[ep]] = "ending" /\ GiveBack(target[ep])
      /\ pc' = [pc EXCEPT ![ep] = after[ep]]
      /\ UNCHANGED <<target, after, step, n, turn, cursor, ended, failures>>
  BY DEF Closed, Return, planVars
<1>2. TypeOK /\ after[ep] \in {"expand", "turn", "cleanup", "done"}
  BY <1>1, Ranges DEF IInv, EpisodeOK, WaitOK
<1>3. /\ pc'[ep] = after[ep] /\ pc' \in [Eps -> PCs]
      /\ \A x \in Eps \ {ep} : pc'[x] = pc[x]
      /\ Stage(ep) = after[ep] /\ Stage(ep)' = after[ep]
  BY <1>1, <1>2 DEF Stage, TypeOK
<1>4. \A x \in Eps \ {ep} : Still(x)
  BY <1>1, <1>3 DEF Still
<1>5. /\ phase' \in [EnvIds -> Pool!Phases] /\ line' \in Seq(EnvIds)
      /\ phase'[target[ep]] = "gone"
      /\ \A d \in EnvIds \ {target[ep]} : d[1] = ep => phase'[d] = phase[d]
      /\ LineOK' /\ \A x \in Eps \ {ep} : EpisodeOK(x)'
  BY <1>1, <1>4, GiveBackKeeps
<1>6. TypeOK'
  BY <1>1, <1>2, <1>3, <1>5 DEF TypeOK
<1>7. /\ Keeps(ep) \subseteq Keeps(ep)' /\ Unopened(ep)' \subseteq Unopened(ep)
      /\ Opened(ep)' \subseteq Opened(ep)
  BY <1>1, <1>2, <1>3 DEF Keeps, Unopened, Opened
<1>8. BoundsOK(ep)'
  BY <1>1, <1>3, Ranges DEF BoundsOK
<1>9. WaitOK(ep)'
  BY <1>1, <1>2, <1>3, Ranges DEF EpisodeOK, WaitOK
<1>10. EpisodeOK(ep)'
  BY <1>1, <1>2, <1>3, <1>5, <1>7, <1>8, <1>9, OwnAnswer
<1> QED BY <1>5, <1>6, <1>10 DEF IInv

LEMMA RaiseKeeps ==
  ASSUME IInv, NEW ep \in Eps, Raise(ep)  PROVE  IInv'
<1>1. /\ failures < MaxFailures /\ failures' = failures + 1 /\ pc[ep] # "idle"
      /\ pc' = [pc EXCEPT ![ep] = "failed"]
      /\ UNCHANGED <<phase, line, target, after, step, n, turn, cursor, ended>>
  BY DEF Raise, Goto, planVars
<1>2. /\ pc'[ep] = "failed" /\ pc' \in [Eps -> PCs]
      /\ \A x \in Eps \ {ep} : pc'[x] = pc[x] /\ Stage(ep)' = "failed"
  BY <1>1, Ranges DEF Stage, PCs
<1>3. TypeOK'
  BY <1>1, <1>2, EpisodesAssumption DEF IInv, TypeOK
<1>4. \A x \in Eps \ {ep} : Still(x)
  BY <1>1, <1>2 DEF Still
<1>5. LineOK'
  <2>1. LineOK /\ \A i \in 1 .. Len(line) : line[i][1] \in Eps
    <3>1. \A i \in 1 .. Len(line) : line[i] \in EnvIds
      BY DEF IInv, TypeOK
    <3> QED BY <3>1, EnvParts DEF IInv
  <2>2. \A x \in Eps : pc[x] \in {"create", "failed"} => pc'[x] \in {"create", "failed"}
    BY <1>2
  <2> QED BY <1>1, <2>1, <2>2 DEF LineOK
<1>6. \A x \in Eps \ {ep} : EpisodeOK(x)'
  BY <1>1, <1>4, OthersKeep
<1>7. BoundsOK(ep)' /\ WaitOK(ep)' /\ HoldsOK(ep)'
  <2>1. Stage(ep)' = "failed"
    BY <1>2 DEF Stage
  <2> QED BY <1>1, <1>2, <2>1, Ranges DEF EpisodeOK, BoundsOK, WaitOK, HoldsOK
<1>8. FreshOK(ep)' /\ LiveOK(ep)'
  <2>1. Unopened(ep)' = {} /\ Opened(ep)' = {}
    BY <1>2 DEF Unopened, Opened, Stage
  <2> QED BY <1>1, <1>2, <2>1, Ranges DEF EpisodeOK, FreshOK, LiveOK
<1>9. BetweenOK(ep)'
  BY <1>1, <1>2, Ranges DEF EpisodeOK, BetweenOK
<1> QED BY <1>3, <1>5, <1>6, <1>7, <1>8, <1>9 DEF IInv, EpisodeOK

LEMMA CreateFailsKeeps ==
  ASSUME IInv, NEW ep \in Eps, CreateFails(ep)  PROVE  IInv'
<1>1. /\ failures < MaxFailures /\ failures' = failures + 1
      /\ pc[ep] = "create" /\ phase[target[ep]] = "starting" /\ GiveBack(target[ep])
      /\ pc' = [pc EXCEPT ![ep] = "failed"]
      /\ UNCHANGED <<target, after, step, n, turn, cursor, ended>>
  BY DEF CreateFails, planVars
<1>2. /\ pc'[ep] = "failed" /\ pc' \in [Eps -> PCs]
      /\ \A x \in Eps \ {ep} : pc'[x] = pc[x]
  BY <1>1, Ranges DEF PCs
<1>3. \A x \in Eps \ {ep} : Still(x)
  BY <1>1, <1>2 DEF Still
<1>4. /\ phase' \in [EnvIds -> Pool!Phases] /\ line' \in Seq(EnvIds)
      /\ phase'[target[ep]] = "gone"
      /\ \A d \in EnvIds \ {target[ep]} : d[1] = ep => phase'[d] = phase[d]
      /\ LineOK' /\ \A x \in Eps \ {ep} : EpisodeOK(x)'
  BY <1>1, <1>3, GiveBackKeeps
<1>5. TypeOK'
  BY <1>1, <1>2, <1>4, EpisodesAssumption DEF IInv, TypeOK
<1>6. Stage(ep)' = "failed" /\ Unopened(ep)' = {} /\ Opened(ep)' = {}
  BY <1>2 DEF Stage, Unopened, Opened
<1>7. BoundsOK(ep)' /\ WaitOK(ep)'
  BY <1>1, <1>2, <1>6, Ranges DEF EpisodeOK, BoundsOK, WaitOK
<1>8. EpisodeOK(ep)'
  BY <1>1, <1>2, <1>4, <1>6, <1>7, OwnAnswer
<1> QED BY <1>4, <1>5, <1>8 DEF IInv

LEMMA ServeFailedKeeps ==
  ASSUME IInv, NEW ep \in Eps, ServeFailed(ep)  PROVE  IInv'
<1>1. /\ pc[ep] = "failed"
      /\ UNCHANGED <<pc, target, after, step, n, turn, cursor, ended, failures>>
  BY DEF ServeFailed, planVars
<1>2. /\ TypeOK /\ target[ep] \in EnvIds /\ target[ep][1] = ep
  BY Ranges DEF IInv, TypeOK, EpisodeOK, WaitOK
<1>3. \A x \in Eps \ {ep} : Still(x)
  BY <1>1 DEF Still
<1>4. /\ phase[target[ep]] \in {"starting", "ending"}
      /\ phase'[target[ep]] \in {"live", "gone"}
      /\ phase' \in [EnvIds -> Pool!Phases] /\ line' \in Seq(EnvIds)
      /\ \A d \in EnvIds \ {target[ep]} : d[1] = ep => phase'[d] = phase[d]
      /\ LineOK' /\ \A x \in Eps \ {ep} : EpisodeOK(x)'
  <2>1. CASE Pool!Ready(target[ep]) /\ line' = line
    <3>1. /\ phase[target[ep]] = "starting"
          /\ phase' = [phase EXCEPT ![target[ep]] = "live"]
      BY <2>1 DEF Pool!Ready
    <3>2. /\ phase' \in [EnvIds -> Pool!Phases] /\ phase'[target[ep]] = "live"
          /\ \A e \in EnvIds \ {target[ep]} : phase'[e] = phase[e]
      BY <1>2, <3>1 DEF TypeOK, Pool!Phases
    <3>3. \A e \in EnvIds : e[1] # ep => phase'[e] = phase[e]
      BY <1>2, <3>2
    <3> QED BY <1>2, <1>3, <2>1, <3>1, <3>2, <3>3, LineStays, OthersKeep DEF TypeOK
  <2>2. CASE phase[target[ep]] = "ending" /\ GiveBack(target[ep])
    BY <1>3, <2>2, GiveBackKeeps
  <2> QED BY <2>1, <2>2 DEF ServeFailed
<1>5. TypeOK'
  BY <1>1, <1>2, <1>4 DEF TypeOK
<1>6. /\ Stage(ep)' = "failed" /\ Unopened(ep)' = {} /\ Opened(ep)' = {}
  BY <1>1 DEF Stage, Unopened, Opened
<1>7. BoundsOK(ep)' /\ WaitOK(ep)'
  BY <1>1, <1>6, Ranges DEF EpisodeOK, BoundsOK, WaitOK
<1>8. EpisodeOK(ep)'
  BY <1>1, <1>4, <1>6, <1>7, OwnAnswer
<1> QED BY <1>4, <1>5, <1>8 DEF IInv

LEMMA GrantKeepsAll ==
  ASSUME IInv, Grant  PROVE  IInv'
<1>1. /\ line # <<>> /\ line' = Tail(line) /\ phase[Head(line)] = "none"
      /\ phase' = [phase EXCEPT ![Head(line)] = "starting"]
      /\ UNCHANGED <<pc, target, after, step, n, turn, cursor, ended, failures>>
  BY DEF Grant, Pool!Grant, planVars
<1>2. /\ TypeOK /\ LineOK /\ line \in Seq(EnvIds)
  BY DEF IInv, TypeOK
<1>3. 1 \in 1 .. Len(line) /\ Head(line) = line[1] /\ Head(line) \in EnvIds
  BY <1>1, <1>2, HeadTailProperties, EmptySeq
<1>4. PICK f \in EnvIds : f = Head(line)
  BY <1>3
<1>5. /\ f[1] \in Eps /\ phase[f] = "none" /\ target[f[1]] = f
      /\ pc[f[1]] \in {"create", "failed"}
  BY <1>2, <1>3, <1>4, EnvParts DEF LineOK
<1>6. /\ phase' \in [EnvIds -> Pool!Phases] /\ phase'[f] = "starting"
      /\ \A d \in EnvIds \ {f} : phase'[d] = phase[d]
  BY <1>1, <1>2, <1>4 DEF TypeOK, Pool!Phases
<1>7. \A x \in Eps : Still(x)
  BY <1>1 DEF Still
<1>8. line' \in Seq(EnvIds) /\ LineOK'
  <2>1. \A i \in 1 .. Len(line) : line[i] \in EnvIds
    BY <1>2
  <2>2. PICK D \in SUBSET EnvIds : D = {}
    OBVIOUS
  <2>3. PICK S \in SUBSET Eps : S = Eps
    OBVIOUS
  <2>4. \A i \in 1 .. Len(line) : line[i][1] \in S /\ line[i] \notin D
    BY <2>1, <2>2, <2>3, EnvParts
  <2>5. \A d \in EnvIds \ (D \cup {Head(line)}) : phase'[d] = phase[d]
    BY <1>4, <1>6
  <2>6. \A x \in S : Still(x)
    BY <1>7
  <2> QED BY <1>1, <2>4, <2>5, <2>6, LineAdvances
<1>9. TypeOK'
  BY <1>1, <1>2, <1>6, <1>8 DEF TypeOK
<1>10. ASSUME NEW x \in Eps PROVE EpisodeOK(x)'
  <2>1. CASE f[1] = x
    BY <1>5, <1>6, <1>7, <2>1, GrantKeeps
  <2>2. CASE f[1] # x
    BY <1>6, <1>7, <2>2, Frame
  <2> QED BY <2>1, <2>2
<1> QED BY <1>8, <1>9, <1>10 DEF IInv

-----------------------------------------------------------------------------
(* Every step.                                                             *)

LEMMA StepKeeps == IInv /\ [Next]_vars => IInv'
<1> SUFFICES ASSUME IInv, [Next]_vars PROVE IInv'
  OBVIOUS
<1>1. CASE Grant
  BY <1>1, GrantKeepsAll
<1>2. ASSUME NEW ep \in Eps, EpisodeStep(ep) PROVE IInv'
  BY <1>2, StartKeeps, CreatedKeeps, ClosedKeeps, OpenSimulatorKeeps,
     CloseSimulatorKeeps, ExpandKeeps, OpenGroupKeeps, GroupOpenKeeps,
     SimulateKeeps, NoMoveKeeps, SkipEndedKeeps, EndTurnKeeps, CleanUpKeeps,
     CleanedUpKeeps, NoActionKeeps, ActKeeps, FinishKeeps
  DEF EpisodeStep
<1>3. ASSUME NEW ep \in Eps, Failure(ep) PROVE IInv'
  BY <1>3, RaiseKeeps, CreateFailsKeeps, ServeFailedKeeps DEF Failure
<1>4. CASE UNCHANGED vars
  <2>1. /\ \A x \in Eps : Still(x) /\ EpisodeOK(x)'
    BY <1>4, Frame DEF vars, planVars, Still
  <2>2. TypeOK' /\ LineOK'
    BY <1>4 DEF vars, planVars, IInv, TypeOK, LineOK
  <2> QED BY <2>1, <2>2 DEF IInv
<1> QED BY <1>1, <1>2, <1>3, <1>4 DEF Next

-----------------------------------------------------------------------------
(* Episodes and the pool.                                                  *)

\* The slot of an environment is granted to the first in line ...
Starts ==
  /\ line # <<>> /\ line' = Tail(line)
  /\ \/ Pool!Grant(Head(line))
     \/ \E e \in EnvIds : Pool!HandOver(e, Head(line))

\* ... or the environment of an episode moves on in its life.
Serves ==
  \E e \in EnvIds :
    Pool!Ready(e) \/ Pool!Release(e) \/ (Pool!Retire(e) /\ pc[e[1]] # "failed")

\* The line stays or an episode joins it.
Joins ==
  \/ line' = line
  \/ \E ep \in Eps, e \in EnvIds :
       pc'[ep] = "create" /\ e[1] = ep /\ line' = Append(line, e)

LEMMA AskJoins ==
  ASSUME IInv, IInv', NEW ep \in Eps, NEW r, NEW st, Ask(ep, r, st)
  PROVE  phase' = phase /\ Joins
<1>1. /\ phase' = phase /\ line' = Append(line, Env(ep, r))
      /\ pc'[ep] = "create" /\ target'[ep] = Env(ep, r)
  BY DEF Ask, IInv, TypeOK
<1>2. Env(ep, r) \in EnvIds
  BY <1>1 DEF IInv, TypeOK
<1>3. Env(ep, r)[1] = ep
  BY DEF Env
<1> QED BY <1>1, <1>2, <1>3 DEF Joins

LEMMA CloseServes ==
  ASSUME IInv, IInv', NEW ep \in Eps, NEW r, NEW st, Close(ep, r, st), pc[ep] # "failed"
  PROVE  Serves /\ Joins
<1>1. /\ Pool!Retire(Env(ep, r)) /\ line' = line /\ target'[ep] = Env(ep, r)
  BY DEF Close, IInv, TypeOK
<1>2. Env(ep, r) \in EnvIds
  BY <1>1 DEF IInv, TypeOK
<1>3. Env(ep, r)[1] = ep
  BY DEF Env
<1> QED BY <1>1, <1>2, <1>3 DEF Serves, Joins

LEMMA GiveBackServes ==
  ASSUME NEW e \in EnvIds, GiveBack(e)
  PROVE  Starts \/ (Serves /\ Joins)
<1>1. CASE line = <<>>
  BY <1>1 DEF GiveBack, Serves, Joins
<1>2. CASE line # <<>>
  BY <1>2 DEF GiveBack, Starts
<1> QED BY <1>1, <1>2

LEMMA StepServes ==
  ASSUME IInv, IInv', Next
  PROVE  Starts \/ ((phase' = phase \/ Serves) /\ Joins)
<1> DEFINE Goal == Starts \/ ((phase' = phase \/ Serves) /\ Joins)
<1>1. CASE Grant
  BY <1>1 DEF Grant, Starts
<1>2. ASSUME NEW ep \in Eps, EpisodeStep(ep)  PROVE Goal
  <2>0. target[ep] \in EnvIds
    BY DEF IInv, TypeOK
  <2>1. CASE Start(ep) \/ OpenSimulator(ep) \/ OpenGroup(ep)
    <3>1. \E r \in Roles, st \in PCs : Ask(ep, r, st)
      <4>1. CASE Start(ep)
        BY <4>1, RolesAre DEF Start, PCs
      <4>2. CASE OpenSimulator(ep)
        BY <4>2, RolesAre DEF OpenSimulator, PCs
      <4>3. CASE OpenGroup(ep)
        <5>1. cursor[ep] \in Roles
          BY Ranges DEF Roles
        <5> QED BY <4>3, <5>1 DEF OpenGroup, PCs
      <4> QED BY <2>1, <4>1, <4>2, <4>3
    <3> QED BY <3>1, AskJoins
  <2>2. CASE Created(ep)
    BY <2>0, <2>2 DEF Created, Serves, Joins
  <2>3. CASE Closed(ep)
    BY <2>0, <2>3, GiveBackServes DEF Closed
  <2>4. CASE \/ CloseSimulator(ep) \/ Simulate(ep) \/ CleanUp(ep) \/ Finish(ep)
    <3>1. pc[ep] # "failed"
      BY <2>4 DEF CloseSimulator, Simulate, CleanUp, Finish
    <3>2. \/ \E r, st : Close(ep, r, st)
          \/ phase' = phase /\ line' = line
      BY <2>4 DEF CloseSimulator, Simulate, CleanUp, Finish, Goto
    <3> QED BY <3>1, <3>2, CloseServes DEF Joins
  <2>5. CASE \/ Expand(ep) \/ GroupOpen(ep) \/ NoMove(ep) \/ SkipEnded(ep)
             \/ EndTurn(ep) \/ CleanedUp(ep) \/ NoAction(ep) \/ Act(ep)
    BY <2>5 DEF Expand, GroupOpen, NoMove, SkipEnded, EndTurn, CleanedUp, NoAction, Act,
                Goto, Joins
  <2> QED BY <1>2, <2>1, <2>2, <2>3, <2>4, <2>5 DEF EpisodeStep
<1>3. ASSUME NEW ep \in Eps, Failure(ep)  PROVE Goal
  <2>0. target[ep] \in EnvIds
    BY DEF IInv, TypeOK
  <2>1. CASE Raise(ep)
    BY <2>1 DEF Raise, Goto, Joins
  <2>2. CASE CreateFails(ep)
    BY <2>0, <2>2, GiveBackServes DEF CreateFails
  <2>3. CASE ServeFailed(ep)
    BY <2>0, <2>3, GiveBackServes DEF ServeFailed, Serves, Joins
  <2> QED BY <1>3, <2>1, <2>2, <2>3 DEF Failure
<1> QED BY <1>1, <1>2, <1>3 DEF Next

\* An episode that failed goes nowhere.
LEMMA FailedRests ==
  ASSUME IInv, Next, NEW x \in Eps, pc[x] = "failed"
  PROVE  pc'[x] = "failed" /\ step'[x] = step[x]
<1>0. pc \in [Eps -> PCs] /\ step \in [Eps -> 0 .. MaxSteps + 1]
  BY DEF IInv, TypeOK
<1>1. CASE Grant
  BY <1>1 DEF Grant, planVars
<1>2. ASSUME NEW ep \in Eps, EpisodeStep(ep)
      PROVE  pc'[x] = "failed" /\ step'[x] = step[x]
  <2>0. after[ep] \in PCs
    BY DEF IInv, TypeOK
  <2>1. CASE Start(ep) \/ OpenSimulator(ep) \/ OpenGroup(ep)
    <3>1. pc[ep] # "failed" /\ step' = step /\ pc' = [pc EXCEPT ![ep] = "create"]
      BY <2>1 DEF Start, OpenSimulator, OpenGroup, Ask, planVars
    <3> QED BY <1>0, <3>1
  <2>2. CASE Created(ep) \/ Closed(ep)
    <3>1. pc[ep] # "failed" /\ step' = step /\ pc' = [pc EXCEPT ![ep] = after[ep]]
      BY <2>2 DEF Created, Closed, Return, planVars
    <3> QED BY <1>0, <3>1
  <2>3. CASE \/ CloseSimulator(ep) \/ Simulate(ep) \/ CleanUp(ep) \/ Finish(ep)
    <3>1. /\ pc[ep] # "failed" /\ step' = step
          /\ \E st : pc' = [pc EXCEPT ![ep] = st]
      BY <2>3 DEF CloseSimulator, Simulate, CleanUp, Finish, Close, Goto, planVars
    <3> QED BY <1>0, <3>1
  <2>4. CASE \/ Expand(ep) \/ GroupOpen(ep) \/ NoMove(ep) \/ SkipEnded(ep)
             \/ EndTurn(ep) \/ CleanedUp(ep) \/ NoAction(ep)
    <3>1. /\ pc[ep] # "failed" /\ step' = step
          /\ \E st : pc' = [pc EXCEPT ![ep] = st]
      BY <2>4 DEF Expand, GroupOpen, NoMove, SkipEnded, EndTurn, CleanedUp, NoAction,
                  Goto, planVars
    <3> QED BY <1>0, <3>1
  <2>5. CASE Act(ep)
    <3>1. /\ pc[ep] # "failed" /\ step' = [step EXCEPT ![ep] = @ + 1]
          /\ \E st : pc' = [pc EXCEPT ![ep] = st]
      BY <2>5 DEF Act, Goto
    <3> QED BY <1>0, <3>1
  <2> QED BY <1>2, <2>1, <2>2, <2>3, <2>4, <2>5 DEF EpisodeStep
<1>3. ASSUME NEW ep \in Eps, Failure(ep)
      PROVE  pc'[x] = "failed" /\ step'[x] = step[x]
  <2>1. /\ step' = step /\ (pc' = pc \/ pc' = [pc EXCEPT ![ep] = "failed"])
    BY <1>3 DEF Failure, Raise, CreateFails, ServeFailed, Goto, planVars
  <2> QED BY <1>0, <2>1
<1> QED BY <1>1, <1>2, <1>3 DEF Next

\* What an episode holds after a step it held, or had in line, before.
LEMMA HeldWasClaimed ==
  ASSUME IInv, IInv', Next, NEW e \in EnvIds, pc'[e[1]] # "create",
         \/ e \in Pool!Held'
         \/ \E i \in 1 .. Len(line') : line'[i] = e
  PROVE  \/ e \in Pool!Held
         \/ \E i \in 1 .. Len(line) : line[i] = e
<1>0. /\ line \in Seq(EnvIds) /\ line' \in Seq(EnvIds)
      /\ phase \in [EnvIds -> Pool!Phases]
  BY DEF IInv, TypeOK
<1>1. CASE e \in Pool!Held'
  <2>1. phase'[e] \in {"starting", "live", "ending"}
    BY <1>1 DEF Pool!Held, Pool!EnvsIn
  <2>2. CASE Starts
    <3>1. Head(line) = line[1] /\ 1 \in 1 .. Len(line) /\ Head(line) \in EnvIds
      BY <1>0, <2>2, HeadTailProperties, EmptySeq DEF Starts
    <3>2. CASE e = Head(line)
      BY <3>1, <3>2
    <3>3. CASE e # Head(line)
      <4>1. phase[e] \in {"starting", "live", "ending"}
        <5>1. CASE Pool!Grant(Head(line))
          BY <1>0, <2>1, <3>1, <3>3, <5>1 DEF Pool!Grant
        <5>2. ASSUME NEW d \in EnvIds, Pool!HandOver(d, Head(line))
              PROVE  phase[e] \in {"starting", "live", "ending"}
          BY <1>0, <2>1, <3>1, <3>3, <5>2 DEF Pool!HandOver
        <5> QED BY <2>2, <5>1, <5>2 DEF Starts
      <4> QED BY <4>1 DEF Pool!Held, Pool!EnvsIn
    <3> QED BY <3>2, <3>3
  <2>3. CASE phase' = phase
    BY <2>1, <2>3 DEF Pool!Held, Pool!EnvsIn
  <2>4. CASE Serves
    <3>1. PICK d \in EnvIds : Pool!Ready(d) \/ Pool!Release(d) \/ Pool!Retire(d)
      BY <2>4 DEF Serves
    <3>2. phase[e] \in {"starting", "live", "ending"}
      BY <1>0, <2>1, <3>1 DEF Pool!Ready, Pool!Release, Pool!Retire
    <3> QED BY <3>2 DEF Pool!Held, Pool!EnvsIn
  <2> QED BY <2>2, <2>3, <2>4, StepServes
<1>2. ASSUME NEW i \in 1 .. Len(line'), line'[i] = e
      PROVE  \E j \in 1 .. Len(line) : line[j] = e
  <2>1. CASE Starts
    <3>1. /\ Len(line) \in Nat \ {0} /\ Len(line') = Len(line) - 1
          /\ \A k \in 1 .. Len(line') : line'[k] = line[k + 1]
      BY <1>0, <2>1, HeadTailProperties, EmptySeq DEF Starts
    <3>2. i + 1 \in 1 .. Len(line) /\ line[i + 1] = e
      BY <1>2, <3>1
    <3> QED BY <3>2
  <2>2. CASE line' = line
    BY <1>2, <2>2
  <2>3. ASSUME NEW ep \in Eps, NEW d \in EnvIds, pc'[ep] = "create", d[1] = ep,
               line' = Append(line, d)
        PROVE  \E j \in 1 .. Len(line) : line[j] = e
    <3>1. /\ Len(line) \in Nat /\ Len(line') = Len(line) + 1
          /\ \A k \in 1 .. Len(line) : line'[k] = line[k]
          /\ line'[Len(line) + 1] = d
      BY <1>0, <2>3, AppendProperties
    <3>2. i # Len(line) + 1
      BY <1>2, <2>3, <3>1
    <3>3. i \in 1 .. Len(line) /\ line[i] = e
      BY <1>2, <3>1, <3>2
    <3> QED BY <3>3
  <2> QED BY <2>1, <2>2, <2>3, StepServes DEF Joins
<1> QED BY <1>1, <1>2

\* Where an episode may raise, what it holds or has in line is its game with
\* its simulator or with trajectories.
LEMMA HoldsLittle ==
  ASSUME IInv, NEW x \in Eps, pc[x] # "failed", pc[x] # "idle", pc[x] # "done"
  PROVE  \E R \in {{Main, Sim}, 0 .. MaxTraj} :
           \A e \in EnvIds :
             e[1] = x /\ (e \in Pool!Held \/ \E i \in 1 .. Len(line) : line[i] = e)
               => \E r \in R : e = Env(x, r)
<1>0. /\ HoldsOK(x) /\ WaitOK(x) /\ BoundsOK(x) /\ LineOK
  BY DEF IInv, EpisodeOK
<1>1. ASSUME NEW e \in EnvIds, e[1] = x, e \in Pool!Held \/ \E i \in 1 .. Len(line) : line[i] = e
      PROVE  \/ \E r \in Keeps(x) : e = Env(x, r)
             \/ pc[x] \in {"create", "close"} /\ e = Env(x, Awaited(x))
  <2>1. CASE e \in Pool!Held
    <3>1. e \in HeldBy(x)
      BY <1>1, <2>1 DEF HeldBy
    <3> QED BY <1>0, <3>1 DEF HoldsOK, WaitOK
  <2>2. ASSUME NEW i \in 1 .. Len(line), line[i] = e
        PROVE  pc[x] \in {"create", "close"} /\ e = Env(x, Awaited(x))
    BY <1>0, <1>1, <2>2 DEF LineOK, WaitOK
  <2> QED BY <1>1, <2>1, <2>2
<1>2. /\ MaxTraj \in Nat \ {0} /\ n[x] \in 0 .. MaxTraj /\ cursor[x] \in 1 .. MaxTraj + 1
      /\ pc[x] \in PCs /\ after[x] \in PCs
  BY Ranges DEF IInv, TypeOK
<1>3. \E R \in {{Main, Sim}, 0 .. MaxTraj} :
        Keeps(x) \subseteq R /\ (pc[x] \in {"create", "close"} => Awaited(x) \in R)
  <2>1. CASE pc[x] \in {"create", "close"}
    <3>1. Stage(x) = after[x]
      BY <2>1 DEF Stage
    <3>2. CASE after[x] \in {"round", "done", "peek", "expand"}
      <4>1. Keeps(x) \subseteq {Main, Sim} /\ Awaited(x) \in {Main, Sim}
        BY <3>1, <3>2 DEF Keeps, Awaited
      <4> QED BY <4>1
    <3>3. CASE after[x] \in {"group", "turn", "cleanup"}
      <4>1. cursor[x] \in 2 .. n[x] + 1
        BY <1>0, <2>1, <3>3 DEF WaitOK
      <4>2. Keeps(x) \subseteq 0 .. MaxTraj
        <5>1. CASE after[x] = "group"
          BY <1>2, <3>1, <4>1, <5>1 DEF Keeps
        <5>2. CASE after[x] = "turn"
          BY <1>2, <3>1, <4>1, <5>2 DEF Keeps
        <5>3. CASE after[x] = "cleanup"
          BY <1>2, <3>1, <4>1, <5>3 DEF Keeps, Main
        <5> QED BY <3>3, <5>1, <5>2, <5>3
      <4>3. Awaited(x) = cursor[x] - 1
        BY <3>3 DEF Awaited
      <4>4. Awaited(x) \in 0 .. MaxTraj
        BY <1>2, <4>1, <4>3
      <4> QED BY <4>2, <4>4
    <3> QED BY <1>0, <2>1, <3>2, <3>3 DEF WaitOK
  <2>2. CASE pc[x] \notin {"create", "close"}
    <3>1. Stage(x) = pc[x]
      BY <2>2 DEF Stage
    <3>2. CASE pc[x] = "peek"
      <4>1. Keeps(x) = {Main, Sim}
        BY <3>1, <3>2 DEF Keeps
      <4> QED BY <2>2, <4>1
    <3>3. CASE pc[x] # "peek"
      <4>1. Keeps(x) \subseteq 0 .. MaxTraj
        <5>1. CASE pc[x] = "group"
          <6>1. Keeps(x) = 0 .. cursor[x] - 1 /\ cursor[x] <= n[x] + 1
            BY <1>0, <3>1, <5>1 DEF Keeps, BoundsOK
          <6> QED BY <1>2, <6>1
        <5>2. CASE pc[x] = "turn"
          BY <1>2, <3>1, <5>2 DEF Keeps
        <5>3. CASE pc[x] = "cleanup"
          BY <1>2, <3>1, <5>3 DEF Keeps, Main
        <5>4. CASE pc[x] \notin {"group", "turn", "cleanup"}
          BY <1>2, <3>1, <3>3, <5>4 DEF Keeps, Main
        <5> QED BY <5>1, <5>2, <5>3, <5>4
      <4> QED BY <2>2, <4>1
    <3> QED BY <3>2, <3>3
  <2> QED BY <2>1, <2>2
<1>4. PICK R \in {{Main, Sim}, 0 .. MaxTraj} :
        Keeps(x) \subseteq R /\ (pc[x] \in {"create", "close"} => Awaited(x) \in R)
  BY <1>3
<1> QED BY <1>1, <1>4

LEMMA FailedKeeps ==
  ASSUME IInv, IInv', Next, NEW x \in Eps, FailedOK(x)
  PROVE  FailedOK(x)'
<1>1. SUFFICES ASSUME pc'[x] = "failed"
               PROVE  \E R \in {{Main, Sim}, 0 .. MaxTraj} :
                        \A e \in EnvIds :
                          e[1] = x /\ (e \in Pool!Held' \/ \E i \in 1 .. Len(line') : line'[i] = e)
                            => \E r \in R : e = Env(x, r)'
  BY DEF FailedOK
<1>2. step'[x] = step[x] /\ pc[x] \notin {"idle", "done"}
  <2>1. CASE pc[x] = "failed"
    BY <2>1, FailedRests
  <2>2. CASE pc[x] # "failed"
    <3>0. pc \in [Eps -> PCs] /\ after \in [Eps -> PCs] /\ WaitOK(x)
      BY DEF IInv, TypeOK, EpisodeOK
    <3>1. ASSUME NEW ep \in Eps, EpisodeStep(ep)  PROVE FALSE
      <4>1. CASE Created(ep) \/ Closed(ep)
        <5>1. /\ pc' = [pc EXCEPT ![ep] = after[ep]] /\ pc[ep] \in {"create", "close"}
          BY <4>1 DEF Created, Closed, Return
        <5>2. ep = x /\ after[x] = "failed"
          BY <1>1, <2>2, <3>0, <5>1
        <5> QED BY <3>0, <5>1, <5>2 DEF WaitOK
      <4>2. CASE \/ Start(ep) \/ OpenSimulator(ep) \/ OpenGroup(ep)
        <5>1. pc' = [pc EXCEPT ![ep] = "create"]
          BY <4>2 DEF Start, OpenSimulator, OpenGroup, Ask
        <5> QED BY <1>1, <2>2, <3>0, <5>1
      <4>3. CASE CloseSimulator(ep) \/ Simulate(ep) \/ CleanUp(ep) \/ Finish(ep)
        <5>1. \E st \in {"close", "turn", "cleanup"} : pc' = [pc EXCEPT ![ep] = st]
          BY <4>3 DEF CloseSimulator, Simulate, CleanUp, Finish, Close, Goto
        <5> QED BY <1>1, <2>2, <3>0, <5>1
      <4>4. CASE \/ Expand(ep) \/ GroupOpen(ep) \/ NoMove(ep) \/ SkipEnded(ep)
                 \/ EndTurn(ep) \/ CleanedUp(ep) \/ NoAction(ep) \/ Act(ep)
        <5>1. \E st \in {"cleanup", "group", "turn", "act", "finish", "round"} :
                pc' = [pc EXCEPT ![ep] = st]
          BY <4>4 DEF Expand, GroupOpen, NoMove, SkipEnded, EndTurn, CleanedUp,
                      NoAction, Act, Goto
        <5> QED BY <1>1, <2>2, <3>0, <5>1
      <4> QED BY <3>1, <4>1, <4>2, <4>3, <4>4 DEF EpisodeStep
    <3>2. ASSUME NEW ep \in Eps, Failure(ep)
          PROVE  step'[x] = step[x] /\ pc[x] \notin {"idle", "done"}
      <4>1. /\ step' = step
            /\ \/ pc' = pc
               \/ pc' = [pc EXCEPT ![ep] = "failed"] /\ pc[ep] \notin {"idle", "done"}
        BY <3>2 DEF Failure, Raise, CreateFails, ServeFailed, Goto, planVars
      <4> QED BY <1>1, <2>2, <3>0, <4>1
    <3>3. ~Grant
      BY <1>1, <2>2 DEF Grant
    <3> QED BY <3>1, <3>2, <3>3 DEF Next
  <2> QED BY <2>1, <2>2
<1>3. PICK R \in {{Main, Sim}, 0 .. MaxTraj} :
        \A e \in EnvIds :
          e[1] = x /\ (e \in Pool!Held \/ \E i \in 1 .. Len(line) : line[i] = e)
            => \E r \in R : e = Env(x, r)
  BY <1>2, HoldsLittle DEF FailedOK
<1>4. \A r : Env(x, r)' = Env(x, r)
  BY <1>2 DEF Env
<1>5. ASSUME NEW e \in EnvIds, e[1] = x,
             e \in Pool!Held' \/ \E i \in 1 .. Len(line') : line'[i] = e
      PROVE  \E r \in R : e = Env(x, r)'
  <2>1. pc'[e[1]] # "create"
    BY <1>1, <1>5
  <2>2. e \in Pool!Held \/ \E i \in 1 .. Len(line) : line[i] = e
    BY <1>5, <2>1, HeldWasClaimed
  <2> QED BY <1>3, <1>4, <1>5, <2>2
<1> QED BY <1>5

-----------------------------------------------------------------------------
(* The theorems.                                                           *)

\* What every episode holds, waits for and may still open is as IInv says,
\* however the episodes interleave and wherever their calls raise.
THEOREM Invariance == Spec => []IInv
<1>1. Init => IInv
  BY InitOK
<1>2. IInv /\ [Next]_vars => IInv'
  BY StepKeeps
<1> QED BY <1>1, <1>2, PTL DEF Spec

\* Every variable keeps its type: the plan's turn, cursor and trajectories
\* and the game's steps stay in the ranges the loops give them.
THEOREM TypeCorrect == Spec => []TypeOK
<1>1. IInv => TypeOK
  BY DEF IInv
<1> QED BY <1>1, Invariance, PTL

\* An episode that ran to its end has closed its game, its simulators and all
\* trajectories of all its plans: run_lpm leaks nothing unless it raises.
THEOREM NothingLeft == Spec => []DoneHoldsNothing
<1>1. ASSUME IInv PROVE DoneHoldsNothing
  <2>1. SUFFICES ASSUME NEW x \in Eps, pc[x] = "done" PROVE HeldBy(x) = {}
    BY DEF DoneHoldsNothing
  <2>2. Keeps(x) = {}
    BY <2>1 DEF Keeps, Stage
  <2> QED BY <1>1, <2>1, <2>2 DEF IInv, EpisodeOK, HoldsOK
<1> QED BY <1>1, Invariance, PTL

\* Planning never plays a move on an environment that was closed or not yet
\* opened: the trajectories that are not marked done are open.
THEOREM SimulationsOpen == Spec => []SimulatesOpenEnvs
<1>1. ASSUME IInv PROVE SimulatesOpenEnvs
  <2>1. SUFFICES ASSUME NEW x \in Eps, pc[x] = "turn", NEW i \in 1 .. n[x],
                        i \notin ended[x]
                 PROVE  phase[Env(x, i)] = "live"
    BY DEF SimulatesOpenEnvs
  <2>2. i \in Opened(x)
    BY <2>1 DEF Opened, Stage
  <2> QED BY <1>1, <2>2 DEF IInv, EpisodeOK, LiveOK
<1> QED BY <1>1, Invariance, PTL

\* An episode in line holds at most its game and all trajectories but one.
LEMMA HeldInLine ==
  ASSUME IInv, NEW x \in Eps, pc[x] # "failed",
         pc[x] \in {"idle", "done"} \/ InLine(x), NEW e \in HeldBy(x)
  PROVE  e[2] \in 0 .. MaxTraj - 1 /\ e = Env(x, e[2])
<1>0. /\ HoldsOK(x) /\ WaitOK(x) /\ BoundsOK(x)
  BY DEF IInv, EpisodeOK
<1>1. pc[x] = "create" /\ phase[target[x]] = "none"
  <2>1. CASE pc[x] \in {"idle", "done"}
    BY <1>0, <2>1 DEF HoldsOK, Keeps, Stage
  <2> QED BY <2>1 DEF InLine
<1>2. /\ Stage(x) = after[x] /\ after[x] \in {"round", "peek", "group"}
      /\ target[x] = Env(x, Awaited(x))
      /\ after[x] = "group" => cursor[x] \in 2 .. n[x] + 1
  BY <1>0, <1>1 DEF WaitOK, Stage
<1>3. PICK r \in Keeps(x) : e = Env(x, r)
  BY <1>0, <1>1 DEF HoldsOK
<1>4. e[2] = r
  BY <1>3 DEF Env
<1>5. e # target[x]
  BY <1>1 DEF HeldBy, Pool!Held, Pool!EnvsIn
<1>6. r # Awaited(x)
  BY <1>2, <1>3, <1>5
<1>7. CASE after[x] = "round"
  BY <1>2, <1>6, <1>7 DEF Keeps, Awaited
<1>8. CASE after[x] = "peek"
  <2>1. r = 0
    BY <1>2, <1>6, <1>8 DEF Keeps, Awaited, Main
  <2> QED BY <1>3, <1>4, <2>1, EpisodesAssumption
<1>9. CASE after[x] = "group"
  <2>1. r \in 0 .. cursor[x] - 1 /\ r # cursor[x] - 1
    BY <1>2, <1>6, <1>9 DEF Keeps, Awaited
  <2>2. r \in 0 .. MaxTraj - 1
    BY <1>2, <1>9, <2>1, Ranges
  <2> QED BY <1>3, <1>4, <2>2
<1> QED BY <1>2, <1>7, <1>8, <1>9

\* What an episode leaves behind when it fails, and what the server still
\* starts for it, is its game with its simulator or with its trajectories.
THEOREM LeavesLittle == Spec => [](\A x \in Eps : FailedOK(x))
<1>1. Init => \A x \in Eps : FailedOK(x)
  BY DEF Init, FailedOK
<1>2. IInv /\ IInv' /\ (\A x \in Eps : FailedOK(x)) /\ [Next]_vars
        => (\A x \in Eps : FailedOK(x))'
  <2> SUFFICES ASSUME IInv, IInv', \A x \in Eps : FailedOK(x), [Next]_vars
               PROVE  \A x \in Eps : FailedOK(x)'
    OBVIOUS
  <2>1. CASE Next
    BY <2>1, FailedKeeps
  <2>2. CASE UNCHANGED vars
    BY <2>2 DEF vars, planVars, FailedOK, Env, Pool!Held, Pool!EnvsIn
  <2> QED BY <2>1, <2>2
<1> QED BY <1>1, <1>2, Invariance, PTL DEF Spec

\* The pool cannot be exhausted by episodes that all wait for a slot, if it
\* has MaxTraj slots for each of them, one more for each that failed and one
\* more: deadlock needs a smaller pool, whatever failed episodes left behind.
THEOREM CircularWait == Spec => []NoCircularWait
<1>1. ASSUME IInv, \A x \in Eps : FailedOK(x)  PROVE NoCircularWait
  <2> DEFINE F == {x \in Eps : pc[x] = "failed"}
  <2>1. SUFFICES ASSUME Cardinality(Eps) * MaxTraj + Cardinality(F) < PoolSize,
                        \A x \in Eps : pc[x] \in {"idle", "done", "failed"} \/ InLine(x)
                 PROVE  Cardinality(Pool!Held) < PoolSize
    BY DEF NoCircularWait
  <2> DEFINE A == Eps \X (0 .. MaxTraj - 1)
             B == F \X {MaxTraj}
             T == A \cup B
             place(e) == IF e[2] = Sim THEN MaxTraj ELSE e[2]
             f == [e \in Pool!Held |-> <<e[1], place(e)>>]
  <2>0. MaxTraj \in Nat \ {0} /\ Sim = MaxTraj + 1 /\ Main = 0
    BY EpisodesAssumption DEF Sim, Main
  <2>2. ASSUME NEW e \in Pool!Held
        PROVE  /\ e \in EnvIds /\ e[1] \in Eps /\ e[2] \in Roles /\ e = Env(e[1], e[2])
               /\ e[1] \in F \/ e[2] \in 0 .. MaxTraj - 1
    <3>1. e \in EnvIds /\ e[1] \in Eps /\ e[2] \in Roles
      BY EnvParts DEF Pool!Held, Pool!EnvsIn
    <3>2. e \in HeldBy(e[1])
      BY DEF HeldBy
    <3>3. CASE pc[e[1]] = "failed"
      <4>1. PICK r : e = Env(e[1], r)
        BY <1>1, <3>1, <3>3 DEF FailedOK
      <4>2. e[2] = r
        BY <4>1 DEF Env
      <4> QED BY <3>1, <3>3, <4>1, <4>2
    <3>4. CASE pc[e[1]] # "failed"
      BY <1>1, <2>1, <3>1, <3>2, <3>4, HeldInLine
    <3> QED BY <3>3, <3>4
  <2>3. f \in Injection(Pool!Held, T)
    <3>1. f \in [Pool!Held -> T]
      <4>1. ASSUME NEW e \in Pool!Held  PROVE <<e[1], place(e)>> \in T
        <5>1. CASE e[2] \in 0 .. MaxTraj - 1
          BY <2>0, <2>2, <5>1
        <5>2. CASE e[2] \notin 0 .. MaxTraj - 1
          <6>1. place(e) = MaxTraj
            BY <2>0, <2>2, <5>2 DEF Roles
          <6> QED BY <2>2, <5>2, <6>1
        <5> QED BY <5>1, <5>2
      <4> QED BY <4>1
    <3>2. ASSUME NEW d \in Pool!Held, NEW e \in Pool!Held, f[d] = f[e] PROVE d = e
      <4>1. d[1] = e[1] /\ place(d) = place(e)
        BY <3>2
      <4>2. d[2] = e[2]
        <5>1. CASE pc[d[1]] = "failed"
          <6>1. PICK R \in {{Main, Sim}, 0 .. MaxTraj} :
                  \A c \in EnvIds : c[1] = d[1] /\ c \in Pool!Held
                    => \E r \in R : c = Env(d[1], r)
            BY <1>1, <2>2, <5>1 DEF FailedOK
          <6>2. \A r : Env(d[1], r)[2] = r
            BY DEF Env
          <6>3. d[2] \in R /\ e[2] \in R
            BY <2>2, <4>1, <6>1, <6>2
          <6> QED BY <2>0, <4>1, <6>1, <6>3
        <5>2. CASE pc[d[1]] # "failed"
          <6>1. d[2] \in 0 .. MaxTraj - 1 /\ e[2] \in 0 .. MaxTraj - 1
            BY <2>2, <4>1, <5>2
          <6> QED BY <2>0, <4>1, <6>1
        <5> QED BY <5>1, <5>2
      <4> QED BY <2>2, <4>1, <4>2
    <3> QED BY <3>1, <3>2 DEF Injection, IsInjective
  <2>4. /\ IsFiniteSet(0 .. MaxTraj - 1) /\ Cardinality(0 .. MaxTraj - 1) = MaxTraj
        /\ IsFiniteSet({MaxTraj}) /\ Cardinality({MaxTraj}) = 1
    <3>1. IsFiniteSet(0 .. MaxTraj - 1) /\ Cardinality(0 .. MaxTraj - 1) = MaxTraj
      BY EpisodesAssumption, FS_Interval
    <3>2. IsFiniteSet({MaxTraj}) /\ Cardinality({MaxTraj}) = 1
      BY FS_Singleton
    <3> QED BY <3>1, <3>2
  <2>5. IsFiniteSet(F) /\ Cardinality(F) \in Nat /\ Cardinality(Eps) \in Nat
    <3>1. F \subseteq Eps
      OBVIOUS
    <3> QED BY <3>1, EpisodesAssumption, FS_Subset, FS_CardinalityType
  <2>6. /\ IsFiniteSet(A) /\ Cardinality(A) = Cardinality(Eps) * MaxTraj
        /\ IsFiniteSet(B) /\ Cardinality(B) = Cardinality(F)
    <3> HIDE DEF F
    <3>1. IsFiniteSet(A) /\ Cardinality(A) = Cardinality(Eps) * MaxTraj
      BY <2>4, EpisodesAssumption, FS_Product
    <3>2. IsFiniteSet(B) /\ Cardinality(B) = Cardinality(F) * 1
      BY <2>4, <2>5, FS_Product
    <3> QED BY <2>5, <3>1, <3>2
  <2>7. A \cap B = {}
    BY <2>0
  <2> HIDE DEF A, B, F
  <2>8. IsFiniteSet(T) /\ Cardinality(T) = Cardinality(Eps) * MaxTraj + Cardinality(F)
    <3>1. Cardinality(A \cap B) = 0
      BY <2>7, FS_EmptySet
    <3>2. /\ IsFiniteSet(T)
          /\ Cardinality(T) = Cardinality(A) + Cardinality(B) - Cardinality(A \cap B)
      BY <2>6, FS_Union
    <3>3. Cardinality(A) \in Nat /\ Cardinality(B) \in Nat
      BY <2>6, FS_CardinalityType
    <3> QED BY <2>6, <3>1, <3>2, <3>3
  <2>9. Cardinality(Pool!Held) <= Cardinality(T) /\ IsFiniteSet(Pool!Held)
    BY <2>3, <2>8, FS_Injection
  <2> HIDE DEF T, f
  <2>10. Cardinality(Pool!Held) \in Nat /\ Cardinality(T) \in Nat
    BY <2>8, <2>9, FS_CardinalityType
  <2> QED BY <2>1, <2>8, <2>9, <2>10, EpisodesAssumption
<1> QED BY <1>1, Invariance, LeavesLittle, PTL

\* What FailedReturnAll, which a run refutes, says of failed episodes is never
\* true of one that had an environment open: nobody closes it.
THEOREM LeakIsForGood == Spec => LeaksStay
<1>1. ASSUME IInv, IInv', Next, NEW ep \in Eps, pc[ep] = "failed",
             NEW e \in EnvIds, e[1] = ep, phase[e] = "live"
      PROVE  phase'[e] = "live"
  <2>0. phase \in [EnvIds -> Pool!Phases] /\ line \in Seq(EnvIds)
    BY <1>1 DEF IInv, TypeOK
  <2>1. CASE Starts
    <3>1. Head(line) = line[1] /\ 1 \in 1 .. Len(line) /\ Head(line) \in EnvIds
      BY <2>0, <2>1, HeadTailProperties, EmptySeq DEF Starts
    <3>2. phase[Head(line)] = "none"
      BY <1>1, <3>1 DEF IInv, LineOK
    <3> QED BY <1>1, <2>0, <2>1, <3>1, <3>2 DEF Starts, Pool!Grant, Pool!HandOver
  <2>2. CASE phase' = phase
    BY <1>1, <2>2
  <2>3. CASE Serves
    BY <1>1, <2>0, <2>3 DEF Serves, Pool!Ready, Pool!Release, Pool!Retire
  <2> QED BY <1>1, <2>1, <2>2, <2>3, StepServes
<1>2. IInv /\ IInv' /\ [Next]_vars
        => [\A ep \in Eps : pc[ep] = "failed" =>
              /\ pc'[ep] = "failed"
              /\ \A e \in EnvIds : e[1] = ep /\ phase[e] = "live" => phase'[e] = "live"]_vars
  BY <1>1, FailedRests
<1> QED BY <1>2, Invariance, PTL DEF Spec, LeaksStay

\* The episodes are composed with the server through EnvPool alone: every step
\* of theirs is one that EnvPool, which EnvServer implements, offers its
\* callers, or does not concern it.
THEOREM EpisodesUsePool == Spec => UsesPool
<1>1. Init => Pool!PoolInit
  BY DEF Init, Pool!PoolInit
<1>2. ASSUME IInv, IInv', [Next]_vars  PROVE [Pool!PoolNext]_(Pool!poolVars)
  <2>0. line \in Seq(EnvIds)
    BY <1>2 DEF IInv, TypeOK
  <2>1. CASE Next
    <3>1. CASE Starts
      <4>1. Head(line) \in EnvIds
        BY <2>0, <3>1, HeadTailProperties, EmptySeq DEF Starts
      <4> QED BY <3>1, <4>1 DEF Starts, Pool!PoolNext
    <3>2. CASE phase' = phase
      BY <3>2 DEF Pool!poolVars
    <3>3. CASE Serves
      BY <3>3 DEF Serves, Pool!PoolNext
    <3> QED BY <1>2, <2>1, <3>1, <3>2, <3>3, StepServes
  <2>2. CASE UNCHANGED vars
    BY <2>2 DEF vars, Pool!poolVars
  <2> QED BY <1>2, <2>1, <2>2
<1> QED BY <1>1, <1>2, Invariance, PTL DEF Spec, UsesPool, Pool!PoolSpec
=============================================================================
