----------------------------- MODULE RateLimiter -----------------------------
(***************************************************************************)
(* The rate limiter that processes share through two files: a lock that is *)
(* tried once and never waited for, and the time of the last slot that was *)
(* given.  Who has the lock gets the next slot and is told how long to     *)
(* wait for it; who does not is told to wait a fixed time and gets none.   *)
(*                                                                         *)
(* A process may stop anywhere: the system takes its lock away and leaves  *)
(* the files.  cleanup() removes the files under those who use them, and a *)
(* lock file that is opened next is another file.                          *)
(***************************************************************************)
EXTENDS Naturals, Sequences, FiniteSets

CONSTANTS
  Processes,  \* processes that call get_token
  Interval,   \* min_interval
  LongestWait, \* max_wait
  Fallback,   \* what is returned without the lock
  LastTime,   \* bound: of the clock
  MostCalls,  \* bound: answers of get_token
  LockFiles   \* bound: files the name of the lock may have named

ASSUME LimiterAssumption ==
  /\ {Interval, LongestWait, Fallback} \subseteq Nat \ {0}
  /\ {LastTime, MostCalls, LockFiles} \subseteq Nat

VARIABLES
  clock,    \* the time
  named,    \* the file that lock_file names, 0 if there is none
  files,    \* files it has named so far
  cleaning, \* cleanup() has removed the lock and not yet the state
  saved,    \* the state file
  taker,    \* where each process is in get_token
  handle,   \* the lock file it has opened
  seen,     \* now, as it read it
  slot,     \* new_request_time, as it computed it
  answers,  \* of every call so far: the slot, if any, when it was asked, the wait
  disturbed \* files were removed, or a slot that was given is not saved

fileVars == <<named, files, cleaning, saved>>
limiterVars == <<clock, fileVars, taker, handle, seen, slot, answers, disturbed>>

Nothing  == [is |-> "none", at |-> 0]
Torn     == [is |-> "torn", at |-> 0]
Slot(at) == [is |-> "time", at |-> at]

LimiterInit ==
  /\ clock = 0 /\ named = 0 /\ files = 0 /\ cleaning = FALSE
  /\ saved = Nothing
  /\ taker = [p \in Processes |-> "idle"]
  /\ handle = [p \in Processes |-> 0]
  /\ seen = [p \in Processes |-> 0] /\ slot = [p \in Processes |-> 0]
  /\ answers = <<>> /\ disturbed = FALSE

-----------------------------------------------------------------------------
Inside == {"read", "writing"}

Locked(f) == \E p \in Processes : taker[p] \in Inside /\ handle[p] = f

OpenLock(p) ==
  /\ taker[p] = "idle" /\ Len(answers) < MostCalls
  /\ IF named = 0
       THEN files < LockFiles /\ files' = files + 1 /\ named' = files + 1
       ELSE UNCHANGED <<files, named>>
  /\ handle' = [handle EXCEPT ![p] = named']
  /\ taker' = [taker EXCEPT ![p] = "opened"]
  /\ UNCHANGED <<clock, cleaning, saved, seen, slot, answers, disturbed>>

\* get_token returns; what it held is gone.
Returns(p, answer) ==
  /\ taker' = [taker EXCEPT ![p] = "idle"]
  /\ handle' = [handle EXCEPT ![p] = 0]
  /\ seen' = [seen EXCEPT ![p] = 0] /\ slot' = [slot EXCEPT ![p] = 0]
  /\ answers' = Append(answers, answer)

\* The lock is taken: the caller goes ahead after a while, without a slot.
FlockFails(p) ==
  /\ taker[p] = "opened" /\ Locked(handle[p])
  /\ Returns(p, [slot |-> 0, asked |-> clock, wait |-> Fallback])
  /\ UNCHANGED <<clock, fileVars, disturbed>>

\* [mutant] who has to wait does not move the last slot.
NextSlotNow(now, last) == IF last + Interval <= now THEN now ELSE now + Interval

NextSlot(now, last) == IF last + Interval <= now THEN now ELSE last + Interval

\* The lock is taken and the state read.  Without one, or with one that cannot
\* be read, the last slot is now.
TakeLock(p) ==
  /\ taker[p] = "opened" /\ ~Locked(handle[p])
  /\ seen' = [seen EXCEPT ![p] = clock]
  /\ slot' = [slot EXCEPT ![p] = NextSlot(clock, IF saved.is = "time" THEN saved.at ELSE clock)]
  /\ taker' = [taker EXCEPT ![p] = "read"]
  /\ UNCHANGED <<clock, fileVars, handle, answers, disturbed>>

\* Opening the state to write it empties it.
Truncate(p) ==
  /\ taker[p] = "read"
  /\ saved' = Torn
  /\ taker' = [taker EXCEPT ![p] = "writing"]
  /\ UNCHANGED <<clock, named, files, cleaning, handle, seen, slot, answers, disturbed>>

Wait(p) == IF slot[p] - seen[p] > LongestWait THEN LongestWait ELSE slot[p] - seen[p]

\* The caller gets its slot, and the lock is free.  The slot counts as given
\* once it is written: closing the files, returning and a process that stops
\* in between are not told apart.
Answer(p) == Returns(p, [slot |-> slot[p], asked |-> seen[p], wait |-> Wait(p)])

WriteState(p) ==
  /\ taker[p] = "writing"
  /\ saved' = Slot(slot[p])
  /\ Answer(p)
  /\ UNCHANGED <<clock, named, files, cleaning, disturbed>>

\* An error of the file system is only logged.
WriteFails(p) ==
  /\ taker[p] \in {"read", "writing"}
  /\ disturbed' = TRUE
  /\ Answer(p)
  /\ UNCHANGED <<clock, fileVars>>

Stop(p) ==
  /\ taker[p] \in {"opened"} \cup Inside
  /\ taker' = [taker EXCEPT ![p] = "stopped"]
  /\ handle' = [handle EXCEPT ![p] = 0]
  /\ seen' = [seen EXCEPT ![p] = 0] /\ slot' = [slot EXCEPT ![p] = 0]
  /\ disturbed' = (disturbed \/ taker[p] = "writing")
  /\ UNCHANGED <<clock, fileVars, answers>>

\* cleanup(): the lock first, then the state.
RemoveLock ==
  /\ ~cleaning /\ named # 0
  /\ named' = 0 /\ cleaning' = TRUE /\ disturbed' = TRUE
  /\ UNCHANGED <<clock, files, saved, taker, handle, seen, slot, answers>>

RemoveState ==
  /\ cleaning
  /\ saved' = Nothing /\ cleaning' = FALSE
  /\ UNCHANGED <<clock, named, files, taker, handle, seen, slot, answers, disturbed>>

Tick ==
  /\ clock < LastTime
  /\ clock' = clock + 1
  /\ UNCHANGED <<fileVars, taker, handle, seen, slot, answers, disturbed>>

-----------------------------------------------------------------------------
LimiterNext ==
  \/ \E p \in Processes :
       \/ OpenLock(p) \/ FlockFails(p) \/ TakeLock(p) \/ Truncate(p)
       \/ WriteState(p) \/ WriteFails(p) \/ Stop(p)
  \/ RemoveLock \/ RemoveState \/ Tick

LimiterSpec == LimiterInit /\ [][LimiterNext]_limiterVars

-----------------------------------------------------------------------------
LimiterTypeOK ==
  /\ clock \in 0 .. LastTime /\ named \in 0 .. files /\ files \in 0 .. LockFiles
  /\ cleaning \in BOOLEAN /\ disturbed \in BOOLEAN
  /\ saved.is \in {"none", "torn", "time"} /\ saved.at \in Nat
  /\ taker \in [Processes -> {"idle", "opened", "stopped"} \cup Inside]
  /\ handle \in [Processes -> 0 .. files]
  /\ seen \in [Processes -> 0 .. LastTime] /\ slot \in [Processes -> Nat]

Given == {k \in 1 .. Len(answers) : answers[k].slot > 0}

(* However processes overlap, and wherever they stop, no two slots are     *)
(* closer than the interval, as long as the files stay and what was given  *)
(* is saved.  A caller is sent ahead of its slot only when at least as     *)
(* many slots as fit into the longest wait are given and not yet due.      *)
SlotsSpaced ==
  ~disturbed =>
    /\ \A j, k \in Given : j < k => answers[j].slot + Interval <= answers[k].slot
    /\ \A k \in Given :
         answers[k].asked + answers[k].wait < answers[k].slot =>
           Cardinality({j \in Given : j < k /\ answers[j].slot > answers[k].asked})
             >= LongestWait \div Interval

-----------------------------------------------------------------------------
(* The inductive invariant behind the theorems of ServiceProofs.           *)

AnswersOK ==
  /\ answers \in Seq([slot : Nat, asked : Nat, wait : Nat])
  /\ \A j \in Given :
       /\ answers[j].asked <= clock /\ answers[j].asked <= answers[j].slot
       /\ answers[j].wait = LET w == answers[j].slot - answers[j].asked
                            IN  IF w > LongestWait THEN LongestWait ELSE w

LastGiven(k) == k \in Given /\ \A j \in Given : j <= k

\* One lock, one holder; it has read the last slot, or will find it.
LockOK ==
  /\ ~cleaning
  /\ \A p \in Processes :
       taker[p] \in {"opened"} \cup Inside => named # 0 /\ handle[p] = named
  /\ \A p, q \in Processes : taker[p] \in Inside /\ taker[q] \in Inside => p = q
  /\ (\A p \in Processes : taker[p] # "writing") =>
       \/ Given = {} /\ saved.is # "time"
       \/ saved.is = "time" /\ \E k \in Given : LastGiven(k) /\ saved.at = answers[k].slot
  /\ \A p \in Processes : taker[p] \in Inside =>
       /\ seen[p] <= clock /\ \A j \in Given : answers[j].asked <= seen[p]
       /\ \/ Given = {} /\ slot[p] = NextSlot(seen[p], seen[p])
          \/ \E k \in Given : LastGiven(k) /\ slot[p] = NextSlot(seen[p], answers[k].slot)

Earlier(k, now) == {j \in Given : j < k /\ answers[j].slot > now}

\* A slot is as far away as there are slots before it that are not yet due.
Crowded ==
  /\ \A j, k \in Given : j < k => answers[j].asked <= answers[k].asked
  /\ \A k \in Given : \A now \in answers[k].asked .. answers[k].slot :
       now < answers[k].slot =>
         answers[k].slot <= now + Interval * (Cardinality(Earlier(k, now)) + 1)

SpacedOK == \A j, k \in Given : j < k => answers[j].slot + Interval <= answers[k].slot

LimiterIInv ==
  /\ LimiterTypeOK
  /\ ~disturbed => AnswersOK /\ LockOK /\ SpacedOK /\ Crowded
=============================================================================
