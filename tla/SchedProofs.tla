---------------------------- MODULE SchedProofs ----------------------------
(***************************************************************************)
(* Theorems about the scheduler, for every set of tasks and every bound.   *)
(*                                                                         *)
(* The counter of task_lock is never negative only because it counts the   *)
(* guards that are open, so type correctness and LockCount are proved      *)
(* together.  Then the life of a task: who is RUNNING, who is WAITING, and *)
(* who may be inside a locked section without the processor; and at last   *)
(* the ring.  All but the first two are proved for machines that create no *)
(* task once one has exited (LateSpawn = FALSE); without that a slot may   *)
(* be given away in the middle of its destruction.                         *)
(***************************************************************************)
EXTENDS Sched, FiniteSetTheorems, SequenceTheorems, WellFoundedInduction, TLAPS

Counted == IsFiniteSet(HeldLevels) /\ LockCount
LockInv == TypeOK /\ Counted

---------------------------------------------------------------------------
(* What a switch does to the variables it touches.                         *)

\* The walk gives every task a state again.
LEMMA WalkType ==
  ASSUME NEW st \in [Pid -> TaskState], NEW c, NEW time
  PROVE  _proc_task_state(st, c, time) \in [Pid -> TaskState]
BY DEF _proc_task_state, TaskState

LEMMA SwitchType ==
  ASSUME NEW st \in [Pid -> TaskState], NEW time, TypeOK, Switch(st, time)
  PROVE  /\ state' \in [Pid -> TaskState]
         /\ current' \in Pid
         /\ used' \subseteq Pid
<1> DEFINE seen == _proc_task_state(st, current, time)
<1>1. seen \in [Pid -> TaskState] BY WalkType
<1>2. PICK next \in Pid :
        /\ state' = [seen EXCEPT ![current] = IF @ = "RUNNING" THEN "READY" ELSE @,
                                 ![next] = "RUNNING"]
        /\ current' = next
  BY DEF Switch
<1>3. state' \in [Pid -> TaskState] BY <1>1, <1>2 DEF TaskState
<1>4. used' \subseteq Pid BY DEF Switch, TypeOK
<1> QED BY <1>2, <1>3, <1>4

LEMMA YieldType ==
  ASSUME NEW st \in [Pid -> TaskState], NEW n, TypeOK, YieldIfSkipped(st, n)
  PROVE  /\ state' \in [Pid -> TaskState]
         /\ current' \in Pid
         /\ used' \subseteq Pid
BY SwitchType DEF YieldIfSkipped, Stay, TypeOK

LEMMA TopFrame ==
  ASSUME TypeOK, reap[current] # <<>>
  PROVE  /\ reap[current] \in Seq(Frames)
         /\ Len(reap[current]) \in Nat \ {0}
         /\ Frame \in Frames
<1>1. reap[current] \in Seq(Frames) BY DEF TypeOK
<1>2. Len(reap[current]) \in Nat \ {0} BY <1>1, EmptySeq
<1> QED BY <1>1, <1>2, ElementOfSeq DEF Frame

---------------------------------------------------------------------------
(* The open guards as a set.                                               *)

LEMMA OpenGuard ==
  ASSUME TypeOK, Counted, current \in Pid,
         depth' = [depth EXCEPT ![current] = @ + 1], locked' = locked + 1
  PROVE  Counted'
<1> DEFINE new == <<current, depth[current] + 1>>
<1>1. depth \in [Pid -> Nat] BY DEF TypeOK
<1>2. HeldLevels' = HeldLevels \union {new} BY <1>1 DEF HeldLevels
<1>3. new \notin HeldLevels BY <1>1 DEF HeldLevels
<1>4. IsFiniteSet(HeldLevels') /\ Cardinality(HeldLevels') = Cardinality(HeldLevels) + 1
  BY <1>2, <1>3, FS_AddElement DEF Counted
<1> QED BY <1>4 DEF Counted, LockCount

LEMMA CloseGuard ==
  ASSUME TypeOK, Counted, current \in Pid, depth[current] > 0,
         depth' = [depth EXCEPT ![current] = @ - 1], locked' = locked - 1
  PROVE  Counted' /\ locked' \in Nat
<1> DEFINE old == <<current, depth[current]>>
<1>1. depth \in [Pid -> Nat] BY DEF TypeOK
<1>2. HeldLevels' = HeldLevels \ {old} BY <1>1 DEF HeldLevels
<1>3. old \in HeldLevels BY <1>1 DEF HeldLevels
<1>4. IsFiniteSet(HeldLevels') /\ Cardinality(HeldLevels') = Cardinality(HeldLevels) - 1
  BY <1>2, <1>3, FS_RemoveElement DEF Counted
<1>5. Cardinality(HeldLevels') \in Nat BY <1>4, FS_CardinalityType
<1> QED BY <1>4, <1>5 DEF Counted, LockCount

LEMMA SameGuards == Counted /\ UNCHANGED <<depth, locked>> => Counted'
BY DEF Counted, LockCount, HeldLevels

---------------------------------------------------------------------------
(* Type correctness and the count of the open guards.                      *)

LEMMA LockInvInit == Init => LockInv
<1> SUFFICES ASSUME Init PROVE LockInv OBVIOUS
<1> USE SchedAssumption
<1>a. Boot \subseteq Pid /\ KERNEL \in Pid /\ INT_WORKER \in Pid /\ LAZY \in Pid
  BY DEF Boot, Pid, LAZY, KERNEL, INT_WORKER
<1>b. state \in [Pid -> TaskState] /\ at \in [Pid -> Place] BY DEF Init, TaskState, Place
<1>c. right \in [Pid -> Pid \union {None}] /\ left \in [Pid -> Pid \union {None}]
  BY <1>a DEF Init
<1>d. reap \in [Pid -> Seq(Frames)]
  <2>1. <<>> \in Seq(Frames) BY EmptySeq
  <2> QED BY <2>1 DEF Init
<1>e. /\ activation \in [Pid -> Nat] /\ depth \in [Pid -> Nat]
      /\ child \in [Pid -> Pid \union {None}] /\ neighbour \in [Pid -> Pid \union {None}]
  BY DEF Init
<1>f. /\ used \subseteq Pid /\ prId \in Pid /\ current \in Pid /\ waiters \subseteq Pid
      /\ skipped = FALSE /\ pending = FALSE /\ acc \in Pid \union {None}
  BY <1>a DEF Init
<1>g. taskCount \in Int /\ locked \in Nat /\ now \in Nat /\ spawned \in Nat BY DEF Init
<1>1. TypeOK BY <1>b, <1>c, <1>d, <1>e, <1>f, <1>g DEF TypeOK
<1>2. HeldLevels = {} BY DEF Init, HeldLevels
<1>3. Counted BY <1>2, FS_EmptySet DEF Counted, LockCount, Init
<1> QED BY <1>1, <1>3 DEF LockInv

LEMMA LockInvStep == LockInv /\ [Next]_vars => LockInv'
<1> SUFFICES ASSUME LockInv, [Next]_vars PROVE LockInv'
  OBVIOUS
<1> USE SchedAssumption DEF LockInv
<1> USE DEF ring, slots, spawning
<1>a. current \in Pid /\ state \in [Pid -> TaskState] BY DEF TypeOK
<1>1. CASE Tick
  <2>1. state' \in [Pid -> TaskState] /\ current' \in Pid /\ used' \subseteq Pid
    <3>1. CASE Switch(state, now') BY <3>1, <1>a, SwitchType
    <3>2. CASE Stay(state) BY <3>2, <1>a DEF Stay, TypeOK
    <3>3. CASE /\ state' = _proc_task_state(state, current, now')
               /\ used' = used \ ErasedPids(state, current, now')
               /\ UNCHANGED current
      BY <3>3, <1>a, WalkType DEF TypeOK
    <3> QED BY <1>1, <3>1, <3>2, <3>3 DEF Tick
  <2>2. now' \in Nat BY <1>1 DEF Tick, TypeOK
  <2>3. skipped' = TRUE \/ skipped' = skipped BY <1>1 DEF Tick
  <2>4. TypeOK' BY <1>1, <2>1, <2>2, <2>3 DEF Tick, TypeOK
  <2> QED BY <1>1, <2>4, SameGuards DEF Tick
<1>2. CASE task_lock
  <2>1. TypeOK' BY <1>2 DEF task_lock, TypeOK
  <2> QED BY <1>2, <1>a, <2>1, OpenGuard DEF task_lock
<1>3. CASE task_unlock
  <2>1. Counted' /\ locked' \in Nat BY <1>3, <1>a, CloseGuard DEF task_unlock
  <2>2. state' \in [Pid -> TaskState] /\ current' \in Pid /\ used' \subseteq Pid
    BY <1>3, <1>a, YieldType DEF task_unlock
  <2>3. depth' \in [Pid -> Nat] BY <1>3 DEF task_unlock, TypeOK
  <2>4. TypeOK' BY <1>3, <2>1, <2>2, <2>3 DEF task_unlock, TypeOK
  <2> QED BY <2>1, <2>4
<1>4. CASE HwWait
  <2>1. TypeOK' BY <1>4, <1>a, SwitchType DEF HwWait, Goto, TypeOK, Place
  <2> QED BY <1>4, <2>1, SameGuards DEF HwWait
<1>5. CASE HwDone
  <2>1. TypeOK' BY <1>5 DEF HwDone, Goto, TypeOK, Place
  <2> QED BY <1>5, <2>1, SameGuards DEF HwDone
<1>6. CASE SleepState
  <2>1. TypeOK' BY <1>6 DEF SleepState, Goto, TypeOK, Place, TaskState
  <2> QED BY <1>6, <2>1, SameGuards DEF SleepState
<1>7. CASE SleepDeadline
  <2>1. activation' \in [Pid -> Nat] BY <1>7 DEF SleepDeadline, TypeOK
  <2>2. TypeOK' BY <1>7, <2>1 DEF SleepDeadline, Goto, TypeOK, Place
  <2> QED BY <1>7, <2>2, SameGuards DEF SleepDeadline
<1>8. CASE SleepYield
  <2>1. TypeOK' BY <1>8, <1>a, SwitchType DEF SleepYield, Goto, TypeOK, Place
  <2> QED BY <1>8, <2>1, SameGuards DEF SleepYield
<1>9. CASE SleepReturn
  <2>1. TypeOK' BY <1>9 DEF SleepReturn, Goto, TypeOK, Place
  <2> QED BY <1>9, <2>1, SameGuards DEF SleepReturn
<1>10. CASE task_event_add
  <2>1. [state EXCEPT ![current] = "WAITING"] \in [Pid -> TaskState] BY <1>a DEF TaskState
  <2>2. state' \in [Pid -> TaskState] /\ current' \in Pid /\ used' \subseteq Pid
    BY <1>10, <2>1, YieldType DEF task_event_add
  <2>3. TypeOK' BY <1>10, <2>2 DEF task_event_add, Goto, TypeOK, Place
  <2> QED BY <1>10, <2>3, SameGuards DEF task_event_add
<1>11. CASE EventYield
  <2>1. TypeOK' BY <1>11, <1>a, SwitchType DEF EventYield, Goto, TypeOK, Place
  <2> QED BY <1>11, <2>1, SameGuards DEF EventYield
<1>12. CASE task_event_flush
  <2>1. [p \in Pid |-> IF p \in waiters THEN "READY" ELSE state[p]] \in [Pid -> TaskState]
    BY <1>a DEF TaskState
  <2>2. state' \in [Pid -> TaskState] /\ current' \in Pid /\ used' \subseteq Pid
    BY <1>12, <2>1, YieldType DEF task_event_flush
  <2>3. TypeOK' BY <1>12, <2>2 DEF task_event_flush, TypeOK
  <2> QED BY <1>12, <2>3, SameGuards DEF task_event_flush
<1>13. CASE DeviceIrq
  <2>1. TypeOK' BY <1>13 DEF DeviceIrq, TypeOK, TaskState
  <2> QED BY <1>13, <2>1, SameGuards DEF DeviceIrq
<1>14. CASE IntWorkerLoop
  <2>1. [state EXCEPT ![INT_WORKER] = "WAITING"] \in [Pid -> TaskState] BY <1>a DEF TaskState
  <2>2. state' \in [Pid -> TaskState] /\ current' \in Pid /\ used' \subseteq Pid
    BY <1>14, <1>a, <2>1, SwitchType DEF IntWorkerLoop, Stay, TypeOK
  <2>3. TypeOK' BY <1>14, <2>2 DEF IntWorkerLoop, TypeOK
  <2> QED BY <1>14, <2>3, SameGuards DEF IntWorkerLoop
<1>15. CASE SpawnSlot
  <2>1. PICK p \in Pid :
          /\ used' = used \union {p}
          /\ prId' = p
          /\ state' = [state EXCEPT ![p] = "READY"]
          /\ child' = [child EXCEPT ![current] = p]
          /\ at' = [at EXCEPT ![current] = "prefix", ![p] = "run"]
          /\ reap' = [reap EXCEPT ![p] = <<>>]
    BY <1>15 DEF SpawnSlot
  <2>2. state' \in [Pid -> TaskState] /\ at' \in [Pid -> Place]
    BY <2>1 DEF TypeOK, TaskState, Place
  <2>3. child' \in [Pid -> Pid \union {None}] BY <2>1 DEF TypeOK
  <2>4. reap' \in [Pid -> Seq(Frames)]
    <3>1. <<>> \in Seq(Frames) BY EmptySeq
    <3> QED BY <2>1, <3>1 DEF TypeOK
  <2>5. /\ taskCount' \in Int /\ spawned' \in Nat /\ used' \subseteq Pid /\ prId' \in Pid
        /\ UNCHANGED <<right, left, activation, current, locked, skipped, acc, now, waiters,
                       pending, depth, neighbour>>
    BY <1>15, <2>1 DEF SpawnSlot, TypeOK
  <2>6. TypeOK' BY <2>2, <2>3, <2>4, <2>5 DEF TypeOK
  <2> QED BY <2>5, <2>6, SameGuards
<1>16. CASE SpawnAllocate
  <2>1. TypeOK' BY <1>16, <1>a, YieldType DEF SpawnAllocate, Goto, TypeOK, Place
  <2> QED BY <1>16, <2>1, SameGuards DEF SpawnAllocate
<1>17. CASE SpawnNeighbour
  <2>1. TypeOK' BY <1>17 DEF SpawnNeighbour, Goto, TypeOK, Place
  <2> QED BY <1>17, <2>1, SameGuards DEF SpawnNeighbour
<1>18. CASE sched_task_add_new
  <2>1. right' \in [Pid -> Pid \union {None}] /\ left' \in [Pid -> Pid \union {None}]
    BY <1>18 DEF sched_task_add_new, list_add, TypeOK
  <2>2. TypeOK' BY <1>18, <2>1 DEF sched_task_add_new, Goto, TypeOK, Place
  <2> QED BY <1>18, <2>2, SameGuards DEF sched_task_add_new
<1>19. CASE task_exit
  <2>1. [state EXCEPT ![current] = "TERMINATED"] \in [Pid -> TaskState] BY <1>a DEF TaskState
  <2>2. PICK next \in Pid :
          /\ state' = [_proc_task_state([state EXCEPT ![current] = "TERMINATED"], current, now)
                         EXCEPT ![next] = "RUNNING"]
          /\ current' = next
          /\ reap' = [reap EXCEPT ![next] = Append(@, [victim |-> current, frees |-> FreeSteps])]
    BY <1>19 DEF task_exit
  <2>3. state' \in [Pid -> TaskState] BY <2>1, <2>2, WalkType DEF TaskState
  <2>4. reap' \in [Pid -> Seq(Frames)]
    <3> DEFINE f == [victim |-> current, frees |-> FreeSteps]
    <3>1. f \in Frames BY <1>a DEF Frames
    <3>2. reap[next] \in Seq(Frames) BY DEF TypeOK
    <3>3. Append(reap[next], f) \in Seq(Frames)
      <4> HIDE DEF f
      <4> QED BY <3>1, <3>2, AppendProperties
    <3> QED BY <2>2, <3>3 DEF TypeOK
  <2>5. used' \subseteq Pid BY <1>19 DEF task_exit, TypeOK
  <2>6. TypeOK' BY <1>19, <2>2, <2>3, <2>4, <2>5 DEF task_exit, Goto, TypeOK, Place
  <2> QED BY <1>19, <2>6, SameGuards DEF task_exit
<1>20. CASE ReapFree
  <2>1. state' \in [Pid -> TaskState] /\ current' \in Pid /\ used' \subseteq Pid
    BY <1>20, <1>a, YieldType DEF ReapFree
  <2>2. reap' \in [Pid -> Seq(Frames)]
    <3> DEFINE s == reap[current]
               f == [s[Len(s)] EXCEPT !.frees = @ - 1]
    <3>1. s \in Seq(Frames) /\ Len(s) \in Nat \ {0} /\ s[Len(s)] \in Frames
      BY <1>20, TopFrame DEF ReapFree, Frame
    <3>2. f \in Frames
      <4>1. s[Len(s)].frees \in Nat /\ s[Len(s)].frees > 0
        BY <1>20, <3>1 DEF ReapFree, Frame, Frames
      <4>2. s[Len(s)] \in [victim : Pid, frees : Nat] BY <3>1 DEF Frames
      <4> HIDE DEF s
      <4> QED BY <4>1, <4>2 DEF Frames
    <3>3. [s EXCEPT ![Len(s)] = f] \in Seq(Frames)
      <4> HIDE DEF s, f
      <4> QED BY <3>1, <3>2, ExceptSeq
    <3>4. reap' = [reap EXCEPT ![current] = [s EXCEPT ![Len(s)] = f]]
      BY <1>20, <1>a DEF ReapFree, TypeOK
    <3> QED BY <3>3, <3>4, <1>a DEF TypeOK
  <2>3. TypeOK' BY <1>20, <2>1, <2>2 DEF ReapFree, TypeOK
  <2> QED BY <1>20, <2>3, SameGuards DEF ReapFree
<1>21. CASE ReapDone
  <2>1. Frame.victim \in Pid BY <1>21, TopFrame DEF ReapDone, Frames
  <2>2. right' \in [Pid -> Pid \union {None}] /\ left' \in [Pid -> Pid \union {None}]
    BY <1>21, <2>1 DEF ReapDone, list_erase_cycle, TypeOK
  <2>3. reap' \in [Pid -> Seq(Frames)]
    <3> DEFINE s == reap[current]
    <3>1. s \in Seq(Frames) /\ Len(s) \in Nat \ {0} BY <1>21, TopFrame DEF ReapDone
    <3>2. SubSeq(s, 1, Len(s) - 1) \in Seq(Frames)
      <4> HIDE DEF s
      <4>1. \A i \in 1 .. Len(s) - 1 : s[i] \in Frames BY <3>1, ElementOfSeq
      <4> QED BY <3>1, <4>1, SubSeqProperties
    <3> QED BY <1>21, <3>2 DEF ReapDone, TypeOK
  <2>4. TypeOK' BY <1>21, <2>2, <2>3 DEF ReapDone, TypeOK
  <2> QED BY <1>21, <2>4, SameGuards DEF ReapDone
<1>22. CASE UNCHANGED vars
  <2>1. TypeOK' BY <1>22 DEF vars, TypeOK
  <2> QED BY <1>22, <2>1, SameGuards DEF vars
<1> QED
  BY <1>1, <1>2, <1>3, <1>4, <1>5, <1>6, <1>7, <1>8, <1>9, <1>10, <1>11, <1>12, <1>13,
     <1>14, <1>15, <1>16, <1>17, <1>18, <1>19, <1>20, <1>21, <1>22
  DEF Next, Sleep, Event, Spawn, Destroy

LEMMA LockInvariant == Spec => []LockInv
BY LockInvInit, LockInvStep, PTL DEF Spec

\* Type correctness: among the rest, the counter of task_lock and the nesting
\* of the guards never go below zero, whatever the tasks do.
THEOREM TypeCorrect == Spec => []TypeOK
BY LockInvariant, PTL DEF LockInv

\* The counter that tasks_tick and task_unlock decide by is the number of open
\* guards of all tasks, for every number of tasks and every nesting.
THEOREM GuardsCounted == Spec => []LockCount
BY LockInvariant, PTL DEF LockInv, Counted

---------------------------------------------------------------------------
(* What choosing the next task does to the states of all tasks.            *)

Lasting == {"FREE", "TERMINATED", "WAITING"}

\* The walk started from the states st neither enters nor leaves a lasting
\* state, except for lazy_task, and frees only the pids of terminated tasks.
Walked(st) ==
  /\ \A p \in Pid \ {LAZY}, s \in Lasting : state'[p] = s <=> st[p] = s
  /\ state'[LAZY] \in {st[LAZY], "WAITING", "READY", "RUNNING"}
  /\ used' \subseteq used
  /\ \A p \in used \ used' : p \in Pid \ {LAZY} /\ st[p] = "TERMINATED"

\* RUNNING is the state of c at most.
OnlyRunner(st, c) == \A p \in Pid : st[p] = "RUNNING" => p = c

LEMMA LazyPid == LAZY \in Pid /\ KERNEL \in Pid /\ INT_WORKER \in Pid
BY SchedAssumption DEF Pid, LAZY, KERNEL, INT_WORKER

LEMMA WalkStates ==
  ASSUME NEW st \in [Pid -> TaskState], NEW c, NEW time
  PROVE  LET seen == _proc_task_state(st, c, time) IN
         /\ \A p \in Pid \ {LAZY}, s \in Lasting : seen[p] = s <=> st[p] = s
         /\ seen[LAZY] \in {st[LAZY], "WAITING"}
         /\ \A p \in Pid : seen[p] = "RUNNING" => st[p] = "RUNNING"
BY LazyPid DEF _proc_task_state, Lasting

LEMMA ErasedStates ==
  ASSUME NEW st, NEW c, NEW time, NEW p \in ErasedPids(st, c, time)
  PROVE  p # LAZY /\ st[p] = "TERMINATED"
BY DEF ErasedPids

\* A task in a lasting state is never chosen.
LEMMA NextStates ==
  ASSUME NEW st \in [Pid -> TaskState], NEW c, NEW time, NEW next \in Pid,
         next = sched_task_get_next(st, c, time)
  PROVE  next = LAZY \/ st[next] \in {"READY", "RUNNING", "SLEEPING"}
BY DEF sched_task_get_next, Runnable

LEMMA SwitchWalks ==
  ASSUME NEW st \in [Pid -> TaskState], NEW time, TypeOK, Switch(st, time)
  PROVE  /\ Walked(st)
         /\ state'[current'] = "RUNNING"
         /\ OnlyRunner(st, current) => OnlyRunner(state', current')
<1> DEFINE seen == _proc_task_state(st, current, time)
<1>1. PICK next \in Pid :
        /\ next = sched_task_get_next(st, current, time)
        /\ state' = [seen EXCEPT ![current] = IF @ = "RUNNING" THEN "READY" ELSE @,
                                 ![next] = "RUNNING"]
        /\ current' = next
  BY DEF Switch
<1>2. next = LAZY \/ st[next] \in {"READY", "RUNNING", "SLEEPING"} BY <1>1, NextStates
<1>3. seen \in [Pid -> TaskState] /\ current \in Pid BY WalkType DEF TypeOK
<1>4. \A p \in Pid : state'[p] = IF p = next THEN "RUNNING"
                                 ELSE IF p = current /\ seen[p] = "RUNNING" THEN "READY"
                                 ELSE seen[p]
  BY <1>1, <1>3
<1>5. \A p \in Pid \ {LAZY}, s \in Lasting : state'[p] = s <=> st[p] = s
  <2> TAKE p \in Pid \ {LAZY}, s \in Lasting
  <2>1. seen[p] = s <=> st[p] = s BY WalkStates
  <2> HIDE DEF seen
  <2>2. CASE p = next BY <2>2, <1>2, <1>4 DEF Lasting
  <2>3. CASE p # next BY <2>1, <2>3, <1>4 DEF Lasting
  <2> QED BY <2>2, <2>3
<1>6. state'[LAZY] \in {st[LAZY], "WAITING", "READY", "RUNNING"}
  BY <1>4, WalkStates, LazyPid
<1>7. /\ used' \subseteq used
      /\ \A p \in used \ used' : p \in Pid \ {LAZY} /\ st[p] = "TERMINATED"
  BY ErasedStates DEF Switch, TypeOK
<1>8. state'[current'] = "RUNNING" BY <1>1, <1>4
<1>9. ASSUME OnlyRunner(st, current) PROVE OnlyRunner(state', current')
  BY <1>9, <1>1, <1>4, WalkStates DEF OnlyRunner
<1> QED BY <1>5, <1>6, <1>7, <1>8, <1>9 DEF Walked

LEMMA StayWalks ==
  ASSUME NEW st \in [Pid -> TaskState], TypeOK, Stay(st)
  PROVE  Walked(st)
BY DEF Walked, Stay

LEMMA YieldWalks ==
  ASSUME NEW st \in [Pid -> TaskState], NEW n, TypeOK, YieldIfSkipped(st, n)
  PROVE  Walked(st)
BY SwitchWalks, StayWalks DEF YieldIfSkipped

---------------------------------------------------------------------------
(* Who is RUNNING.                                                         *)

\* The states st may be those of a machine whose current task is c.
RunsIn(st, c) == OnlyRunner(st, c) /\ st[c] \notin {"FREE", "TERMINATED"}

LEMMA SwitchRuns ==
  ASSUME NEW st \in [Pid -> TaskState], NEW time, TypeOK, Switch(st, time),
         OnlyRunner(st, current)
  PROVE  OneRunner'
BY SwitchWalks DEF OneRunner, OnlyRunner

LEMMA YieldRuns ==
  ASSUME NEW st \in [Pid -> TaskState], NEW n, TypeOK, YieldIfSkipped(st, n),
         RunsIn(st, current)
  PROVE  OneRunner'
<1>1. CASE Switch(st, now) BY <1>1, SwitchRuns DEF RunsIn
<1>2. CASE Stay(st) BY <1>2 DEF Stay, OneRunner, OnlyRunner, RunsIn
<1> QED BY <1>1, <1>2 DEF YieldIfSkipped

LEMMA RunnerStep == TypeOK /\ OneRunner /\ [Next]_vars => OneRunner'
<1> SUFFICES ASSUME TypeOK, OneRunner, [Next]_vars PROVE OneRunner'
  OBVIOUS
<1> USE SchedAssumption
<1>a. current \in Pid /\ state \in [Pid -> TaskState] BY DEF TypeOK
<1>b. RunsIn(state, current) BY DEF OneRunner, RunsIn, OnlyRunner
<1>c. INT_WORKER \in Pid BY LazyPid
<1>1. CASE Tick
  <2>1. CASE Switch(state, now') BY <2>1, <1>a, <1>b, SwitchRuns DEF RunsIn
  <2>2. CASE Stay(state) BY <2>2 DEF Stay, OneRunner
  <2>3. CASE /\ state' = _proc_task_state(state, current, now')
             /\ UNCHANGED current
    <3>1. \A p \in Pid : state'[p] = "RUNNING" => p = current'
      BY <2>3, <1>a, <1>b, WalkStates DEF RunsIn, OnlyRunner
    <3>2. state'[current'] \notin {"FREE", "TERMINATED"}
      BY <2>3, <1>a, <1>b, WalkStates DEF RunsIn, Lasting
    <3> QED BY <3>1, <3>2 DEF OneRunner
  <2> QED BY <1>1, <2>1, <2>2, <2>3 DEF Tick
<1>2. CASE task_lock BY <1>2 DEF task_lock, OneRunner
<1>3. CASE task_unlock BY <1>3, <1>a, <1>b, YieldRuns DEF task_unlock
<1>4. CASE HwWait BY <1>4, <1>a, <1>b, SwitchRuns DEF HwWait, RunsIn
<1>5. CASE HwDone BY <1>5 DEF HwDone, OneRunner
<1>6. CASE SleepState BY <1>6, <1>a, <1>b DEF SleepState, OneRunner
<1>7. CASE SleepDeadline BY <1>7 DEF SleepDeadline, OneRunner
<1>8. CASE SleepYield BY <1>8, <1>a, <1>b, SwitchRuns DEF SleepYield, RunsIn
<1>9. CASE SleepReturn BY <1>9 DEF SleepReturn, OneRunner
<1>10. CASE task_event_add
  <2> DEFINE st == [state EXCEPT ![current] = "WAITING"]
  <2>1. st \in [Pid -> TaskState] /\ RunsIn(st, current)
    BY <1>a, <1>b DEF RunsIn, OnlyRunner, TaskState
  <2>2. YieldIfSkipped(st, locked) BY <1>10 DEF task_event_add
  <2> HIDE DEF st
  <2> QED BY <2>1, <2>2, YieldRuns
<1>11. CASE EventYield BY <1>11, <1>a, <1>b, SwitchRuns DEF EventYield, RunsIn
<1>12. CASE task_event_flush
  <2> DEFINE st == [p \in Pid |-> IF p \in waiters THEN "READY" ELSE state[p]]
  <2>1. st \in [Pid -> TaskState] /\ RunsIn(st, current)
    BY <1>a, <1>b DEF RunsIn, OnlyRunner, TaskState
  <2>2. YieldIfSkipped(st, locked) BY <1>12 DEF task_event_flush
  <2> HIDE DEF st
  <2> QED BY <2>1, <2>2, YieldRuns
<1>13. CASE DeviceIrq BY <1>13, <1>a, <1>c DEF DeviceIrq, OneRunner
<1>14. CASE IntWorkerLoop
  <2> DEFINE st == [state EXCEPT ![INT_WORKER] = "WAITING"]
  <2>1. st \in [Pid -> TaskState] /\ OnlyRunner(st, current)
    BY <1>a, <1>b, <1>c DEF RunsIn, OnlyRunner, TaskState
  <2>2. Stay(state) \/ Switch(st, now) BY <1>14 DEF IntWorkerLoop
  <2>3. CASE Stay(state) BY <2>3 DEF Stay, OneRunner
  <2>4. CASE Switch(st, now)
    <3> HIDE DEF st
    <3> QED BY <2>1, <2>4, SwitchRuns
  <2> QED BY <2>2, <2>3, <2>4
<1>15. CASE SpawnSlot
  <2>1. current' = current /\ \E p \in Pid : state' = [state EXCEPT ![p] = "READY"]
    BY <1>15 DEF SpawnSlot
  <2> QED BY <2>1, <1>a DEF OneRunner
<1>16. CASE SpawnAllocate BY <1>16, <1>a, <1>b, YieldRuns DEF SpawnAllocate
<1>17. CASE SpawnNeighbour BY <1>17 DEF SpawnNeighbour, OneRunner
<1>18. CASE sched_task_add_new BY <1>18 DEF sched_task_add_new, OneRunner
<1>19. CASE task_exit
  <2> DEFINE st == [state EXCEPT ![current] = "TERMINATED"]
  <2>1. st \in [Pid -> TaskState] BY <1>a DEF TaskState
  <2>2. \A p \in Pid : st[p] # "RUNNING" BY <1>a, <1>b DEF RunsIn, OnlyRunner
  <2>3. PICK next \in Pid : /\ state' = [_proc_task_state(st, current, now) EXCEPT ![next] = "RUNNING"]
                            /\ current' = next
    BY <1>19 DEF task_exit
  <2> HIDE DEF st
  <2>4. \A p \in Pid : _proc_task_state(st, current, now)[p] # "RUNNING"
    BY <2>1, <2>2, WalkStates
  <2>5. _proc_task_state(st, current, now) \in [Pid -> TaskState] BY <2>1, WalkType
  <2> QED BY <2>3, <2>4, <2>5 DEF OneRunner
<1>20. CASE ReapFree BY <1>20, <1>a, <1>b, YieldRuns DEF ReapFree
<1>21. CASE ReapDone BY <1>21 DEF ReapDone, OneRunner
<1>22. CASE UNCHANGED vars BY <1>22 DEF vars, OneRunner
<1> QED
  BY <1>1, <1>2, <1>3, <1>4, <1>5, <1>6, <1>7, <1>8, <1>9, <1>10, <1>11, <1>12, <1>13,
     <1>14, <1>15, <1>16, <1>17, <1>18, <1>19, <1>20, <1>21, <1>22
  DEF Next, Sleep, Event, Spawn, Destroy

\* The RUNNING task is current_task and no other, and current_task is never a
\* task that has exited, whichever path of task.c chose it.
THEOREM RunnerIsCurrent == Spec => []OneRunner
<1>1. Init => OneRunner BY LazyPid DEF Init, OneRunner, Boot
<1> QED BY <1>1, RunnerStep, TypeCorrect, PTL DEF Spec

---------------------------------------------------------------------------
(* Slots, their states and the victims on the reapers' stacks.             *)

Alive(p) == at[p] \notin {"free", "dead"}

Life ==
  /\ at[LAZY] # "free" /\ at[INT_WORKER] # "free"
  /\ \A p \in Pid : p \notin used => ~Alive(p)
  /\ \A p \in Pid : at[p] = "free" => state[p] = "FREE"
  /\ \A p \in Pid : at[p] = "dead" <=> state[p] = "TERMINATED"
  /\ \A p \in Pid : at[p] = "dead" => p \in Mortals
  /\ \A p \in Pid : \A k \in 1 .. Len(reap[p]) : at[reap[p][k].victim] = "dead"

LEMMA CurrentAlive == TypeOK /\ OneRunner /\ Life => Alive(current)
BY DEF TypeOK, OneRunner, Life, Alive

\* Every victim of the next state is one of this state's.
VictimsKept ==
  \A p \in Pid : \A k \in 1 .. Len(reap'[p]) :
    \E q \in Pid : \E j \in 1 .. Len(reap[q]) : reap'[p][k].victim = reap[q][j].victim

\* A step in which only current_task moves, and stays alive.
Moves ==
  /\ \A p \in Pid \ {current} : at'[p] = at[p]
  /\ at'[current] \notin {"free", "dead"}
  /\ VictimsKept

SameEnds(st) == \A p \in Pid, s \in {"FREE", "TERMINATED"} : st[p] = s <=> state[p] = s

LEMMA LifeMoves ==
  ASSUME TypeOK, Life, Alive(current), Moves,
         NEW st \in [Pid -> TaskState], SameEnds(st), Walked(st)
  PROVE  Life'
<1> USE SchedAssumption, LazyPid
<1>a. current \in Pid BY DEF TypeOK
<1>b. LAZY \notin Mortals /\ INT_WORKER \notin Mortals BY SchedAssumption
<1>1. at'[LAZY] # "free" /\ at'[INT_WORKER] # "free" BY DEF Life, Moves
<1>2. ASSUME NEW p \in Pid, p \notin used' PROVE at'[p] \in {"free", "dead"}
  <2>1. CASE p \in used
    <3>1. st[p] = "TERMINATED" BY <1>2, <2>1 DEF Walked
    <3>2. at[p] = "dead" BY <3>1 DEF Life, SameEnds
    <3> QED BY <3>2 DEF Moves, Alive
  <2>2. CASE p \notin used BY <2>2 DEF Life, Moves, Alive
  <2> QED BY <2>1, <2>2
<1>3. ASSUME NEW p \in Pid \ {LAZY}, NEW s \in {"FREE", "TERMINATED"}
      PROVE  state'[p] = s <=> state[p] = s
  BY DEF Walked, SameEnds, Lasting
<1>4. state'[LAZY] # "TERMINATED"
  BY <1>b DEF Walked, SameEnds, Life
<1>5. \A p \in Pid : at'[p] = "free" => state'[p] = "FREE"
  BY <1>1, <1>3 DEF Moves, Life
<1>6. \A p \in Pid : at'[p] = "dead" <=> at[p] = "dead" BY DEF Moves, Alive
<1>7. \A p \in Pid : at'[p] = "dead" <=> state'[p] = "TERMINATED"
  BY <1>b, <1>3, <1>4, <1>6 DEF Life
<1>8. \A p \in Pid : \A k \in 1 .. Len(reap'[p]) : at'[reap'[p][k].victim] = "dead"
  <2> TAKE p \in Pid
  <2> TAKE k \in 1 .. Len(reap'[p])
  <2>1. PICK q \in Pid : \E j \in 1 .. Len(reap[q]) : reap'[p][k].victim = reap[q][j].victim
    BY DEF Moves, VictimsKept
  <2>2. PICK j \in 1 .. Len(reap[q]) : reap'[p][k].victim = reap[q][j].victim BY <2>1
  <2>3. reap[q][j] \in Frames
    <3>1. reap[q] \in Seq(Frames) BY DEF TypeOK
    <3> QED BY <3>1, ElementOfSeq
  <2>4. reap[q][j].victim \in Pid BY <2>3 DEF Frames
  <2> QED BY <1>6, <2>2, <2>4 DEF Life
<1> QED BY <1>1, <1>2, <1>5, <1>6, <1>7, <1>8 DEF Life, Alive

LEMMA SameVictims == UNCHANGED reap => VictimsKept
BY DEF VictimsKept

\* The frames of the next state are frames of this one, with the same victims.
FramesKept ==
  \A p \in Pid : \A k \in 1 .. Len(reap'[p]) :
    k \in 1 .. Len(reap[p]) /\ reap'[p][k].victim = reap[p][k].victim

LEMMA KeptVictims == FramesKept => VictimsKept
BY DEF FramesKept, VictimsKept

LEMMA ReapFreeFrames ==
  ASSUME TypeOK, ReapFree
  PROVE  FramesKept
<1>a. current \in Pid /\ reap \in [Pid -> Seq(Frames)] BY DEF TypeOK
<1> DEFINE s == reap[current]
           f == [s[Len(s)] EXCEPT !.frees = @ - 1]
<1>1. s \in Seq(Frames) /\ Len(s) \in Nat \ {0} /\ s[Len(s)] \in Frames
  BY <1>a, TopFrame DEF ReapFree, Frame
<1>2. reap' = [reap EXCEPT ![current] = [s EXCEPT ![Len(s)] = f]] BY <1>a DEF ReapFree
<1>3. f.victim = s[Len(s)].victim BY <1>1 DEF Frames
<1>4. s \in [1 .. Len(s) -> Frames] BY <1>1, LenProperties
<1>5. DOMAIN [s EXCEPT ![Len(s)] = f] = 1 .. Len(s) BY <1>4
<1> HIDE DEF f
<1>6. Len([s EXCEPT ![Len(s)] = f]) = Len(s) BY <1>1, <1>5
<1>7. \A k \in 1 .. Len(s) : [s EXCEPT ![Len(s)] = f][k].victim = s[k].victim
  BY <1>3, <1>4
<1> HIDE DEF s
<1>8. /\ reap'[current] = [s EXCEPT ![Len(s)] = f]
      /\ \A q \in Pid \ {current} : reap'[q] = reap[q]
  BY <1>a, <1>2
<1> QED BY <1>6, <1>7, <1>8 DEF s, FramesKept

LEMMA ReapDoneFrames ==
  ASSUME TypeOK, ReapDone
  PROVE  FramesKept /\ Len(reap'[current]) = Len(reap[current]) - 1
<1>a. current \in Pid /\ reap \in [Pid -> Seq(Frames)] BY DEF TypeOK
<1> DEFINE s == reap[current]
           n == Len(s) - 1
<1>1. s \in Seq(Frames) /\ Len(s) \in Nat \ {0} BY <1>a, TopFrame DEF ReapDone
<1>2. reap' = [reap EXCEPT ![current] = SubSeq(s, 1, n)] BY DEF ReapDone
<1>3. n \in Nat /\ \A i \in 1 .. n : i \in 1 .. Len(s) BY <1>1
<1> HIDE DEF s
<1>4. \A i \in 1 .. n : s[i] \in Frames BY <1>1, <1>3, ElementOfSeq
<1> HIDE DEF n
<1>5. /\ Len(SubSeq(s, 1, n)) = IF 1 <= n THEN n - 1 + 1 ELSE 0
      /\ \A i \in 1 .. n - 1 + 1 : SubSeq(s, 1, n)[i] = s[1 + i - 1]
  BY <1>3, <1>4, SubSeqProperties
<1>6. \A k \in 1 .. n : k \in 1 .. n - 1 + 1 /\ 1 + k - 1 = k BY <1>3
<1>7. \A k \in 1 .. n : SubSeq(s, 1, n)[k] = s[k] BY <1>5, <1>6
<1>8. Len(SubSeq(s, 1, n)) = n BY <1>3, <1>5
<1>9. /\ reap'[current] = SubSeq(s, 1, n)
      /\ \A p \in Pid \ {current} : reap'[p] = reap[p]
  BY <1>2, <1>a
<1> QED BY <1>3, <1>7, <1>8, <1>9 DEF FramesKept, s, n

\* Only tasks that may wait are on the event's list, and they are WAITING; the
\* running task is WAITING only between task_event_add and its yield.
Waits ==
  /\ waiters \subseteq Waiters
  /\ NoLostWaiter
  /\ state[current] = "WAITING" => current \in {LAZY, INT_WORKER} \/ at[current] = "event_added"

LEMMA LeastNat ==
  ASSUME NEW S \in SUBSET Nat, S # {}
  PROVE  Min(S) \in S /\ \A m \in S : Min(S) <= m
<1> DEFINE R == OpToRel(<, Nat)
<1>1. \A m, n \in Nat : m < n => <<m, n>> \in R BY DEF OpToRel
<1>2. IsWellFoundedOn(R, Nat) BY NatLessThanWellFounded
<1> HIDE DEF R
<1>3. PICK n \in S : \A m \in S : ~ (<<m, n>> \in R) BY <1>2, WFMin
<1>4. ASSUME NEW m \in S PROVE n <= m
  <2>1. m \in Nat /\ n \in Nat OBVIOUS
  <2>2. ~ (m < n) BY <1>1, <1>3, <2>1
  <2> QED BY <2>1, <2>2
<1> QED BY <1>3, <1>4 DEF Min

\* bitmap_alloc_interval returns a free bit, or the size of the bitmap.
LEMMA FreeSlot ==
  ASSUME NEW from \in Nat, FirstFree(from) # MAX_TASKS
  PROVE  FirstFree(from) \in Pid \ used
<1> DEFINE free == {p \in Pid : p >= from /\ p \notin used}
<1>1. free # {} /\ FirstFree(from) = Min(free) BY DEF FirstFree
<1>2. free \in SUBSET Nat BY DEF Pid
<1> HIDE DEF free
<1>3. Min(free) \in free BY <1>1, <1>2, LeastNat
<1> QED BY <1>1, <1>3 DEF free

LEMMA LifeStep ==
  ~LateSpawn /\ TypeOK /\ OneRunner /\ Waits /\ Life /\ [Next]_vars => Life'
<1> SUFFICES ASSUME ~LateSpawn, TypeOK, OneRunner, Waits, Life, [Next]_vars PROVE Life'
  OBVIOUS
<1> USE SchedAssumption
<1> USE DEF ring, slots, spawning
<1>a. current \in Pid /\ state \in [Pid -> TaskState] /\ at \in [Pid -> Place] BY DEF TypeOK
<1>b. Alive(current) BY CurrentAlive
<1>c. SameEnds(state) BY DEF SameEnds
<1>d. ASSUME Walked(state), UNCHANGED <<at, reap>> PROVE Life'
  <2>1. Moves BY <1>b, <1>d, SameVictims DEF Moves, Alive
  <2> QED BY <1>a, <1>b, <1>c, <1>d, <2>1, LifeMoves
<1>e. ASSUME Walked(state), NEW place \in Place \ {"free", "dead"}, Goto(place), UNCHANGED reap
      PROVE Life'
  <2>1. Moves BY <1>a, <1>e, SameVictims DEF Moves, Goto
  <2> QED BY <1>a, <1>b, <1>c, <1>e, <2>1, LifeMoves
<1>f. UNCHANGED <<state, current, used>> => Walked(state) BY <1>a, StayWalks DEF Stay
<1>g. /\ "run" \in Place \ {"free", "dead"} /\ "hw" \in Place \ {"free", "dead"}
      /\ "asleep" \in Place \ {"free", "dead"} /\ "sleep_due" \in Place \ {"free", "dead"}
      /\ "link_read" \in Place \ {"free", "dead"} /\ "link_write" \in Place \ {"free", "dead"}
  BY DEF Place
<1>1. CASE Tick
  <2>1. CASE Switch(state, now') BY <2>1, <1>1, <1>a, <1>d, SwitchWalks DEF Tick
  <2>2. CASE Stay(state) BY <2>2, <1>1, <1>a, <1>d, StayWalks DEF Tick
  <2>3. CASE /\ state' = _proc_task_state(state, current, now')
             /\ used' = used \ ErasedPids(state, current, now')
    <3>1. Walked(state)
      <4>1. \A p \in used \ used' : p \in Pid \ {LAZY} /\ state[p] = "TERMINATED"
        BY <2>3, ErasedStates DEF TypeOK
      <4>2. used' \subseteq used BY <2>3
      <4> QED BY <2>3, <1>a, <4>1, <4>2, WalkStates DEF Walked
    <3> QED BY <1>1, <3>1, <1>d DEF Tick
  <2> QED BY <1>1, <2>1, <2>2, <2>3 DEF Tick
<1>2. CASE task_lock BY <1>2, <1>d, <1>f DEF task_lock
<1>3. CASE task_unlock BY <1>3, <1>a, <1>d, YieldWalks DEF task_unlock
<1>4. CASE HwWait BY <1>4, <1>a, <1>e, <1>g, SwitchWalks DEF HwWait
<1>5. CASE HwDone BY <1>5, <1>e, <1>f, <1>g DEF HwDone
<1>6. CASE SleepState
  <2> DEFINE st == [state EXCEPT ![current] = "SLEEPING"]
  <2>1. st \in [Pid -> TaskState] /\ Stay(st) BY <1>6, <1>a DEF SleepState, Stay, TaskState
  <2>2. SameEnds(st)
    BY <1>a, <1>b DEF SameEnds, Life, OneRunner
  <2>3. Moves BY <1>6, <1>a, SameVictims DEF SleepState, Goto, Moves
  <2> HIDE DEF st
  <2> QED BY <2>1, <2>2, <2>3, <1>b, StayWalks, LifeMoves
<1>7. CASE SleepDeadline BY <1>7, <1>e, <1>f, <1>g DEF SleepDeadline
<1>8. CASE SleepYield BY <1>8, <1>a, <1>e, <1>g, SwitchWalks DEF SleepYield
<1>9. CASE SleepReturn BY <1>9, <1>e, <1>f, <1>g DEF SleepReturn
<1>10. CASE task_event_add
  <2> DEFINE st == [state EXCEPT ![current] = "WAITING"]
  <2>1. st \in [Pid -> TaskState] /\ YieldIfSkipped(st, locked)
    BY <1>10, <1>a DEF task_event_add, TaskState
  <2>2. SameEnds(st) BY <1>a DEF SameEnds, OneRunner
  <2>3. Moves BY <1>10, <1>a, SameVictims DEF task_event_add, Goto, Moves
  <2> HIDE DEF st
  <2> QED BY <2>1, <2>2, <2>3, <1>b, YieldWalks, LifeMoves
<1>11. CASE EventYield BY <1>11, <1>a, <1>e, <1>g, SwitchWalks DEF EventYield
<1>12. CASE task_event_flush
  <2> DEFINE st == [p \in Pid |-> IF p \in waiters THEN "READY" ELSE state[p]]
  <2>1. st \in [Pid -> TaskState] /\ YieldIfSkipped(st, locked)
    BY <1>12, <1>a DEF task_event_flush, TaskState
  <2>2. \A p \in waiters : state[p] = "WAITING"
    BY DEF Waits, NoLostWaiter, TypeOK
  <2>3. SameEnds(st) BY <2>2 DEF SameEnds
  <2>4. Moves BY <1>12, <1>b, SameVictims DEF task_event_flush, Moves, Alive
  <2> HIDE DEF st
  <2> QED BY <2>1, <2>3, <2>4, <1>b, YieldWalks, LifeMoves
<1>13. CASE DeviceIrq
  <2> DEFINE st == [state EXCEPT ![INT_WORKER] = "READY"]
  <2>1. st \in [Pid -> TaskState] /\ Stay(st) BY <1>13, <1>a DEF DeviceIrq, Stay, TaskState
  <2>2. state[INT_WORKER] # "TERMINATED" BY LazyPid DEF Life
  <2>3. Walked(st) BY <2>1, StayWalks
  <2> QED BY <1>13, <1>a, <2>2, LazyPid DEF DeviceIrq, Life, Alive
<1>14. CASE IntWorkerLoop
  <2> DEFINE st == [state EXCEPT ![INT_WORKER] = "WAITING"]
  <2>1. CASE Stay(state) BY <2>1, <1>14, <1>a, <1>d, StayWalks DEF IntWorkerLoop
  <2>2. CASE Switch(st, now)
    <3>1. st \in [Pid -> TaskState] BY <1>a DEF TaskState
    <3>2. SameEnds(st) BY <1>14, <1>a DEF IntWorkerLoop, Idle, SameEnds, OneRunner
    <3>3. Moves BY <1>14, <1>b, SameVictims DEF IntWorkerLoop, Moves, Alive
    <3> HIDE DEF st
    <3> QED BY <2>2, <3>1, <3>2, <3>3, <1>b, SwitchWalks, LifeMoves
  <2> QED BY <1>14, <2>1, <2>2 DEF IntWorkerLoop
<1>15. CASE SpawnSlot
  <2>1. PICK p \in Pid :
          /\ p = _tasks_get_free_id
          /\ used' = used \union {p}
          /\ state' = [state EXCEPT ![p] = "READY"]
          /\ at' = [at EXCEPT ![current] = "prefix", ![p] = "run"]
          /\ reap' = [reap EXCEPT ![p] = <<>>]
    BY <1>15 DEF SpawnSlot
  <2>2. \A q \in Pid : at[q] # "dead" BY <1>15 DEF SpawnSlot
  <2>3. \A q \in Pid : /\ at'[q] \in {at[q], "prefix", "run"}
                       /\ q \in {p, current} => at'[q] \notin {"free", "dead"}
    BY <2>1, <1>a
  <2>4. \A q \in Pid : q \notin used' => at'[q] \in {"free", "dead"}
    BY <2>1, <2>3, <1>a, <1>b DEF Life, Alive
  <2>5. \A q \in Pid : at'[q] = "free" => state'[q] = "FREE"
    BY <2>1, <2>3, <1>a DEF Life
  <2>6. \A q \in Pid : at'[q] # "dead" /\ state'[q] # "TERMINATED"
    BY <2>1, <2>2, <2>3, <1>a DEF Life
  <2>7. \A q \in Pid : Len(reap'[q]) = 0
    <3>1. \A q \in Pid : \A k \in 1 .. Len(reap[q]) : FALSE
      <4> SUFFICES ASSUME NEW q \in Pid, NEW k \in 1 .. Len(reap[q]) PROVE FALSE
        OBVIOUS
      <4>1. reap[q] \in Seq(Frames) BY DEF TypeOK
      <4>2. reap[q][k] \in Frames BY <4>1, ElementOfSeq
      <4>3. reap[q][k].victim \in Pid BY <4>2 DEF Frames
      <4> QED BY <2>2, <4>3 DEF Life
    <3>2. \A q \in Pid : Len(reap[q]) \in Nat BY LenProperties DEF TypeOK
    <3>3. \A q \in Pid : Len(reap[q]) = 0 BY <3>1, <3>2
    <3>4. Len(<<>>) = 0 BY EmptySeq
    <3> QED BY <2>1, <3>3, <3>4 DEF TypeOK
  <2>8. at'[LAZY] # "free" /\ at'[INT_WORKER] # "free" BY <2>3, LazyPid DEF Life
  <2> QED BY <2>4, <2>5, <2>6, <2>7, <2>8 DEF Life, Alive
<1>16. CASE SpawnAllocate BY <1>16, <1>a, <1>e, <1>g, YieldWalks DEF SpawnAllocate
<1>17. CASE SpawnNeighbour BY <1>17, <1>e, <1>f, <1>g DEF SpawnNeighbour
<1>18. CASE sched_task_add_new BY <1>18, <1>e, <1>f, <1>g DEF sched_task_add_new
<1>19. CASE task_exit
  <2> DEFINE st == [state EXCEPT ![current] = "TERMINATED"]
             f == [victim |-> current, frees |-> FreeSteps]
  <2>1. st \in [Pid -> TaskState] /\ st[current] = "TERMINATED" BY <1>a DEF TaskState
  <2>2. current \in Mortals /\ current # LAZY /\ current # INT_WORKER
    BY <1>19 DEF task_exit, Idle
  <2>3. PICK next \in Pid :
          /\ next = sched_task_get_next(st, current, now)
          /\ state' = [_proc_task_state(st, current, now) EXCEPT ![next] = "RUNNING"]
          /\ reap' = [reap EXCEPT ![next] = Append(@, f)]
    BY <1>19 DEF task_exit
  <2>4. used' = used \ ErasedPids(st, current, now) /\ at' = [at EXCEPT ![current] = "dead"]
    BY <1>19 DEF task_exit, Goto
  <2>5. \A p \in Pid \ {current} : st[p] = state[p] BY <1>a
  <2>6. \A p \in Pid : at'[p] = IF p = current THEN "dead" ELSE at[p] BY <2>4, <1>a
  <2> HIDE DEF st
  <2>7. _proc_task_state(st, current, now) \in [Pid -> TaskState] BY <2>1, WalkType
  <2>8. next = LAZY \/ st[next] \in {"READY", "RUNNING", "SLEEPING"} BY <2>1, <2>3, NextStates
  <2>9. ASSUME NEW p \in Pid \ {LAZY}, NEW s \in {"FREE", "TERMINATED"}
        PROVE  state'[p] = s <=> st[p] = s
    <3>1. _proc_task_state(st, current, now)[p] = s <=> st[p] = s
      BY <2>1, WalkStates DEF Lasting
    <3> QED BY <2>3, <2>7, <2>8, <3>1
  <2>10. state'[LAZY] # "TERMINATED"
    <3>1. st[LAZY] # "TERMINATED" BY <2>2, <2>5, LazyPid DEF Life
    <3> QED BY <2>1, <2>3, <2>7, <3>1, WalkStates, LazyPid
  <2>11. \A p \in Pid : p \notin used' => at'[p] \in {"free", "dead"}
    <3> SUFFICES ASSUME NEW p \in Pid, p \notin used', p # current
                 PROVE  at[p] \in {"free", "dead"}
      BY <2>6
    <3>1. CASE p \in used
      <4>1. st[p] = "TERMINATED" BY <2>4, <3>1, ErasedStates
      <4> QED BY <2>5, <4>1 DEF Life
    <3>2. CASE p \notin used BY <3>2 DEF Life, Alive
    <3> QED BY <3>1, <3>2
  <2>12. \A p \in Pid : at'[p] = "free" => state'[p] = "FREE"
    BY <2>5, <2>6, <2>9, LazyPid DEF Life
  <2>13. \A p \in Pid : at'[p] = "dead" <=> state'[p] = "TERMINATED"
    BY <2>1, <2>2, <2>5, <2>6, <2>9, <2>10, LazyPid DEF Life
  <2>14. \A p \in Pid : \A k \in 1 .. Len(reap'[p]) : at'[reap'[p][k].victim] = "dead"
    <3>1. f \in Frames /\ f.victim = current BY <1>a DEF Frames
    <3> HIDE DEF f
    <3> TAKE p \in Pid
    <3>2. reap[p] \in Seq(Frames) BY DEF TypeOK
    <3>3. ASSUME NEW k \in 1 .. Len(reap[p]) PROVE at'[reap[p][k].victim] = "dead"
      <4>1. reap[p][k] \in Frames BY <3>2, ElementOfSeq
      <4>2. reap[p][k].victim \in Pid BY <4>1 DEF Frames
      <4> QED BY <4>2, <2>6 DEF Life
    <3>4. CASE p # next BY <2>3, <3>3, <3>4 DEF TypeOK
    <3>5. CASE p = next
      <4>1. reap'[p] = Append(reap[p], f) BY <2>3, <3>5 DEF TypeOK
      <4>2. /\ Len(reap'[p]) = Len(reap[p]) + 1 /\ Len(reap[p]) \in Nat
            /\ \A k \in 1 .. Len(reap[p]) : reap'[p][k] = reap[p][k]
            /\ reap'[p][Len(reap[p]) + 1] = f
        BY <3>1, <3>2, <4>1, AppendProperties, LenProperties
      <4> TAKE k \in 1 .. Len(reap'[p])
      <4>3. CASE k \in 1 .. Len(reap[p]) BY <3>3, <4>2, <4>3
      <4>4. CASE k = Len(reap[p]) + 1 BY <2>6, <3>1, <4>2, <4>4, <1>a
      <4> QED BY <4>2, <4>3, <4>4
    <3> QED BY <3>4, <3>5
  <2> QED BY <2>2, <2>6, <2>11, <2>12, <2>13, <2>14, LazyPid DEF Life, Alive
<1>20. CASE ReapFree
  <2>1. Walked(state) BY <1>20, <1>a, YieldWalks DEF ReapFree
  <2>2. VictimsKept BY <1>20, ReapFreeFrames, KeptVictims
  <2>3. Moves BY <1>20, <1>b, <2>2 DEF ReapFree, Moves, Alive
  <2> QED BY <2>1, <2>3, <1>a, <1>b, <1>c, LifeMoves
<1>21. CASE ReapDone
  <2>1. Frame.victim \in Pid /\ at[Frame.victim] = "dead"
    <3>1. Frame = reap[current][Len(reap[current])] /\ Frame \in Frames
          /\ Len(reap[current]) \in Nat \ {0}
      BY <1>21, TopFrame DEF ReapDone, Frame
    <3> QED BY <3>1, <1>a DEF Life, Frames
  <2>2. used' = used \ {Frame.victim} /\ UNCHANGED <<state, at>> BY <1>21 DEF ReapDone
  <2>3. FramesKept BY <1>21, ReapDoneFrames
  <2>4. \A p \in Pid : \A k \in 1 .. Len(reap'[p]) : at'[reap'[p][k].victim] = "dead"
    BY <2>2, <2>3 DEF Life, FramesKept
  <2> QED BY <2>1, <2>2, <2>4 DEF Life, Alive
<1>22. CASE UNCHANGED vars BY <1>22, <1>d, <1>f DEF vars
<1> QED
  BY <1>1, <1>2, <1>3, <1>4, <1>5, <1>6, <1>7, <1>8, <1>9, <1>10, <1>11, <1>12, <1>13,
     <1>14, <1>15, <1>16, <1>17, <1>18, <1>19, <1>20, <1>21, <1>22
  DEF Next, Sleep, Event, Spawn, Destroy

---------------------------------------------------------------------------
(* Who is WAITING.                                                         *)

LEMMA WaitMoves ==
  ASSUME NEW st \in [Pid -> TaskState], Walked(st), waiters' \subseteq Waiters,
         \A p \in Pid \ {LAZY, INT_WORKER} : st[p] = "WAITING" <=> p \in waiters'
  PROVE  waiters' \subseteq Waiters /\ NoLostWaiter'
BY DEF Walked, NoLostWaiter, Lasting

\* After a switch the current task is RUNNING.
LEMMA SwitchWaits ==
  ASSUME NEW st \in [Pid -> TaskState], NEW time, TypeOK, Switch(st, time),
         waiters' \subseteq Waiters,
         \A p \in Pid \ {LAZY, INT_WORKER} : st[p] = "WAITING" <=> p \in waiters'
  PROVE  Waits'
BY SwitchWalks, WaitMoves DEF Waits

\* Nothing that Waits speaks of changes, or the current task is not WAITING.
LEMMA StayWaits ==
  ASSUME NEW st \in [Pid -> TaskState], TypeOK, Stay(st),
         waiters' \subseteq Waiters,
         \A p \in Pid \ {LAZY, INT_WORKER} : st[p] = "WAITING" <=> p \in waiters',
         st[current] = "WAITING" => current \in {LAZY, INT_WORKER} \/ at'[current] = "event_added"
  PROVE  Waits'
BY StayWalks, WaitMoves DEF Waits, Stay

LEMMA YieldWaits ==
  ASSUME NEW st \in [Pid -> TaskState], NEW n, TypeOK, YieldIfSkipped(st, n),
         waiters' \subseteq Waiters,
         \A p \in Pid \ {LAZY, INT_WORKER} : st[p] = "WAITING" <=> p \in waiters',
         st[current] = "WAITING" => current \in {LAZY, INT_WORKER} \/ at'[current] = "event_added"
  PROVE  Waits'
BY SwitchWaits, StayWaits DEF YieldIfSkipped

LEMMA WaitsStep ==
  ~LateSpawn /\ TypeOK /\ OneRunner /\ Life /\ Waits /\ [Next]_vars => Waits'
<1> SUFFICES ASSUME ~LateSpawn, TypeOK, OneRunner, Life, Waits, [Next]_vars PROVE Waits'
  OBVIOUS
<1> USE SchedAssumption
<1> USE DEF ring, slots, spawning
<1>a. current \in Pid /\ state \in [Pid -> TaskState] /\ at \in [Pid -> Place] BY DEF TypeOK
<1>b. /\ waiters \subseteq Waiters
      /\ \A p \in Pid \ {LAZY, INT_WORKER} : state[p] = "WAITING" <=> p \in waiters
  BY DEF Waits, NoLostWaiter
<1>c. LAZY \notin Waiters /\ INT_WORKER \notin Waiters BY SchedAssumption
<1>d. at[current] # "event_added" => state[current] # "WAITING" \/ current \in {LAZY, INT_WORKER}
  BY DEF Waits
<1>e. ASSUME Switch(state, now) \/ Switch(state, now'), UNCHANGED waiters PROVE Waits'
  BY <1>a, <1>b, <1>e, SwitchWaits
<1>f. ASSUME UNCHANGED <<state, current, used, waiters>>, at[current] # "event_added"
      PROVE  Waits'
  BY <1>a, <1>b, <1>d, <1>f, StayWaits DEF Stay
<1>g. ASSUME NEW n, YieldIfSkipped(state, n), UNCHANGED waiters, at[current] # "event_added"
      PROVE  Waits'
  BY <1>a, <1>b, <1>d, <1>g, YieldWaits
<1>1. CASE Tick
  <2>1. CASE Switch(state, now') BY <2>1, <1>1, <1>e DEF Tick
  <2>2. CASE Stay(state) BY <2>2, <1>1, <1>a, <1>b, StayWaits DEF Tick, Waits
  <2>3. CASE /\ state' = _proc_task_state(state, current, now')
             /\ UNCHANGED current
    <3>1. \A p \in Pid \ {LAZY} : state'[p] = "WAITING" <=> state[p] = "WAITING"
      BY <2>3, <1>a, WalkStates DEF Lasting
    <3> QED BY <1>1, <2>3, <3>1, <1>a, <1>b DEF Tick, Waits, NoLostWaiter
  <2> QED BY <1>1, <2>1, <2>2, <2>3 DEF Tick
<1>2. CASE task_lock BY <1>2, <1>f DEF task_lock, Idle, At
<1>3. CASE task_unlock BY <1>3, <1>g DEF task_unlock, At
<1>4. CASE HwWait BY <1>4, <1>e DEF HwWait
<1>5. CASE HwDone BY <1>5, <1>f DEF HwDone, At
<1>6. CASE SleepState
  <2> DEFINE st == [state EXCEPT ![current] = "SLEEPING"]
  <2>1. st \in [Pid -> TaskState] /\ Stay(st) /\ st[current] # "WAITING"
    BY <1>6, <1>a DEF SleepState, Stay, TaskState
  <2>2. state[current] # "WAITING" \/ current \in {LAZY, INT_WORKER}
    BY <1>6, <1>d DEF SleepState, Idle, At
  <2>3. \A p \in Pid \ {LAZY, INT_WORKER} : st[p] = "WAITING" <=> p \in waiters'
    BY <1>6, <1>a, <1>b, <2>2 DEF SleepState
  <2>4. waiters' \subseteq Waiters BY <1>6, <1>b DEF SleepState
  <2> HIDE DEF st
  <2> QED BY <2>1, <2>3, <2>4, StayWaits
<1>7. CASE SleepDeadline BY <1>7, <1>f DEF SleepDeadline, At
<1>8. CASE SleepYield BY <1>8, <1>e DEF SleepYield
<1>9. CASE SleepReturn BY <1>9, <1>f DEF SleepReturn, At
<1>10. CASE task_event_add
  <2> DEFINE st == [state EXCEPT ![current] = "WAITING"]
  <2>1. st \in [Pid -> TaskState] /\ YieldIfSkipped(st, locked)
    BY <1>10, <1>a DEF task_event_add, TaskState
  <2>2. waiters' = waiters \union {current} /\ current \in Waiters
    BY <1>10 DEF task_event_add, Idle
  <2>3. \A p \in Pid \ {LAZY, INT_WORKER} : st[p] = "WAITING" <=> p \in waiters'
    BY <1>a, <1>b, <2>2
  <2>4. at'[current] = "event_added" BY <1>10, <1>a DEF task_event_add, Goto
  <2> HIDE DEF st
  <2> QED BY <2>1, <2>2, <2>3, <2>4, <1>b, YieldWaits
<1>11. CASE EventYield BY <1>11, <1>e DEF EventYield
<1>12. CASE task_event_flush
  <2> DEFINE st == [p \in Pid |-> IF p \in waiters THEN "READY" ELSE state[p]]
  <2>1. st \in [Pid -> TaskState] /\ YieldIfSkipped(st, locked) /\ waiters' = {}
    BY <1>12, <1>a DEF task_event_flush, TaskState
  <2>2. \A p \in Pid \ {LAZY, INT_WORKER} : st[p] # "WAITING" BY <1>b
  <2>3. st[current] = "WAITING" => current \in {LAZY, INT_WORKER} BY <1>a, <2>2
  <2> HIDE DEF st
  <2> QED BY <2>1, <2>2, <2>3, YieldWaits
<1>13. CASE DeviceIrq
  <2>1. /\ \A p \in Pid \ {INT_WORKER} : state'[p] = state[p]
        /\ UNCHANGED <<current, waiters, at>>
    BY <1>13, <1>a DEF DeviceIrq
  <2> QED BY <2>1, <1>a, <1>b, LazyPid DEF Waits, NoLostWaiter
<1>14. CASE IntWorkerLoop
  <2> DEFINE st == [state EXCEPT ![INT_WORKER] = "WAITING"]
  <2>1. CASE Stay(state) BY <2>1, <1>14, <1>f DEF IntWorkerLoop, Idle, At, Stay
  <2>2. CASE Switch(st, now)
    <3>1. st \in [Pid -> TaskState] /\ waiters' = waiters BY <1>14, <1>a DEF IntWorkerLoop, TaskState
    <3>2. \A p \in Pid \ {LAZY, INT_WORKER} : st[p] = "WAITING" <=> p \in waiters
      BY <1>a, <1>b
    <3> HIDE DEF st
    <3> QED BY <2>2, <3>1, <3>2, <1>b, SwitchWaits
  <2> QED BY <1>14, <2>1, <2>2 DEF IntWorkerLoop
<1>15. CASE SpawnSlot
  <2>1. PICK p \in Pid :
          /\ p = _tasks_get_free_id
          /\ used' = used \union {p}
          /\ state' = [state EXCEPT ![p] = "READY"]
    BY <1>15 DEF SpawnSlot
  <2>2. p \notin used
    <3>1. p # MAX_TASKS BY DEF Pid
    <3>2. p \in {FirstFree(prId), FirstFree(0)} BY <2>1 DEF _tasks_get_free_id
    <3>3. prId \in Nat BY DEF TypeOK, Pid
    <3> QED BY <3>1, <3>2, <3>3, FreeSlot
  <2>3. at[p] = "free"
    BY <2>2, <1>15 DEF SpawnSlot, Life, Alive
  <2>4. p \notin waiters BY <2>3, <1>b, LazyPid DEF Life
  <2>5. UNCHANGED <<current, waiters>> /\ at[current] = "run" BY <1>15 DEF SpawnSlot, Idle, At
  <2>6. state'[current] # "WAITING" \/ current \in {LAZY, INT_WORKER}
    BY <2>1, <2>5, <1>a, <1>d
  <2> QED BY <2>1, <2>4, <2>5, <2>6, <1>a, <1>b DEF Waits, NoLostWaiter
<1>16. CASE SpawnAllocate BY <1>16, <1>g DEF SpawnAllocate, At
<1>17. CASE SpawnNeighbour BY <1>17, <1>f DEF SpawnNeighbour, At
<1>18. CASE sched_task_add_new BY <1>18, <1>f DEF sched_task_add_new, At
<1>19. CASE task_exit
  <2> DEFINE st == [state EXCEPT ![current] = "TERMINATED"]
             seen == _proc_task_state(st, current, now)
  <2>1. st \in [Pid -> TaskState] BY <1>a DEF TaskState
  <2>2. current \notin {LAZY, INT_WORKER} /\ state[current] # "WAITING" /\ waiters' = waiters
    BY <1>19, <1>d DEF task_exit, Idle, At
  <2>3. \A p \in Pid \ {LAZY, INT_WORKER} : st[p] = "WAITING" <=> p \in waiters
    BY <2>2, <1>a, <1>b
  <2>4. PICK next \in Pid :
          /\ next = sched_task_get_next(st, current, now)
          /\ state' = [seen EXCEPT ![next] = "RUNNING"]
          /\ current' = next
    BY <1>19 DEF task_exit
  <2> HIDE DEF st
  <2>5. next = LAZY \/ st[next] # "WAITING" BY <2>1, <2>4, NextStates
  <2>6. \A p \in Pid \ {LAZY} : seen[p] = "WAITING" <=> st[p] = "WAITING"
    BY <2>1, WalkStates DEF Lasting
  <2>7. seen \in [Pid -> TaskState] BY <2>1, WalkType
  <2> HIDE DEF seen
  <2>8. \A p \in Pid \ {LAZY} : state'[p] = "WAITING" <=> st[p] = "WAITING"
    BY <2>4, <2>5, <2>6, <2>7
  <2>9. state'[current'] = "RUNNING" BY <2>4, <2>7
  <2> QED BY <1>b, <2>2, <2>3, <2>8, <2>9 DEF Waits, NoLostWaiter
<1>20. CASE ReapFree
  <2>1. CASE Switch(state, now) BY <1>20, <2>1, <1>e DEF ReapFree
  <2>2. CASE Stay(state) BY <1>20, <2>2, <1>a, <1>b, StayWaits DEF ReapFree, Waits
  <2> QED BY <1>20, <2>1, <2>2 DEF ReapFree, YieldIfSkipped
<1>21. CASE ReapDone
  <2>1. Frame \in Frames /\ Frame = reap[current][Len(reap[current])]
        /\ Len(reap[current]) \in Nat \ {0}
    BY <1>21, TopFrame DEF ReapDone, Frame
  <2>2. at[Frame.victim] = "dead" BY <2>1, <1>a DEF Life
  <2>3. Frame.victim \in Pid BY <2>1 DEF Frames
  <2>4. Frame.victim \notin waiters BY <2>2, <2>3, <1>b, <1>c DEF Life
  <2>5. waiters' = waiters BY <1>21, <2>4 DEF ReapDone
  <2>6. UNCHANGED <<state, current, at>> BY <1>21 DEF ReapDone
  <2> QED BY <2>5, <2>6, <1>b DEF Waits, NoLostWaiter
<1>22. CASE UNCHANGED vars BY <1>22 DEF vars, Waits, NoLostWaiter
<1> QED
  BY <1>1, <1>2, <1>3, <1>4, <1>5, <1>6, <1>7, <1>8, <1>9, <1>10, <1>11, <1>12, <1>13,
     <1>14, <1>15, <1>16, <1>17, <1>18, <1>19, <1>20, <1>21, <1>22
  DEF Next, Sleep, Event, Spawn, Destroy

---------------------------------------------------------------------------
(* Who holds a guard without the processor.                                *)

\* Places no task is at with a guard open.
Bare == {"free", "dead", "sleep_set", "sleep_due", "event_added"}

Guarded == (\A p \in Pid : at[p] \in Bare => depth[p] = 0) /\ HoldersRunOrWait

\* The counter at zero: no guard is open.
LEMMA NoGuards ==
  ASSUME NEW d \in [Pid -> Nat], NEW S, S = UNION {{p} \X (1 .. d[p]) : p \in Pid},
         IsFiniteSet(S), Cardinality(S) = 0
  PROVE  \A p \in Pid : d[p] = 0
<1>1. S = {} BY FS_EmptySet
<1>2. ASSUME NEW p \in Pid, d[p] # 0 PROVE FALSE
  <2>1. <<p, 1>> \in {p} \X (1 .. d[p]) BY <1>2
  <2> QED BY <1>1, <2>1
<1> QED BY <1>2

LEMMA Unlocked == TypeOK /\ Counted /\ locked = 0 => \A p \in Pid : depth[p] = 0
<1> SUFFICES ASSUME TypeOK, Counted, locked = 0 PROVE \A p \in Pid : depth[p] = 0
  OBVIOUS
<1>1. depth \in [Pid -> Nat] BY DEF TypeOK
<1>2. IsFiniteSet(HeldLevels) /\ Cardinality(HeldLevels) = 0 BY DEF Counted, LockCount
<1> QED BY <1>1, <1>2, NoGuards DEF HeldLevels

LEMMA UnlockedNext == TypeOK' /\ Counted' /\ locked' = 0 => \A p \in Pid : depth'[p] = 0
<1> SUFFICES ASSUME TypeOK', Counted', locked' = 0 PROVE \A p \in Pid : depth'[p] = 0
  OBVIOUS
<1>1. depth' \in [Pid -> Nat] BY DEF TypeOK
<1>2. IsFiniteSet(HeldLevels') /\ Cardinality(HeldLevels') = 0 BY DEF Counted, LockCount
<1> QED BY <1>1, <1>2, NoGuards DEF HeldLevels

\* Only current_task moves, to a place where its guards are allowed, and it
\* keeps the processor, or holds no guard, or waits for the disk.
LEMMA GuardMoves ==
  ASSUME TypeOK, Guarded,
         \A p \in Pid \ {current} : at'[p] = at[p] /\ depth'[p] = depth[p],
         at'[current] \in Bare => depth'[current] = 0,
         current' = current \/ depth'[current] = 0 \/ at'[current] = "hw",
         depth' \in [Pid -> Nat]
  PROVE  Guarded'
<1>1. \A p \in Pid : at'[p] \in Bare => depth'[p] = 0 BY DEF Guarded
<1>2. ASSUME NEW p \in Pid, depth'[p] > 0, p # current' PROVE at'[p] = "hw"
  <2>1. CASE p = current BY <1>2, <2>1
  <2>2. CASE p # current BY <1>2, <2>2 DEF Guarded, HoldersRunOrWait
  <2> QED BY <2>1, <2>2
<1> QED BY <1>1, <1>2 DEF Guarded, HoldersRunOrWait

LEMMA GuardedStep ==
  ~LateSpawn /\ LockInv /\ LockInv' /\ OneRunner /\ Life /\ Guarded /\ [Next]_vars => Guarded'
<1> SUFFICES ASSUME ~LateSpawn, LockInv, LockInv', OneRunner, Life, Guarded, [Next]_vars
             PROVE  Guarded'
  OBVIOUS
<1> USE SchedAssumption DEF LockInv
<1> USE DEF ring, slots, spawning
<1>a. current \in Pid /\ at \in [Pid -> Place] /\ depth \in [Pid -> Nat] BY DEF TypeOK
<1>b. depth' \in [Pid -> Nat] BY DEF TypeOK
<1>c. at[current] \in Bare => depth[current] = 0 BY <1>a DEF Guarded
\* Steps that leave the guards alone.
<1>d. ASSUME UNCHANGED <<at, depth>>, current' = current \/ depth[current] = 0 PROVE Guarded'
  BY <1>a, <1>b, <1>c, <1>d, GuardMoves
<1>e. ASSUME NEW place \in Place, Goto(place), UNCHANGED depth,
             place \in Bare => depth[current] = 0,
             current' = current \/ depth[current] = 0 \/ place = "hw"
      PROVE  Guarded'
  <2>1. at'[current] = place /\ \A p \in Pid \ {current} : at'[p] = at[p]
    BY <1>a, <1>e DEF Goto
  <2> QED BY <1>a, <1>b, <1>e, <2>1, GuardMoves
<1>f. ASSUME NEW st, YieldIfSkipped(st, locked)
      PROVE  current' = current \/ depth[current] = 0
  BY <1>a, <1>f, Unlocked DEF YieldIfSkipped, Stay
<1>g. {"run", "hw", "sleep_set", "sleep_due", "asleep", "event_added", "link_read",
       "link_write", "dead"} \subseteq Place
  BY DEF Place
<1>1. CASE Tick
  <2>1. current' = current \/ depth[current] = 0
    BY <1>1, <1>a, Unlocked DEF Tick, Stay, TypeOK
  <2> QED BY <1>1, <1>d, <2>1 DEF Tick
<1>2. CASE task_lock
  <2>1. at[current] = "run" /\ UNCHANGED <<at, current>>
        /\ \A p \in Pid \ {current} : depth'[p] = depth[p]
    BY <1>2, <1>a DEF task_lock, Idle, At
  <2> QED BY <2>1, <1>b, GuardMoves DEF Bare
<1>3. CASE task_unlock
  <2>1. at[current] = "run" /\ UNCHANGED at /\ \A p \in Pid \ {current} : depth'[p] = depth[p]
    BY <1>3, <1>a DEF task_unlock, At
  <2>2. current' = current \/ depth'[current] = 0
    BY <1>3, <1>a, UnlockedNext DEF task_unlock, YieldIfSkipped, Stay
  <2> QED BY <2>1, <2>2, <1>b, GuardMoves DEF Bare
<1>4. CASE HwWait BY <1>4, <1>e, <1>g DEF HwWait, Bare
<1>5. CASE HwDone BY <1>5, <1>e, <1>g DEF HwDone, Bare
<1>6. CASE SleepState BY <1>6, <1>e, <1>g DEF SleepState
<1>7. CASE SleepDeadline BY <1>7, <1>c, <1>e, <1>g DEF SleepDeadline, At, Bare
<1>8. CASE SleepYield BY <1>8, <1>c, <1>e, <1>g DEF SleepYield, At, Bare
<1>9. CASE SleepReturn BY <1>9, <1>e, <1>g DEF SleepReturn, Bare
<1>10. CASE task_event_add BY <1>10, <1>e, <1>g DEF task_event_add
<1>11. CASE EventYield BY <1>11, <1>c, <1>e, <1>g DEF EventYield, At, Bare
<1>12. CASE task_event_flush BY <1>12, <1>d, <1>f DEF task_event_flush
<1>13. CASE DeviceIrq BY <1>13, <1>d DEF DeviceIrq
<1>14. CASE IntWorkerLoop BY <1>14, <1>d DEF IntWorkerLoop
<1>15. CASE SpawnSlot
  <2>1. PICK p \in Pid :
          /\ p = _tasks_get_free_id
          /\ at' = [at EXCEPT ![current] = "prefix", ![p] = "run"]
    BY <1>15 DEF SpawnSlot
  <2>2. UNCHANGED <<current, depth>> BY <1>15 DEF SpawnSlot
  <2>3. p \notin used
    <3>1. p # MAX_TASKS BY DEF Pid
    <3>2. p \in {FirstFree(prId), FirstFree(0)} BY <2>1 DEF _tasks_get_free_id
    <3>3. prId \in Nat BY DEF TypeOK, Pid
    <3> QED BY <3>1, <3>2, <3>3, FreeSlot
  <2>4. depth[p] = 0 BY <2>3 DEF Life, Alive, Guarded, Bare
  <2>5. \A q \in Pid : at'[q] = IF q = p THEN "run" ELSE IF q = current THEN "prefix" ELSE at[q]
    BY <2>1, <1>a
  <2>6. \A q \in Pid : at'[q] \in Bare => depth'[q] = 0 BY <2>2, <2>5 DEF Guarded, Bare
  <2>7. \A q \in Pid : depth'[q] > 0 /\ q # current' => at'[q] = "hw"
    BY <2>2, <2>4, <2>5 DEF Guarded, HoldersRunOrWait
  <2> QED BY <2>6, <2>7 DEF Guarded, HoldersRunOrWait
<1>16. CASE SpawnAllocate BY <1>16, <1>e, <1>f, <1>g DEF SpawnAllocate, Bare
<1>17. CASE SpawnNeighbour BY <1>17, <1>e, <1>g DEF SpawnNeighbour, Bare
<1>18. CASE sched_task_add_new BY <1>18, <1>e, <1>g DEF sched_task_add_new, Bare
<1>19. CASE task_exit BY <1>19, <1>e, <1>g DEF task_exit
<1>20. CASE ReapFree BY <1>20, <1>d, <1>f DEF ReapFree
<1>21. CASE ReapDone BY <1>21, <1>d DEF ReapDone
<1>22. CASE UNCHANGED vars BY <1>22, <1>d DEF vars
<1> QED
  BY <1>1, <1>2, <1>3, <1>4, <1>5, <1>6, <1>7, <1>8, <1>9, <1>10, <1>11, <1>12, <1>13,
     <1>14, <1>15, <1>16, <1>17, <1>18, <1>19, <1>20, <1>21, <1>22
  DEF Next, Sleep, Event, Spawn, Destroy

---------------------------------------------------------------------------

LifeInv == LockInv /\ OneRunner /\ Life /\ Waits /\ Guarded

LEMMA LifeInvInit == Init => LifeInv
<1> SUFFICES ASSUME Init PROVE LifeInv OBVIOUS
<1> USE SchedAssumption
<1>1. LockInv BY LockInvInit
<1>2. OneRunner BY LazyPid DEF Init, OneRunner, Boot
<1>3. \A p \in Pid : /\ state[p] = IF p \in Boot THEN "READY" ELSE "FREE"
                     /\ at[p] = IF p \in Boot THEN "run" ELSE "free"
                     /\ depth[p] = 0
                     /\ p \notin used => p \notin Boot
  BY DEF Init
<1>4. \A p \in Pid : Len(reap[p]) = 0 BY EmptySeq DEF Init
<1>5. Life BY <1>3, <1>4, LazyPid DEF Life, Alive, Boot
<1>6. Waits BY <1>3, LazyPid DEF Waits, NoLostWaiter, Init, Boot
<1>7. Guarded BY <1>3 DEF Guarded, HoldersRunOrWait
<1> QED BY <1>1, <1>2, <1>5, <1>6, <1>7 DEF LifeInv

LEMMA LifeInvStep == ~LateSpawn /\ LifeInv /\ [Next]_vars => LifeInv'
BY LockInvStep, RunnerStep, LifeStep, WaitsStep, GuardedStep DEF LifeInv, LockInv

LEMMA LifeInvariant == ASSUME ~LateSpawn PROVE Spec => []LifeInv
<1>1. LifeInv /\ [Next]_vars => LifeInv' BY LifeInvStep
<1> QED BY <1>1, LifeInvInit, PTL DEF Spec

\* While no task is created after one has exited: a task that has opened a
\* TASK_LOCKED_FUNCTION guard loses the processor only by asking for it, in the
\* wait loops of the disk driver.
THEOREM HoldersKeepProcessor == ASSUME ~LateSpawn PROVE Spec => []HoldersRunOrWait
BY LifeInvariant, PTL DEF LifeInv, Guarded

\* Under the same condition: task_event_flush finds every WAITING task on the
\* list of the event and no other, whatever comes between add, yield and flush.
THEOREM WaitersListed == ASSUME ~LateSpawn PROVE Spec => []NoLostWaiter
BY LifeInvariant, PTL DEF LifeInv, Waits

---------------------------------------------------------------------------
(***************************************************************************)
(* The ring of tasks, for every set of tasks and every bound, on machines  *)
(* that create no task once one has exited (LateSpawn = FALSE): it stays   *)
(* one cycle through current_task, so that the walk of sched.c never meets *)
(* a NULL link and always ends, and a task under destruction is on it,     *)
(* terminated, and destroyed by one frame only.                            *)
(***************************************************************************)

---------------------------------------------------------------------------
(* The walk.  Hop is a recursive function: that there is one with its      *)
(* equation is shown for longer and longer walks.                          *)

\* f is the walk from c, up to its n-th hop.
Walk(f, c, n) ==
  f = [k \in 0 .. n |-> IF k = 0 THEN c ELSE IF f[k - 1] = None THEN None ELSE right[f[k - 1]]]

LEMMA WalkExists ==
  ASSUME NEW c, NEW n \in Nat
  PROVE  \E f : Walk(f, c, n)
<1> DEFINE S == {m \in Nat : ~ \E f : Walk(f, c, m)}
<1>1. SUFFICES ASSUME S # {} PROVE FALSE
  OBVIOUS
<1>2. PICK m \in S : \A j \in S : m <= j BY <1>1, LeastNat
<1>3. m \in Nat /\ ~ \E f : Walk(f, c, m) OBVIOUS
<1>4. CASE m = 0
  <2> DEFINE f == [k \in 0 .. 0 |-> c]
  <2>1. \A k \in 0 .. 0 : k = 0 OBVIOUS
  <2>2. Walk(f, c, 0) BY <2>1 DEF Walk
  <2> QED BY <1>3, <1>4, <2>2
<1>5. CASE m > 0
  <2>1. m - 1 \in Nat /\ m - 1 \notin S BY <1>2, <1>3, <1>5
  <2>2. PICK f : Walk(f, c, m - 1) BY <2>1
  <2> DEFINE g == [k \in 0 .. m |-> IF k < m THEN f[k]
                                     ELSE IF f[m - 1] = None THEN None ELSE right[f[m - 1]]]
             h == [k \in 0 .. m |->
                     IF k = 0 THEN c ELSE IF g[k - 1] = None THEN None ELSE right[g[k - 1]]]
  <2>3. \A k \in 0 .. m - 1 :
          f[k] = IF k = 0 THEN c ELSE IF f[k - 1] = None THEN None ELSE right[f[k - 1]]
    BY <2>2 DEF Walk
  <2>4. ASSUME NEW k \in 0 .. m PROVE g[k] = h[k]
    <3>1. CASE k = 0 BY <1>3, <1>5, <2>3, <3>1
    <3>2. CASE k # 0
      <4>1. k - 1 \in 0 .. m - 1 /\ k - 1 \in 0 .. m BY <1>3, <3>2
      <4>2. g[k - 1] = f[k - 1] BY <1>3, <4>1
      <4>3. h[k] = IF f[k - 1] = None THEN None ELSE right[f[k - 1]] BY <3>2, <4>2
      <4>4. CASE k = m BY <1>3, <4>3, <4>4
      <4>5. CASE k # m
        <5>1. k \in 0 .. m - 1 BY <1>3, <4>5
        <5>2. g[k] = f[k] BY <1>3, <5>1
        <5> QED BY <2>3, <3>2, <4>3, <5>1, <5>2
      <4> QED BY <4>4, <4>5
    <3> QED BY <3>1, <3>2
  <2>5. g = h BY <2>4
  <2>6. Walk(g, c, m) BY <2>5 DEF Walk
  <2> QED BY <1>3, <2>6
<1> QED BY <1>3, <1>4, <1>5

LEMMA HopWalks ==
  ASSUME NEW c
  PROVE  Walk(Hop(c), c, MAX_TASKS)
<1>1. MAX_TASKS \in Nat BY SchedAssumption
<1>2. PICK f : Walk(f, c, MAX_TASKS) BY <1>1, WalkExists
<1> QED BY <1>2 DEF Walk, Hop

LEMMA HopSteps ==
  ASSUME NEW c
  PROVE  /\ Hop(c)[0] = c
         /\ \A k \in 1 .. MAX_TASKS :
              Hop(c)[k] = IF Hop(c)[k - 1] = None THEN None ELSE right[Hop(c)[k - 1]]
<1>1. MAX_TASKS \in Nat BY SchedAssumption
<1>2. \A k \in 0 .. MAX_TASKS :
        Hop(c)[k] = IF k = 0 THEN c
                    ELSE IF Hop(c)[k - 1] = None THEN None ELSE right[Hop(c)[k - 1]]
  <2> DEFINE f == Hop(c)
  <2>1. Walk(f, c, MAX_TASKS) BY HopWalks
  <2> HIDE DEF f
  <2>2. \A k \in 0 .. MAX_TASKS :
          f[k] = IF k = 0 THEN c ELSE IF f[k - 1] = None THEN None ELSE right[f[k - 1]]
    BY <2>1 DEF Walk
  <2> QED BY <2>2 DEF f
<1>3. Hop(c)[0] = c BY <1>1, <1>2
<1>4. \A k \in 1 .. MAX_TASKS : k \in 0 .. MAX_TASKS /\ k # 0 BY <1>1
<1> QED BY <1>2, <1>3, <1>4

---------------------------------------------------------------------------
(* The ring.                                                               *)

\* The nodes are doubly linked.
Links ==
  \A p \in Linked : /\ right[p] \in Linked /\ left[p] \in Linked
                    /\ right[left[p]] = p /\ left[right[p]] = p

Closed(S) == \A p \in S : right[p] \in S

\* There is one cycle only: no part of the nodes is linked among itself.
Cycle == \A S \in SUBSET Linked : S # {} /\ Closed(S) => S = Linked

LEMMA HopLinked ==
  ASSUME Links, NEW c \in Linked, NEW k \in 0 .. MAX_TASKS
  PROVE  Hop(c)[k] \in Linked
<1> DEFINE S == {m \in 0 .. MAX_TASKS : Hop(c)[m] \notin Linked}
<1>1. SUFFICES ASSUME S # {} PROVE FALSE
  OBVIOUS
<1>2. MAX_TASKS \in Nat /\ None \notin Pid BY SchedAssumption
<1>a. S \in SUBSET Nat BY <1>2
<1>b. \A m \in S : m \in 0 .. MAX_TASKS /\ Hop(c)[m] \notin Linked OBVIOUS
<1>c. \A m \in 0 .. MAX_TASKS : m \notin S => Hop(c)[m] \in Linked OBVIOUS
<1> HIDE DEF S
<1>3. PICK m \in S : \A j \in S : m <= j BY <1>1, <1>a, LeastNat
<1>4. m # 0 BY <1>b, HopSteps
<1>5. m \in 1 .. MAX_TASKS /\ m - 1 \in 0 .. MAX_TASKS /\ m - 1 \notin S BY <1>2, <1>3, <1>4, <1>b
<1>6. Hop(c)[m - 1] \in Linked BY <1>5, <1>c
<1>7. Hop(c)[m] = right[Hop(c)[m - 1]] BY <1>2, <1>5, <1>6, HopSteps DEF Linked
<1>8. Hop(c)[m] \in Linked BY <1>6, <1>7 DEF Links
<1> QED BY <1>b, <1>8

LEMMA HopRight ==
  ASSUME Links, NEW c \in Linked, NEW k \in 1 .. MAX_TASKS
  PROVE  Hop(c)[k] = right[Hop(c)[k - 1]]
<1>1. MAX_TASKS \in Nat /\ None \notin Pid BY SchedAssumption
<1>2. k - 1 \in 0 .. MAX_TASKS BY <1>1
<1>3. Hop(c)[k - 1] \in Pid BY <1>2, HopLinked DEF Linked
<1> QED BY <1>1, <1>3, HopSteps

\* The nodes of the first k hops.
Passed(c, k) == {Hop(c)[j] : j \in 1 .. k}

LEMMA PassedGrows ==
  ASSUME NEW c, NEW k \in Nat \ {0}
  PROVE  Passed(c, k) = Passed(c, k - 1) \union {Hop(c)[k]}
<1>1. 1 .. k = (1 .. k - 1) \union {k} OBVIOUS
<1> QED BY <1>1 DEF Passed

\* Either every hop so far has met a new node, or the walk has closed.
LEMMA WalkCloses ==
  ASSUME Links, NEW c \in Linked, NEW k \in 1 .. MAX_TASKS
  PROVE  \/ IsFiniteSet(Passed(c, k)) /\ Cardinality(Passed(c, k)) = k
         \/ Closed(Passed(c, k))
<1> DEFINE New(m) == IsFiniteSet(Passed(c, m)) /\ Cardinality(Passed(c, m)) = m
           S == {m \in 1 .. MAX_TASKS : ~ New(m) /\ ~ Closed(Passed(c, m))}
<1>1. SUFFICES ASSUME S # {} PROVE FALSE
  OBVIOUS
<1>2. MAX_TASKS \in Nat BY SchedAssumption
<1>a. S \in SUBSET Nat BY <1>2
<1>b. \A m \in S : m \in 1 .. MAX_TASKS /\ ~ New(m) /\ ~ Closed(Passed(c, m)) OBVIOUS
<1> HIDE DEF S
<1>3. PICK m \in S : \A j \in S : m <= j BY <1>1, <1>a, LeastNat
<1>4. m \in 1 .. MAX_TASKS /\ ~ New(m) /\ ~ Closed(Passed(c, m)) BY <1>b
<1>5. Passed(c, m) = Passed(c, m - 1) \union {Hop(c)[m]} BY <1>2, <1>4, PassedGrows
<1>6. CASE m = 1
  <2>1. Passed(c, 1) = {Hop(c)[1]} BY DEF Passed
  <2> QED BY <1>4, <1>6, <2>1, FS_Singleton
<1>7. CASE m # 1
  <2>1. m - 1 \in 1 .. MAX_TASKS /\ m - 1 \notin S BY <1>2, <1>3, <1>4, <1>7
  <2>2. New(m - 1) \/ Closed(Passed(c, m - 1)) BY <2>1 DEF S
  <2>3. Hop(c)[m] = right[Hop(c)[m - 1]] BY <1>4, HopRight
  <2>4. Hop(c)[m - 1] \in Passed(c, m - 1) BY <2>1 DEF Passed
  <2>5. CASE Hop(c)[m] \in Passed(c, m - 1)
    <3>1. Passed(c, m) = Passed(c, m - 1) BY <1>5, <2>5
    <3>2. ASSUME NEW p \in Passed(c, m - 1) PROVE right[p] \in Passed(c, m - 1)
      <4>1. PICK j \in 1 .. m - 1 : p = Hop(c)[j] BY DEF Passed
      <4>2. j + 1 \in 1 .. MAX_TASKS /\ (j + 1) - 1 = j BY <1>2, <1>4, <4>1
      <4>3. right[p] = Hop(c)[j + 1] BY <4>1, <4>2, HopRight
      <4>4. CASE j = m - 1 BY <2>5, <2>3, <4>1, <4>4
      <4>5. CASE j # m - 1
        <5>1. j + 1 \in 1 .. m - 1 BY <1>4, <4>1, <4>5
        <5> QED BY <4>3, <5>1 DEF Passed
      <4> QED BY <4>4, <4>5
    <3> QED BY <1>4, <3>1, <3>2 DEF Closed
  <2>6. CASE Hop(c)[m] \notin Passed(c, m - 1)
    <3>1. ~ Closed(Passed(c, m - 1)) BY <2>3, <2>4, <2>6 DEF Closed
    <3>2. IsFiniteSet(Passed(c, m - 1)) /\ Cardinality(Passed(c, m - 1)) = m - 1
      BY <2>2, <3>1
    <3>3. IsFiniteSet(Passed(c, m)) /\ Cardinality(Passed(c, m)) = (m - 1) + 1
      BY <1>5, <2>6, <3>2, FS_AddElement
    <3>4. (m - 1) + 1 = m BY <1>4
    <3> QED BY <1>4, <3>3, <3>4
  <2> QED BY <2>5, <2>6
<1> QED BY <1>6, <1>7

LEMMA PidFinite == IsFiniteSet(Pid) /\ Cardinality(Pid) = MAX_TASKS
<1>1. 0 \in Int /\ MAX_TASKS - 1 \in Int /\ 0 <= MAX_TASKS - 1 /\ MAX_TASKS - 1 - 0 + 1 = MAX_TASKS
  BY SchedAssumption
<1> QED BY <1>1, FS_Interval DEF Pid

LEMMA AllPassed ==
  ASSUME Links, Cycle, NEW c \in Linked
  PROVE  {Hop(c)[k] : k \in 1 .. MAX_TASKS} = Linked
<1>1. MAX_TASKS \in 1 .. MAX_TASKS BY SchedAssumption
<1>2. \A k \in 1 .. MAX_TASKS : Hop(c)[k] \in Linked
  <2>1. \A k \in 1 .. MAX_TASKS : k \in 0 .. MAX_TASKS BY SchedAssumption
  <2> QED BY <2>1, HopLinked
<1> DEFINE P == Passed(c, MAX_TASKS)
<1>3. P \subseteq Linked /\ P # {} /\ P = {Hop(c)[k] : k \in 1 .. MAX_TASKS}
  BY <1>1, <1>2 DEF Passed
<1>4. Cardinality(P) = MAX_TASKS \/ Closed(P) BY <1>1, WalkCloses
<1>5. P \subseteq Pid BY <1>3 DEF Linked
<1> HIDE DEF P
<1>6. CASE Closed(P) BY <1>3, <1>6 DEF Cycle
<1>7. CASE Cardinality(P) = MAX_TASKS
  <2>1. P = Pid BY <1>5, <1>7, PidFinite, FS_Subset
  <2>2. Linked \subseteq Pid BY DEF Linked
  <2> QED BY <1>3, <2>1, <2>2
<1> QED BY <1>4, <1>6, <1>7

LEMMA WalkReturns ==
  ASSUME Links, Cycle, NEW c \in Linked, NEW st, NEW time
  PROVE  WalkEnds(st, c, time)
<1>1. PICK k \in 1 .. MAX_TASKS : Hop(c)[k] = c BY AllPassed
<1>2. c \in Pid BY DEF Linked
<1> QED BY <1>1, <1>2 DEF WalkEnds, Stops

\* The walk chooses a node of the ring.
LEMMA NextLinked ==
  ASSUME Links, LAZY \in Linked, NEW c \in Linked, NEW st, NEW time, WalkEnds(st, c, time)
  PROVE  sched_task_get_next(st, c, time) \in Linked
<1> DEFINE S == Stops(st, c, time)
<1>1. MAX_TASKS \in Nat BY SchedAssumption
<1>2. S \in SUBSET (1 .. MAX_TASKS) /\ S # {} BY Zenon DEF Stops, WalkEnds
<1> HIDE DEF S
<1>3. S \in SUBSET Nat BY <1>1, <1>2
<1>4. Min(S) \in S BY <1>2, <1>3, LeastNat
<1>5. Min(S) \in 0 .. MAX_TASKS
  <2>1. Min(S) \in 1 .. MAX_TASKS BY <1>2, <1>4
  <2> QED BY <1>1, <2>1
<1>6. Hop(c)[Min(S)] \in Linked BY <1>5, HopLinked
<1> QED BY <1>6 DEF sched_task_get_next, S

---------------------------------------------------------------------------
(* The links and what the tasks that are changing them hold.               *)

OnRing == LAZY \in Linked /\ current \in Linked

Unborn == \A p \in Pid : at[p] = "free" => right[p] = None

\* Creation and destruction do not overlap.
Phases == \A p, q \in Pid : at[p] = "dead" => at[q] \notin Busy

\* A task in creation is off the ring and has one creator; the neighbour its
\* creator has read stays on the ring.
Created ==
  \A p \in Pid : at[p] \in Busy =>
    /\ child[p] \in Pid
    /\ right[child[p]] = None /\ at[child[p]] # "free"
    /\ \A q \in Pid : at[q] \in Busy /\ child[q] = child[p] => q = p
    /\ at[p] = "link_write" => neighbour[p] \in Linked

\* A task in destruction is on the ring and has one destroyer.
Victims ==
  \A p \in Pid : \A k \in 1 .. Len(reap[p]) :
    /\ reap[p][k].victim \in Linked
    /\ \A q \in Pid : \A j \in 1 .. Len(reap[q]) :
         reap[q][j].victim = reap[p][k].victim => q = p /\ j = k

Numbered == taskCount = Cardinality(Linked \union InCreation)

RingInv == Links /\ Cycle /\ OnRing /\ Unborn /\ Phases /\ Created /\ Victims /\ Numbered

\* The choices of sched_task_get_next stay on the ring.
LEMMA SwitchLinked ==
  ASSUME RingInv, NEW st, NEW time, Switch(st, time)
  PROVE  current' \in Linked
BY NextLinked DEF Switch, RingInv, OnRing

LEMMA YieldLinked ==
  ASSUME RingInv, NEW st, NEW n, YieldIfSkipped(st, n)
  PROVE  current' \in Linked
BY SwitchLinked DEF YieldIfSkipped, Stay, RingInv, OnRing

\* A step that changes neither links nor what hangs on them.
Quiet ==
  /\ UNCHANGED <<right, left, child, neighbour, taskCount>>
  /\ \A p \in Pid : /\ at'[p] \in Busy <=> at[p] \in Busy
                    /\ at'[p] = "free" <=> at[p] = "free"
                    /\ at'[p] = "dead" <=> at[p] = "dead"
                    /\ at'[p] = "link_write" => at[p] = "link_write"
  /\ FramesKept
  /\ current' \in Linked

LEMMA QuietStep == RingInv /\ Quiet => RingInv'
<1> SUFFICES ASSUME RingInv, Quiet PROVE RingInv'
  OBVIOUS
<1> USE DEF Quiet
<1>1. Linked' = Linked BY DEF Linked
<1>2. Links' /\ Cycle' BY <1>1 DEF RingInv, Links, Cycle, Closed
<1>3. OnRing' /\ Unborn' /\ Phases' BY <1>1 DEF RingInv, OnRing, Unborn, Phases
<1>4. Created' BY <1>1 DEF RingInv, Created
<1>5. Victims'
  <2>1. ASSUME NEW p \in Pid, NEW k \in 1 .. Len(reap'[p]),
               NEW q \in Pid, NEW j \in 1 .. Len(reap'[q])
        PROVE  /\ reap'[p][k].victim \in Linked
               /\ reap'[q][j].victim = reap'[p][k].victim => q = p /\ j = k
    <3>1. /\ k \in 1 .. Len(reap[p]) /\ reap'[p][k].victim = reap[p][k].victim
          /\ j \in 1 .. Len(reap[q]) /\ reap'[q][j].victim = reap[q][j].victim
      BY DEF FramesKept
    <3> HIDE DEF Quiet
    <3> QED BY <3>1 DEF RingInv, Victims
  <2> HIDE DEF Quiet
  <2> QED BY <1>1, <2>1 DEF Victims
<1>6. Numbered'
  <2>1. {q \in Pid : at'[q] \in Busy} = {q \in Pid : at[q] \in Busy} OBVIOUS
  <2>2. InCreation' = InCreation BY <2>1 DEF InCreation
  <2> QED BY <1>1, <2>2 DEF RingInv, Numbered
<1> HIDE DEF Quiet
<1> QED BY <1>2, <1>3, <1>4, <1>5, <1>6 DEF RingInv

---------------------------------------------------------------------------
(* list_add and list_erase_cycle.                                          *)

LEMMA AddLinks ==
  ASSUME TypeOK, Links, Cycle, NEW l \in Linked, NEW node \in Pid \ Linked, list_add(l, node)
  PROVE  Linked' = Linked \union {node} /\ Links' /\ Cycle'
<1> DEFINE r == right[l]
<1>a. right \in [Pid -> Pid \union {None}] /\ None \notin Pid BY SchedAssumption DEF TypeOK
<1>b. l \in Pid /\ l # node /\ r \in Linked /\ r \in Pid /\ r # node BY DEF Links, Linked
<1>c. \A p \in Linked : p \in Pid /\ p # node BY DEF Linked
<1>1. \A p \in Pid : right'[p] = IF p = node THEN r ELSE IF p = l THEN node ELSE right[p]
  BY <1>a, <1>b DEF list_add
<1>2. \A p \in Pid : left'[p] = IF p = r THEN node ELSE IF p = node THEN l ELSE left[p]
  BY <1>b DEF list_add
<1>3. left[r] = l BY DEF Links
<1>4. Linked' = Linked \union {node}
  <2>1. \A p \in Pid : right'[p] # None <=> right[p] # None \/ p = node
    BY <1>1, <1>a, <1>b DEF Linked
  <2> QED BY <2>1 DEF Linked
<1> HIDE DEF r
<1>5. ASSUME NEW p \in Linked'
      PROVE  /\ right'[p] \in Linked' /\ left'[p] \in Linked'
             /\ right'[left'[p]] = p /\ left'[right'[p]] = p
  <2>1. CASE p = node BY <1>1, <1>2, <1>b, <1>4, <2>1
  <2>2. CASE p # node
    <3>1. p \in Linked BY <1>4, <2>2
    <3>2. /\ right[p] \in Linked /\ left[p] \in Linked /\ p \in Pid
          /\ right[left[p]] = p /\ left[right[p]] = p
      BY <3>1, <1>c DEF Links
    <3>3. right[p] \in Pid /\ left[p] \in Pid /\ right[p] # node /\ left[p] # node
      BY <3>2, <1>c
    <3>4. right[p] = r <=> p = l BY <3>2, <1>3 DEF r
    <3>5. left[p] = l <=> p = r BY <3>2, <1>3 DEF r
    <3>6. right'[p] \in Linked' /\ left'[p] \in Linked' BY <1>1, <1>2, <1>4, <1>b, <3>2
    <3>7. right'[left'[p]] = p BY <1>1, <1>2, <1>b, <2>2, <3>2, <3>3, <3>5
    <3>8. left'[right'[p]] = p BY <1>1, <1>2, <1>b, <2>2, <3>2, <3>3, <3>4
    <3> QED BY <3>6, <3>7, <3>8
  <2> QED BY <2>1, <2>2
<1>6. ASSUME NEW S \in SUBSET Linked', S # {}, Closed(S)' PROVE S = Linked'
  <2> DEFINE T == S \ {node}
  <2>1. \A p \in S : right'[p] \in S BY <1>6 DEF Closed
  <2>2. T \subseteq Linked BY <1>4
  <2>3. T # {}
    <3>1. CASE node \in S
      <4>1. r \in S BY <1>1, <2>1, <3>1
      <4> QED BY <4>1, <1>b
    <3>2. CASE node \notin S BY <1>6, <3>2
    <3> QED BY <3>1, <3>2
  <2>4. ASSUME NEW p \in T PROVE right[p] \in T
    <3>1. p \in S /\ p \in Linked /\ p \in Pid /\ p # node BY <2>2, <1>c
    <3>2. right[p] \in Linked /\ right[p] # node BY <3>1, <1>c DEF Links
    <3>3. CASE p = l
      <4>1. node \in S BY <1>1, <2>1, <3>1, <3>3
      <4>2. r \in S BY <1>1, <2>1, <4>1
      <4> QED BY <4>2, <3>2, <3>3 DEF r
    <3>4. CASE p # l BY <1>1, <2>1, <3>1, <3>2, <3>4
    <3> QED BY <3>3, <3>4
  <2>5. T = Linked BY <2>2, <2>3, <2>4 DEF Cycle, Closed
  <2>6. node \in S
    <3>1. l \in S BY <2>5
    <3> QED BY <1>1, <1>b, <2>1, <3>1
  <2> QED BY <1>4, <2>5, <2>6
<1> QED BY <1>4, <1>5, <1>6 DEF Links, Cycle

LEMMA EraseLinks ==
  ASSUME TypeOK, Links, Cycle, LAZY \in Linked, NEW v \in Linked, v # LAZY, list_erase_cycle(v)
  PROVE  Linked' = Linked \ {v} /\ Links' /\ Cycle'
<1> DEFINE r == right[v]
           l == left[v]
<1>a. right \in [Pid -> Pid \union {None}] /\ None \notin Pid BY SchedAssumption DEF TypeOK
<1>b. \A p \in Linked : p \in Pid BY DEF Linked
<1>c. /\ r \in Linked /\ l \in Linked /\ right[l] = v /\ left[r] = v BY DEF Links
<1>d. r # v
  <2>1. SUFFICES ASSUME r = v PROVE FALSE OBVIOUS
  <2>2. Closed({v}) /\ {v} # {} /\ {v} \in SUBSET Linked BY <2>1 DEF Closed
  <2>3. {v} = Linked BY <2>2 DEF Cycle
  <2> QED BY <2>3
<1>e. l # v BY <1>c, <1>d
<1>1. \A p \in Pid : right'[p] = IF p = v THEN None ELSE IF p = l THEN r ELSE right[p]
  BY DEF list_erase_cycle
<1>2. \A p \in Pid : left'[p] = IF p = v THEN None ELSE IF p = r THEN l ELSE left[p]
  BY DEF list_erase_cycle
<1>3. Linked' = Linked \ {v}
  <2>1. r # None /\ right[l] # None BY <1>a, <1>b, <1>c
  <2>2. \A p \in Pid : right'[p] # None <=> right[p] # None /\ p # v
    BY <1>1, <1>c, <2>1
  <2> QED BY <2>2 DEF Linked
<1>4. ASSUME NEW p \in Linked'
      PROVE  /\ right'[p] \in Linked' /\ left'[p] \in Linked'
             /\ right'[left'[p]] = p /\ left'[right'[p]] = p
  <2>1. p \in Linked /\ p # v /\ p \in Pid BY <1>3, <1>b
  <2>2. /\ right[p] \in Linked /\ left[p] \in Linked
        /\ right[left[p]] = p /\ left[right[p]] = p
    BY <2>1 DEF Links
  <2>3. right[p] \in Pid /\ left[p] \in Pid /\ r \in Pid /\ l \in Pid BY <2>2, <1>b, <1>c
  <2>4. right[p] = v <=> p = l BY <2>2, <1>c
  <2>5. left[p] = v <=> p = r BY <2>2, <1>c
  <2> HIDE DEF r, l
  <2>6. right[p] = r => p = v BY <2>2, <1>c
  <2>7. left[p] = l => p = v BY <2>2, <1>c
  <2>8. right'[p] = IF p = l THEN r ELSE right[p] BY <1>1, <2>1
  <2>9. left'[p] = IF p = r THEN l ELSE left[p] BY <1>2, <2>1
  <2>10. right'[p] \in Linked' BY <1>3, <1>c, <1>d, <2>2, <2>4, <2>8
  <2>11. left'[p] \in Linked' BY <1>3, <1>c, <1>e, <2>2, <2>5, <2>9
  <2>12. right'[left'[p]] = p
    <3>1. CASE p = r BY <1>1, <1>e, <2>3, <2>9, <3>1
    <3>2. CASE p # r
      <4>1. left'[p] = left[p] /\ left[p] # v /\ left[p] # l BY <2>1, <2>5, <2>7, <2>9, <3>2
      <4> QED BY <1>1, <2>2, <2>3, <4>1
    <3> QED BY <3>1, <3>2
  <2>13. left'[right'[p]] = p
    <3>1. CASE p = l BY <1>2, <1>d, <2>3, <2>8, <3>1
    <3>2. CASE p # l
      <4>1. right'[p] = right[p] /\ right[p] # v /\ right[p] # r BY <2>1, <2>4, <2>6, <2>8, <3>2
      <4> QED BY <1>2, <2>2, <2>3, <4>1
    <3> QED BY <3>1, <3>2
  <2> QED BY <2>10, <2>11, <2>12, <2>13
<1>5. ASSUME NEW S \in SUBSET Linked', S # {}, Closed(S)' PROVE S = Linked'
  <2>1. \A p \in S : right'[p] \in S /\ p \in Pid /\ p # v BY <1>3, <1>5, <1>b DEF Closed
  <2>2. CASE l \in S
    <3> DEFINE T == S \union {v}
    <3>1. T \subseteq Linked /\ T # {} BY <1>3
    <3>2. ASSUME NEW p \in T PROVE right[p] \in T
      <4>1. CASE p = v
        <5>1. r \in S BY <1>1, <2>1, <2>2
        <5> QED BY <4>1, <5>1
      <4>2. CASE p = l BY <1>c, <4>2
      <4>3. CASE p # v /\ p # l BY <1>1, <2>1, <4>3
      <4> QED BY <4>1, <4>2, <4>3
    <3>3. T = Linked BY <3>1, <3>2 DEF Cycle, Closed
    <3> QED BY <1>3, <2>1, <3>3
  <2>3. CASE l \notin S
    <3>1. \A p \in S : right[p] \in S BY <1>1, <2>1, <2>3
    <3>2. S \subseteq Linked BY <1>3
    <3>3. S = Linked BY <1>5, <3>1, <3>2 DEF Cycle, Closed
    <3> QED BY <3>3, <1>c, <2>3
  <2> QED BY <2>2, <2>3
<1> QED BY <1>3, <1>4, <1>5 DEF Links, Cycle

---------------------------------------------------------------------------
(* The invariant and its steps.                                            *)

LEMMA RingInvInit == Init => RingInv
<1> SUFFICES ASSUME Init PROVE RingInv OBVIOUS
<1>a. LAZY \in Pid /\ KERNEL \in Pid /\ INT_WORKER \in Pid BY LazyPid
<1>b. LAZY # KERNEL /\ LAZY # INT_WORKER /\ KERNEL # INT_WORKER
  BY DEF LAZY, KERNEL, INT_WORKER
<1>c. None \notin Pid BY SchedAssumption
<1>1. /\ right[LAZY] = INT_WORKER /\ right[INT_WORKER] = KERNEL /\ right[KERNEL] = LAZY
      /\ left[LAZY] = KERNEL /\ left[INT_WORKER] = LAZY /\ left[KERNEL] = INT_WORKER
      /\ \A p \in Pid \ Boot : right[p] = None
  BY <1>a, <1>b DEF Init, Boot
<1>2. Linked = Boot BY <1>1, <1>a, <1>c DEF Linked, Boot
<1>3. \A p \in Pid : at[p] = IF p \in Boot THEN "run" ELSE "free" BY DEF Init
<1>4. \A p \in Pid : at[p] \notin Busy /\ at[p] # "dead" BY <1>3 DEF Busy
<1>5. Links BY <1>1, <1>2 DEF Links, Boot
<1>6. Cycle
  <2> SUFFICES ASSUME NEW S \in SUBSET Linked, S # {}, Closed(S) PROVE S = Linked
    BY DEF Cycle
  <2> QED BY <1>1, <1>2 DEF Closed, Boot
<1>7. OnRing BY <1>2 DEF OnRing, Init, Boot
<1>8. Unborn BY <1>1, <1>3 DEF Unborn
<1>9. Phases /\ Created BY <1>4 DEF Phases, Created
<1>10. Victims
  <2>1. \A p \in Pid : Len(reap[p]) = 0 BY EmptySeq DEF Init
  <2> QED BY <2>1 DEF Victims
<1>11. Numbered
  <2>1. InCreation = {} BY <1>4 DEF InCreation
  <2>2. Linked \union InCreation = {LAZY, KERNEL} \union {INT_WORKER} BY <1>2, <2>1 DEF Boot
  <2>3. IsFiniteSet({LAZY, KERNEL}) /\ Cardinality({LAZY, KERNEL}) = 2
    <3>1. {LAZY, KERNEL} = {LAZY} \union {KERNEL} OBVIOUS
    <3>2. IsFiniteSet({LAZY}) /\ Cardinality({LAZY}) = 1 BY FS_Singleton
    <3>3. KERNEL \notin {LAZY} BY <1>b
    <3>4. IsFiniteSet({LAZY} \union {KERNEL}) /\ Cardinality({LAZY} \union {KERNEL}) = 1 + 1
      BY <3>2, <3>3, FS_AddElement
    <3> QED BY <3>1, <3>4
  <2>4. Cardinality(Linked \union InCreation) = 2 + 1
    BY <1>b, <2>2, <2>3, FS_AddElement
  <2> QED BY <2>4 DEF Numbered, Init
<1> QED BY <1>5, <1>6, <1>7, <1>8, <1>9, <1>10, <1>11 DEF RingInv

LEMMA RingsFinite == TypeOK => IsFiniteSet(Linked) /\ (Created => IsFiniteSet(Linked \union InCreation))
<1>1. Linked \subseteq Pid BY DEF Linked
<1>2. Created => InCreation \subseteq Pid BY DEF Created, InCreation
<1>3. IsFiniteSet(Linked) BY <1>1, PidFinite, FS_Subset
<1>4. Created => IsFiniteSet(Linked \union InCreation) BY <1>1, <1>2, PidFinite, FS_Subset
<1> QED BY <1>3, <1>4

\* A slot that tasks_get_free_id may return was never taken.
LEMMA FreshSlot ==
  ASSUME TypeOK, Life, \A p \in Pid : at[p] # "dead", NEW p \in Pid, p = _tasks_get_free_id
  PROVE  at[p] = "free"
<1>1. p # MAX_TASKS BY SchedAssumption DEF Pid
<1>2. p \in {FirstFree(prId), FirstFree(0)} BY DEF _tasks_get_free_id
<1>3. prId \in Nat BY DEF TypeOK, Pid
<1>4. p \notin used BY <1>1, <1>2, <1>3, FreeSlot
<1> QED BY <1>4 DEF Life, Alive

LEMMA SlotStep == ~LateSpawn /\ LifeInv /\ RingInv /\ SpawnSlot => RingInv'
<1> SUFFICES ASSUME ~LateSpawn, LifeInv, RingInv, SpawnSlot PROVE RingInv'
  OBVIOUS
<1>a. TypeOK /\ Life /\ OneRunner BY DEF LifeInv, LockInv
<1>b. current \in Pid /\ at \in [Pid -> Place] /\ child \in [Pid -> Pid \union {None}]
      /\ reap \in [Pid -> Seq(Frames)]
  BY <1>a DEF TypeOK
<1>c. \A p \in Pid : at[p] # "dead" BY DEF SpawnSlot
<1>1. PICK p \in Pid :
        /\ p = _tasks_get_free_id
        /\ child' = [child EXCEPT ![current] = p]
        /\ at' = [at EXCEPT ![current] = "prefix", ![p] = "run"]
        /\ reap' = [reap EXCEPT ![p] = <<>>]
  BY DEF SpawnSlot
<1>2. UNCHANGED <<right, left, current, neighbour>> /\ taskCount' = taskCount + 1
  BY DEF SpawnSlot, ring
<1>3. at[p] = "free" BY <1>a, <1>c, <1>1, FreshSlot
<1>4. at[current] = "run" /\ p # current BY <1>3 DEF SpawnSlot, Idle, At
<1>5. /\ \A q \in Pid : at'[q] = IF q = p THEN "run" ELSE IF q = current THEN "prefix" ELSE at[q]
      /\ \A q \in Pid : child'[q] = IF q = current THEN p ELSE child[q]
      /\ \A q \in Pid : reap'[q] = IF q = p THEN <<>> ELSE reap[q]
  BY <1>1, <1>4, <1>b
<1>6. right[p] = None BY <1>3 DEF RingInv, Unborn
<1>7. \A q \in Pid : at'[q] \in Busy <=> at[q] \in Busy \/ q = current
  BY <1>3, <1>4, <1>5 DEF Busy
<1>8. \A q \in Pid : at[q] \in Busy => q # current /\ child[q] # p
  BY <1>3, <1>4 DEF RingInv, Created, Busy
<1>9. Linked' = Linked BY <1>2 DEF Linked
<1>10. Links' /\ Cycle' /\ OnRing'
  BY <1>2, <1>9 DEF RingInv, Links, Cycle, Closed, OnRing
<1>11. Unborn' BY <1>2, <1>5 DEF RingInv, Unborn
<1>12. Phases' BY <1>c, <1>5 DEF Phases
<1>13. Created'
  <2> SUFFICES ASSUME NEW q \in Pid, at'[q] \in Busy
               PROVE  /\ child'[q] \in Pid
                      /\ right[child'[q]] = None /\ at'[child'[q]] # "free"
                      /\ \A t \in Pid : at'[t] \in Busy /\ child'[t] = child'[q] => t = q
                      /\ at'[q] = "link_write" => neighbour[q] \in Linked
    BY <1>2, <1>9 DEF Created
  <2>1. CASE q = current
    <3>1. child'[q] = p /\ at'[q] # "link_write" BY <1>4, <1>5, <2>1
    <3>2. \A t \in Pid : at'[t] \in Busy /\ child'[t] = p => t = q BY <1>5, <1>7, <1>8, <2>1
    <3> QED BY <3>1, <3>2, <1>5, <1>6
  <2>2. CASE q # current
    <3>1. at[q] \in Busy /\ child'[q] = child[q] /\ child[q] # p BY <1>5, <1>7, <1>8, <2>2
    <3>2. at'[q] = "link_write" => at[q] = "link_write" BY <1>5
    <3>3. \A t \in Pid : at'[t] \in Busy /\ child'[t] = child[q] => t = q
      BY <3>1, <1>5, <1>7 DEF RingInv, Created
    <3>4. child[q] \in Pid /\ right[child[q]] = None /\ at[child[q]] # "free"
          /\ (at[q] = "link_write" => neighbour[q] \in Linked)
      BY <3>1 DEF RingInv, Created
    <3>5. at'[child[q]] # "free" BY <3>4, <1>5
    <3> QED BY <3>1, <3>2, <3>3, <3>4, <3>5
  <2> QED BY <2>1, <2>2
<1>14. Victims'
  <2>1. Len(<<>>) = 0 BY EmptySeq
  <2>2. \A q \in Pid : \A k \in 1 .. Len(reap'[q]) : k \in 1 .. Len(reap[q]) /\ reap'[q] = reap[q]
    BY <1>5, <2>1
  <2>3. ASSUME NEW q \in Pid, NEW k \in 1 .. Len(reap'[q]),
               NEW t \in Pid, NEW j \in 1 .. Len(reap'[t])
        PROVE  /\ reap'[q][k].victim \in Linked
               /\ reap'[t][j].victim = reap'[q][k].victim => t = q /\ j = k
    <3>1. /\ k \in 1 .. Len(reap[q]) /\ reap'[q] = reap[q]
          /\ j \in 1 .. Len(reap[t]) /\ reap'[t] = reap[t]
      BY <2>2
    <3> QED BY <3>1 DEF RingInv, Victims
  <2> QED BY <1>9, <2>3 DEF Victims
<1>15. Numbered'
  <2>1. InCreation' = InCreation \union {p}
    <3>1. \A q \in Pid : at[q] \in Busy => child'[q] = child[q] BY <1>5, <1>8
    <3>2. child'[current] = p BY <1>5, <1>b
    <3>3. InCreation' = {child'[q] : q \in {t \in Pid : at'[t] \in Busy}} BY DEF InCreation
    <3>4. {t \in Pid : at'[t] \in Busy} = {t \in Pid : at[t] \in Busy} \union {current}
      BY <1>7, <1>b
    <3> QED BY <3>1, <3>2, <3>3, <3>4 DEF InCreation
  <2>2. p \notin Linked \union InCreation BY <1>6, <1>8 DEF Linked, InCreation
  <2>3. IsFiniteSet(Linked \union InCreation) BY <1>a, RingsFinite DEF RingInv
  <2>4. Linked' \union InCreation' = (Linked \union InCreation) \union {p} BY <1>9, <2>1
  <2>5. Cardinality(Linked' \union InCreation') = Cardinality(Linked \union InCreation) + 1
    BY <2>2, <2>3, <2>4, FS_AddElement
  <2> QED BY <1>2, <2>5 DEF RingInv, Numbered
<1> QED BY <1>10, <1>11, <1>12, <1>13, <1>14, <1>15 DEF RingInv

LEMMA NeighbourStep == LifeInv /\ RingInv /\ SpawnNeighbour => RingInv'
<1> SUFFICES ASSUME LifeInv, RingInv, SpawnNeighbour PROVE RingInv'
  OBVIOUS
<1>a. TypeOK BY DEF LifeInv, LockInv
<1>b. current \in Pid /\ at \in [Pid -> Place] /\ neighbour \in [Pid -> Pid \union {None}]
  BY <1>a DEF TypeOK
<1>1. /\ at[current] = "link_read"
      /\ at' = [at EXCEPT ![current] = "link_write"]
      /\ neighbour' = [neighbour EXCEPT ![current] = left[current]]
      /\ UNCHANGED <<right, left, child, taskCount, current, reap>>
  BY DEF SpawnNeighbour, At, Goto, ring, slots
<1>2. /\ \A q \in Pid : at'[q] = IF q = current THEN "link_write" ELSE at[q]
      /\ \A q \in Pid : neighbour'[q] = IF q = current THEN left[current] ELSE neighbour[q]
  BY <1>1, <1>b
<1>3. \A q \in Pid : /\ at'[q] \in Busy <=> at[q] \in Busy
                     /\ at'[q] = "free" <=> at[q] = "free"
                     /\ at'[q] = "dead" <=> at[q] = "dead"
  BY <1>1, <1>2 DEF Busy
<1>4. Linked' = Linked BY <1>1 DEF Linked
<1>5. Links' /\ Cycle' /\ OnRing' /\ Unborn' /\ Phases' /\ Victims'
  BY <1>1, <1>3, <1>4 DEF RingInv, Links, Cycle, Closed, OnRing, Unborn, Phases, Victims
<1>6. left[current] \in Linked BY DEF RingInv, Links, OnRing
<1>7. Created'
  <2> SUFFICES ASSUME NEW q \in Pid, at'[q] \in Busy
               PROVE  /\ child[q] \in Pid
                      /\ right[child[q]] = None /\ at'[child[q]] # "free"
                      /\ \A t \in Pid : at'[t] \in Busy /\ child[t] = child[q] => t = q
                      /\ at'[q] = "link_write" => neighbour'[q] \in Linked
    BY <1>1, <1>4 DEF Created
  <2> QED BY <1>2, <1>3, <1>6 DEF RingInv, Created
<1>8. Numbered'
  <2>1. {q \in Pid : at'[q] \in Busy} = {q \in Pid : at[q] \in Busy} BY <1>3
  <2>2. InCreation' = InCreation BY <1>1, <2>1 DEF InCreation
  <2> QED BY <1>1, <1>4, <2>2 DEF RingInv, Numbered
<1> QED BY <1>5, <1>7, <1>8 DEF RingInv

LEMMA AddStep == LifeInv /\ RingInv /\ sched_task_add_new => RingInv'
<1> SUFFICES ASSUME LifeInv, RingInv, sched_task_add_new PROVE RingInv'
  OBVIOUS
<1> DEFINE c == child[current]
<1>a. TypeOK BY DEF LifeInv, LockInv
<1>b. current \in Pid /\ at \in [Pid -> Place] BY <1>a DEF TypeOK
<1>c. None \notin Pid BY SchedAssumption
<1>1. /\ at[current] = "link_write"
      /\ at' = [at EXCEPT ![current] = "run"]
      /\ list_add(neighbour[current], c)
      /\ UNCHANGED <<child, neighbour, taskCount, current, reap>>
  BY DEF sched_task_add_new, At, Goto, slots, spawning
<1>2. \A q \in Pid : at'[q] = IF q = current THEN "run" ELSE at[q] BY <1>1, <1>b
<1>3. neighbour[current] \in Linked /\ c \in Pid /\ right[c] = None /\ at[c] # "free"
  BY <1>1, <1>b DEF RingInv, Created, Busy
<1>4. c \in Pid \ Linked BY <1>3 DEF Linked
<1> HIDE DEF c
<1>5. Linked' = Linked \union {c} /\ Links' /\ Cycle'
  BY <1>a, <1>1, <1>3, <1>4, AddLinks DEF RingInv
<1>6. \A q \in Pid : at'[q] \in Busy <=> at[q] \in Busy /\ q # current BY <1>2 DEF Busy
<1>7. \A q \in Pid : /\ at'[q] = "free" <=> at[q] = "free"
                     /\ at'[q] = "dead" <=> at[q] = "dead"
  BY <1>1, <1>2
<1>8. \A q \in Pid : at'[q] \in Busy => child[q] # c
  BY <1>1, <1>6, <1>b DEF RingInv, Created, Busy, c
<1>9. OnRing' BY <1>1, <1>5 DEF RingInv, OnRing
<1>10. \A q \in Pid : q # c => (right'[q] = None <=> right[q] = None)
  BY <1>5 DEF Linked
<1>11. Unborn' BY <1>3, <1>7, <1>10 DEF RingInv, Unborn
<1>12. Phases' BY <1>6, <1>7 DEF RingInv, Phases
<1>13. Created'
  <2> SUFFICES ASSUME NEW q \in Pid, at'[q] \in Busy
               PROVE  /\ child[q] \in Pid
                      /\ right'[child[q]] = None /\ at'[child[q]] # "free"
                      /\ \A t \in Pid : at'[t] \in Busy /\ child[t] = child[q] => t = q
                      /\ at'[q] = "link_write" => neighbour[q] \in Linked'
    BY <1>1 DEF Created
  <2>1. at[q] \in Busy /\ child[q] # c /\ q # current BY <1>6, <1>8
  <2>2. /\ child[q] \in Pid /\ right[child[q]] = None /\ at[child[q]] # "free"
        /\ at[q] = "link_write" => neighbour[q] \in Linked
        /\ \A t \in Pid : at[t] \in Busy /\ child[t] = child[q] => t = q
    BY <2>1 DEF RingInv, Created
  <2>3. right'[child[q]] = None /\ at'[child[q]] # "free" BY <1>7, <1>10, <2>1, <2>2
  <2>4. at'[q] = at[q] BY <1>2, <2>1
  <2> QED BY <1>5, <1>6, <2>2, <2>3, <2>4
<1>14. Victims' BY <1>1, <1>5 DEF RingInv, Victims
<1>15. Numbered'
  <2>1. Linked' \union InCreation' = Linked \union InCreation
    <3>1. c \in InCreation BY <1>1, <1>b DEF InCreation, Busy, c
    <3>2. InCreation' \subseteq InCreation BY <1>1, <1>6 DEF InCreation
    <3>3. InCreation \subseteq InCreation' \union {c} BY <1>1, <1>6 DEF InCreation, c
    <3> QED BY <1>5, <3>1, <3>2, <3>3
  <2> QED BY <1>1, <2>1 DEF RingInv, Numbered
<1> QED BY <1>5, <1>9, <1>11, <1>12, <1>13, <1>14, <1>15 DEF RingInv

LEMMA ExitStep == ~LateSpawn /\ LifeInv /\ RingInv /\ task_exit => RingInv'
<1> SUFFICES ASSUME ~LateSpawn, LifeInv, RingInv, task_exit PROVE RingInv'
  OBVIOUS
<1> DEFINE f == [victim |-> current, frees |-> FreeSteps]
           st == [state EXCEPT ![current] = "TERMINATED"]
<1>a. TypeOK /\ Life BY DEF LifeInv, LockInv
<1>b. current \in Pid /\ at \in [Pid -> Place] /\ reap \in [Pid -> Seq(Frames)]
  BY <1>a DEF TypeOK
<1>c. \A p \in Pid : at[p] \notin Busy BY DEF task_exit
<1>1. PICK next \in Pid :
        /\ next = sched_task_get_next(st, current, now)
        /\ current' = next
        /\ reap' = [reap EXCEPT ![next] = Append(@, f)]
  BY DEF task_exit
<1>2. /\ at[current] = "run"
      /\ at' = [at EXCEPT ![current] = "dead"]
      /\ WalkEnds(st, current, now)
      /\ UNCHANGED <<right, left, child, neighbour, taskCount>>
  BY DEF task_exit, Idle, At, Goto, ring, spawning
<1>3. \A q \in Pid : at'[q] = IF q = current THEN "dead" ELSE at[q] BY <1>2, <1>b
<1>4. f \in Frames /\ f.victim = current
  BY <1>b, SchedAssumption DEF Frames
<1> HIDE DEF st, f
<1>5. next \in Linked BY <1>1, <1>2, NextLinked DEF RingInv, OnRing
<1>6. Linked' = Linked BY <1>2 DEF Linked
<1>7. Links' /\ Cycle' /\ OnRing' BY <1>1, <1>2, <1>5, <1>6 DEF RingInv, Links, Cycle, Closed, OnRing
<1>8. \A q \in Pid : at'[q] \notin Busy BY <1>3, <1>c DEF Busy
<1>9. Phases' /\ Created' BY <1>8 DEF Phases, Created
<1>10. Unborn' BY <1>2, <1>3 DEF RingInv, Unborn
<1>11. Numbered'
  <2>1. InCreation = {} /\ InCreation' = {} BY <1>8, <1>c DEF InCreation
  <2> QED BY <1>2, <1>6, <2>1 DEF RingInv, Numbered
<1>12. ASSUME NEW p \in Pid, NEW k \in 1 .. Len(reap[p])
       PROVE  reap[p][k].victim # current
  <2>1. at[reap[p][k].victim] = "dead" BY <1>a DEF Life
  <2> QED BY <1>2, <2>1
<1>13. /\ Len(reap'[next]) = Len(reap[next]) + 1 /\ Len(reap[next]) \in Nat
       /\ \A k \in 1 .. Len(reap[next]) : reap'[next][k] = reap[next][k]
       /\ reap'[next][Len(reap[next]) + 1] = f
       /\ \A p \in Pid \ {next} : reap'[p] = reap[p]
  <2>1. reap'[next] = Append(reap[next], f) BY <1>1, <1>b
  <2>2. reap[next] \in Seq(Frames) BY <1>b
  <2> QED BY <1>1, <1>4, <1>b, <2>1, <2>2, AppendProperties, LenProperties
\* A frame of the next state is an old one or the new one.
<1>14. ASSUME NEW p \in Pid, NEW k \in 1 .. Len(reap'[p])
       PROVE  \/ k \in 1 .. Len(reap[p]) /\ reap'[p][k] = reap[p][k]
              \/ p = next /\ k = Len(reap[next]) + 1 /\ reap'[p][k].victim = current
  <2>1. CASE p # next BY <1>13, <2>1
  <2>2. CASE p = next
    <3>1. k \in 1 .. Len(reap[next]) \/ k = Len(reap[next]) + 1 BY <1>13, <2>2
    <3> QED BY <1>4, <1>13, <2>2, <3>1
  <2> QED BY <2>1, <2>2
<1>15. Victims'
  <2>1. ASSUME NEW p \in Pid, NEW k \in 1 .. Len(reap'[p]),
               NEW q \in Pid, NEW j \in 1 .. Len(reap'[q])
        PROVE  /\ reap'[p][k].victim \in Linked
               /\ reap'[q][j].victim = reap'[p][k].victim => q = p /\ j = k
    <3>1. CASE k \in 1 .. Len(reap[p]) /\ reap'[p][k] = reap[p][k]
      <4>1. reap[p][k].victim \in Linked /\ reap[p][k].victim # current
        BY <3>1, <1>12 DEF RingInv, Victims
      <4>2. CASE j \in 1 .. Len(reap[q]) /\ reap'[q][j] = reap[q][j]
        BY <3>1, <4>2 DEF RingInv, Victims
      <4>3. CASE reap'[q][j].victim = current BY <3>1, <4>1, <4>3
      <4> QED BY <1>14, <4>2, <4>3
    <3>2. CASE p = next /\ k = Len(reap[next]) + 1 /\ reap'[p][k].victim = current
      <4>1. current \in Linked BY DEF RingInv, OnRing
      <4>2. CASE j \in 1 .. Len(reap[q]) /\ reap'[q][j] = reap[q][j]
        BY <1>12, <3>2, <4>1, <4>2
      <4>3. CASE q = next /\ j = Len(reap[next]) + 1 BY <3>2, <4>1, <4>3
      <4> QED BY <1>14, <4>2, <4>3
    <3> QED BY <1>14, <3>1, <3>2
  <2> QED BY <1>6, <2>1 DEF Victims
<1> QED BY <1>7, <1>9, <1>10, <1>11, <1>15 DEF RingInv

LEMMA DoneStep == LifeInv /\ RingInv /\ ReapDone => RingInv'
<1> SUFFICES ASSUME LifeInv, RingInv, ReapDone PROVE RingInv'
  OBVIOUS
<1> DEFINE v == Frame.victim
           n == Len(reap[current])
<1>a. TypeOK /\ Life /\ OneRunner BY DEF LifeInv, LockInv
<1>b. current \in Pid /\ reap \in [Pid -> Seq(Frames)] BY <1>a DEF TypeOK
<1>1. /\ list_erase_cycle(v) /\ taskCount' = taskCount - 1
      /\ UNCHANGED <<child, neighbour, at, current>>
  BY DEF ReapDone, spawning
<1>2. n \in Nat \ {0} /\ v = reap[current][n]. victim
  BY <1>a, <1>b, TopFrame DEF ReapDone, Frame
<1>3. v \in Linked /\ at[v] = "dead" /\ v \in Pid
  BY <1>a, <1>b, <1>2 DEF RingInv, Victims, Life, Linked
<1>4. v # LAZY
  <2>1. LAZY \notin Mortals BY SchedAssumption
  <2> QED BY <1>3, <1>a, <2>1 DEF Life
<1>5. v # current BY <1>3, <1>a, CurrentAlive DEF Alive
<1> HIDE DEF v
<1>6. Linked' = Linked \ {v} /\ Links' /\ Cycle'
  BY <1>a, <1>1, <1>3, <1>4, EraseLinks DEF RingInv, OnRing
<1>7. OnRing' BY <1>1, <1>4, <1>5, <1>6 DEF RingInv, OnRing
<1>8. Unborn' BY <1>1, <1>6 DEF RingInv, Unborn, Linked
<1>9. \A q \in Pid : at[q] \notin Busy BY <1>3 DEF RingInv, Phases
<1>10. Phases' /\ Created' BY <1>1, <1>9 DEF Phases, Created
<1>11. Victims'
  <2>1. FramesKept /\ Len(reap'[current]) = n - 1 BY <1>a, ReapDoneFrames
  <2>2. ASSUME NEW p \in Pid, NEW k \in 1 .. Len(reap'[p]),
               NEW q \in Pid, NEW j \in 1 .. Len(reap'[q])
        PROVE  /\ reap'[p][k].victim \in Linked
               /\ reap'[p][k].victim # v
               /\ reap'[q][j].victim = reap'[p][k].victim => q = p /\ j = k
    <3>1. /\ k \in 1 .. Len(reap[p]) /\ reap'[p][k].victim = reap[p][k].victim
          /\ j \in 1 .. Len(reap[q]) /\ reap'[q][j].victim = reap[q][j].victim
      BY <2>1 DEF FramesKept
    <3>2. ~ (p = current /\ k = n) BY <1>2, <2>1
    <3>3. n \in 1 .. Len(reap[current]) BY <1>2
    <3> HIDE DEF n
    <3>4. reap[p][k].victim # v BY <1>2, <1>b, <3>1, <3>2, <3>3 DEF RingInv, Victims
    <3> QED BY <3>1, <3>4 DEF RingInv, Victims
  <2> QED BY <1>6, <2>2 DEF Victims
<1>12. Numbered'
  <2>1. InCreation = {} /\ InCreation' = {} BY <1>1, <1>9 DEF InCreation
  <2>2. IsFiniteSet(Linked) BY <1>a, RingsFinite
  <2>3. Cardinality(Linked \ {v}) = Cardinality(Linked) - 1 BY <1>3, <2>2, FS_RemoveElement
  <2> QED BY <1>1, <1>6, <2>1, <2>3 DEF RingInv, Numbered
<1> QED BY <1>6, <1>7, <1>8, <1>10, <1>11, <1>12 DEF RingInv

LEMMA RingInvStep == ~LateSpawn /\ LifeInv /\ RingInv /\ [Next]_vars => RingInv'
<1> SUFFICES ASSUME ~LateSpawn, LifeInv, RingInv, [Next]_vars PROVE RingInv'
  OBVIOUS
<1> USE DEF ring, slots, spawning
<1>a. TypeOK /\ Life /\ OneRunner BY DEF LifeInv, LockInv
<1>b. current \in Pid /\ at \in [Pid -> Place] BY <1>a DEF TypeOK
<1>c. current \in Linked BY DEF RingInv, OnRing
<1>d. UNCHANGED reap => FramesKept BY DEF FramesKept
\* Steps that leave links, places and frames alone.
<1>e. ASSUME UNCHANGED <<right, left, child, neighbour, taskCount, at, reap>>, current' \in Linked
      PROVE  RingInv'
  BY <1>d, <1>e, QuietStep DEF Quiet
\* Steps of current_task outside creation and destruction.
<1>f. ASSUME UNCHANGED <<right, left, child, neighbour, taskCount, reap>>, current' \in Linked,
             NEW place, Goto(place), place \notin {"free", "dead", "link_write"},
             at[current] \notin {"free", "dead"},
             at[current] \in Busy <=> place \in Busy
      PROVE  RingInv'
  <2>1. \A p \in Pid : at'[p] = IF p = current THEN place ELSE at[p] BY <1>b, <1>f DEF Goto
  <2> QED BY <1>d, <1>f, <2>1, QuietStep DEF Quiet
<1>1. CASE Tick BY <1>1, <1>c, <1>e, SwitchLinked DEF Tick, Stay
<1>2. CASE task_lock BY <1>2, <1>c, <1>e DEF task_lock
<1>3. CASE task_unlock BY <1>3, <1>e, YieldLinked DEF task_unlock
<1>4. CASE HwWait BY <1>4, <1>f, SwitchLinked DEF HwWait, At, Busy
<1>5. CASE HwDone BY <1>5, <1>c, <1>f DEF HwDone, At, Busy
<1>6. CASE SleepState BY <1>6, <1>c, <1>f DEF SleepState, Idle, At, Busy
<1>7. CASE SleepDeadline BY <1>7, <1>c, <1>f DEF SleepDeadline, At, Busy
<1>8. CASE SleepYield BY <1>8, <1>f, SwitchLinked DEF SleepYield, At, Busy
<1>9. CASE SleepReturn BY <1>9, <1>c, <1>f DEF SleepReturn, At, Busy
<1>10. CASE task_event_add BY <1>10, <1>f, YieldLinked DEF task_event_add, Idle, At, Busy
<1>11. CASE EventYield BY <1>11, <1>f, SwitchLinked DEF EventYield, At, Busy
<1>12. CASE task_event_flush BY <1>12, <1>e, YieldLinked DEF task_event_flush
<1>13. CASE DeviceIrq BY <1>13, <1>c, <1>e DEF DeviceIrq
<1>14. CASE IntWorkerLoop BY <1>14, <1>c, <1>e, SwitchLinked DEF IntWorkerLoop, Stay
<1>15. CASE SpawnSlot BY <1>15, SlotStep
<1>16. CASE SpawnAllocate BY <1>16, <1>f, YieldLinked DEF SpawnAllocate, At, Busy
<1>17. CASE SpawnNeighbour BY <1>17, NeighbourStep
<1>18. CASE sched_task_add_new BY <1>18, AddStep
<1>19. CASE task_exit BY <1>19, ExitStep
<1>20. CASE ReapFree
  <2>1. FramesKept BY <1>20, <1>a, ReapFreeFrames
  <2>2. current' \in Linked BY <1>20, YieldLinked DEF ReapFree
  <2>3. UNCHANGED <<right, left, child, neighbour, taskCount, at>> BY <1>20 DEF ReapFree
  <2> QED BY <2>1, <2>2, <2>3, QuietStep DEF Quiet
<1>21. CASE ReapDone BY <1>21, DoneStep
<1>22. CASE UNCHANGED vars BY <1>22, <1>c, <1>e DEF vars
<1> QED
  BY <1>1, <1>2, <1>3, <1>4, <1>5, <1>6, <1>7, <1>8, <1>9, <1>10, <1>11, <1>12, <1>13,
     <1>14, <1>15, <1>16, <1>17, <1>18, <1>19, <1>20, <1>21, <1>22
  DEF Next, Sleep, Event, Spawn, Destroy

LEMMA RingInvariant == ASSUME ~LateSpawn PROVE Spec => [](LifeInv /\ RingInv)
<1>1. LifeInv /\ RingInv /\ [Next]_vars => LifeInv' /\ RingInv' BY LifeInvStep, RingInvStep
<1> QED BY <1>1, LifeInvInit, RingInvInit, PTL DEF Spec

---------------------------------------------------------------------------

LEMMA RingIsIntact == LifeInv /\ RingInv => RingIntact
<1> SUFFICES ASSUME LifeInv, RingInv PROVE RingIntact OBVIOUS
<1>1. \A p \in Linked : left[p] \in Linked /\ right[left[p]] = p /\ left[right[p]] = p
  BY DEF RingInv, Links
<1>2. {Hop(current)[k] : k \in 1 .. MAX_TASKS} = Linked BY AllPassed DEF RingInv, OnRing
<1>3. ASSUME NEW p \in Linked \union InCreation, state[p] # "TERMINATED" PROVE p \in used
  <2>1. p \in Pid BY DEF Linked, InCreation, RingInv, Created
  <2>2. at[p] # "free" BY DEF Linked, InCreation, RingInv, Created, Unborn
  <2>3. at[p] # "dead" BY <1>3, <2>1 DEF LifeInv, Life
  <2> QED BY <2>1, <2>2, <2>3 DEF LifeInv, Life, Alive
<1> QED BY <1>1, <1>2, <1>3 DEF RingIntact, RingInv, Numbered

LEMMA AtMostOne ==
  ASSUME NEW S, \A f, g \in S : f = g
  PROVE  Cardinality(S) <= 1
<1>1. CASE S = {} BY <1>1, FS_EmptySet
<1>2. CASE S # {}
  <2>1. PICK f : S = {f} BY <1>2
  <2>2. Cardinality({f}) = 1 BY FS_Singleton
  <2>3. 1 <= 1 OBVIOUS
  <2> QED BY <2>1, <2>2, <2>3
<1> QED BY <1>1, <1>2

LEMMA OneDestroyer == LifeInv /\ RingInv => VictimsStayTerminated
<1> SUFFICES ASSUME LifeInv, RingInv, NEW p \in Pid
             PROVE  LET frames == {f \in Pid \X (1 .. MAX_TASKS) :
                                     f[2] <= Len(reap[f[1]]) /\ reap[f[1]][f[2]].victim = p}
                    IN /\ frames # {} => state[p] = "TERMINATED" /\ p \in Linked
                       /\ Cardinality(frames) <= 1
  BY DEF VictimsStayTerminated
<1> DEFINE frames == {f \in Pid \X (1 .. MAX_TASKS) :
                        f[2] <= Len(reap[f[1]]) /\ reap[f[1]][f[2]].victim = p}
<1>a. MAX_TASKS \in Nat BY SchedAssumption
<1>b. \A q \in Pid : Len(reap[q]) \in Nat
  BY LenProperties DEF LifeInv, LockInv, TypeOK
<1>1. ASSUME NEW f \in frames
      PROVE  /\ f = <<f[1], f[2]>> /\ f[1] \in Pid /\ f[2] \in 1 .. Len(reap[f[1]])
             /\ reap[f[1]][f[2]].victim = p
  <2>1. f[1] \in Pid /\ f[2] \in 1 .. MAX_TASKS /\ f = <<f[1], f[2]>> OBVIOUS
  <2> QED BY <1>a, <1>b, <2>1
<1> HIDE DEF frames
<1>2. ASSUME NEW f \in frames PROVE state[p] = "TERMINATED" /\ p \in Linked
  <2>1. at[p] = "dead" BY <1>1 DEF LifeInv, Life
  <2>2. p \in Linked BY <1>1 DEF RingInv, Victims
  <2> QED BY <2>1, <2>2 DEF LifeInv, Life
<1>3. ASSUME NEW f \in frames, NEW g \in frames PROVE f = g
  <2>1. f[1] = g[1] /\ f[2] = g[2] BY <1>1 DEF RingInv, Victims
  <2> QED BY <1>1, <2>1
<1>4. Cardinality(frames) <= 1 BY <1>3, AtMostOne
<1> QED BY <1>2, <1>4 DEF frames

\* While no task is created after one has exited: sched_task_add_new and
\* list_erase_cycle keep the nodes one doubly linked cycle through
\* current_task, which task_count and the bitmap of the pids agree with, though
\* each may be switched away from in the middle.
THEOREM RingStaysIntact == ASSUME ~LateSpawn PROVE Spec => []RingIntact
<1>1. LifeInv /\ RingInv => RingIntact BY RingIsIntact
<1> QED BY <1>1, RingInvariant, PTL

\* Under the same condition: what task_destroy_from_accumulator destroys is a
\* terminated task still on the ring, and no two destructions share a victim.
THEOREM VictimsAreOwned == ASSUME ~LateSpawn PROVE Spec => []VictimsStayTerminated
<1>1. LifeInv /\ RingInv => VictimsStayTerminated BY OneDestroyer
<1> QED BY <1>1, RingInvariant, PTL

\* From current_task sched_task_get_next ends its loop whatever the tasks'
\* states and whatever the time: it meets no NULL link and comes back.
WalkAlwaysEnds ==
  \A st \in [Pid -> TaskState], time \in Nat : WalkEnds(st, current, time)

\* Under the same condition: no tick and no yield, whenever it comes, hangs or
\* faults in the loop of sched_task_get_next.
THEOREM WalksEnd == ASSUME ~LateSpawn PROVE Spec => []WalkAlwaysEnds
<1>1. LifeInv /\ RingInv => WalkAlwaysEnds
  BY WalkReturns DEF RingInv, OnRing, WalkAlwaysEnds
<1> QED BY <1>1, RingInvariant, PTL
=============================================================================
