------------------------------- MODULE Sched -------------------------------
(***************************************************************************)
(* The task scheduler of the kernel: src/kernel/sched/{task.c, sched.c,    *)
(* task_event.c, task_switch.asm}, the interrupt paths that reach it       *)
(* (arch/interrupts.asm) and the intrusive ring it walks (lib/list.h).     *)
(*                                                                         *)
(* One processor.  A step is a piece of kernel code that the timer cannot  *)
(* split, or whose splitting nobody can observe; between two steps the     *)
(* timer interrupt may fire whenever interrupts are enabled.  All actions  *)
(* but Tick are taken by current_task; at[t] says where in the kernel      *)
(* task t is.                                                              *)
(*                                                                         *)
(* What a task's program asks of the kernel is not fixed: the constants    *)
(* name the tasks that may use each service.                               *)
(***************************************************************************)
EXTENDS Integers, Sequences, FiniteSets, FiniteSetsExt

CONSTANTS
  MAX_TASKS,   \* slots of tasks[], 32 in the code
  Lockers,     \* tasks that run TASK_LOCKED_FUNCTION sections
  HwUsers,     \* tasks that wait for the disk controller (ahci.c)
  HwDepths,    \* nesting depths of task_lock at which they may wait for it
  Sleepers,    \* tasks that call task_sleep
  Waiters,     \* tasks that call task_wait_until on the event
  Wakers,      \* tasks that call task_event_flush on the event
  Spawners,    \* tasks that create tasks
  Mortals,     \* tasks that call task_exit
  LateSpawn,   \* may a task be created once a task has exited?
  FreeSteps,   \* locked sections (free, page_dict_destroy, ...) of one destruction
  MaxDepth,    \* bound on the nesting of task_lock
  MaxSpawn,    \* bound on the number of tasks created after boot
  MaxTime,     \* the clock stops here, the timer does not
  SleepTimes,  \* arguments of task_sleep
  None         \* the NULL pointer

Pid == 0 .. MAX_TASKS - 1
LAZY == 0      \* lazy_task
KERNEL == 1    \* kernel_task
INT_WORKER == 2

ASSUME SchedAssumption ==
  /\ MAX_TASKS \in Nat /\ MAX_TASKS >= 3
  /\ UNION {Lockers, HwUsers, Sleepers, Waiters, Wakers, Spawners} \subseteq Pid \ {LAZY}
  /\ INT_WORKER \notin Sleepers \union Waiters \union Mortals
  /\ Mortals \subseteq Pid \ {LAZY, KERNEL}
  /\ HwDepths \subseteq Nat /\ SleepTimes \subseteq Nat
  /\ LateSpawn \in BOOLEAN
  /\ FreeSteps \in Nat /\ MaxDepth \in Nat /\ MaxSpawn \in Nat /\ MaxTime \in Nat
  /\ None \notin Pid

VARIABLES
  state,        \* tasks[p].sched.state
  right, left,  \* tasks[p].sched.node
  activation,   \* tasks[p].sched.activation_time
  used,         \* tasks_used_bitmap: the pids whose bit is set
  prId,         \* tasks_pr_id
  taskCount,    \* task_count
  current,      \* current_task
  locked,       \* the global counter of task_lock
  skipped,      \* skipped_tasks_tick
  acc,          \* to_destroy_accumulator
  now,          \* timer_get_time(), in timer ticks
  waiters,      \* the pids on the list of the event
  pending,      \* int_worker_pending
  at,           \* where each task is in the kernel
  depth,        \* TASK_LOCKED_FUNCTION guards open in each slot's task
  child,        \* the task a spawner is creating
  neighbour,    \* current_task->sched.node.left as the spawner read it
  reap,         \* task_destroy_from_accumulator frames on each task's stack
  spawned       \* tasks created so far, for the bound MaxSpawn

ring == <<right, left>>
slots == <<used, prId, taskCount>>
spawning == <<child, neighbour, spawned>>
vars == <<state, ring, activation, slots, current, locked, skipped, acc, now,
          waiters, pending, at, depth, spawning, reap>>

TaskState == {"FREE", "TERMINATED", "RUNNING", "READY", "SLEEPING", "WAITING"}

Place == {"free", "run", "hw", "sleep_set", "sleep_due", "asleep", "event_added",
          "prefix", "link_read", "link_write", "dead"}

Busy == {"prefix", "link_read", "link_write"}

\* A task_destroy_from_accumulator in progress on some task's stack.
Frames == [victim : Pid, frees : Nat]

---------------------------------------------------------------------------
(* Choosing the next task: sched.c.                                        *)

\* The k-th node to the right of c; None once a NULL link has been followed.
Hop(c) ==
  LET hop[k \in 0 .. MAX_TASKS] ==
        IF k = 0 THEN c
        ELSE LET prev == hop[k - 1] IN IF prev = None THEN None ELSE right[prev]
  IN hop

\* READY or RUNNING once _proc_task_state has looked at the task.
Runnable(st, p, time) ==
  /\ p # LAZY
  /\ \/ st[p] \in {"READY", "RUNNING"}
     \/ st[p] = "SLEEPING" /\ time >= activation[p]

\* The hops after which the loop of sched_task_get_next stops.  There is none
\* when a NULL link comes first or c is not on the ring it walks: the machine
\* then faults or hangs.
Stops(st, c, time) ==
  LET hop == Hop(c)
  IN {k \in 1 .. MAX_TASKS : hop[k] \in Pid /\ (hop[k] = c \/ Runnable(st, hop[k], time))}

WalkEnds(st, c, time) == Stops(st, c, time) # {}

Visited(st, c, time) ==
  LET hop == Hop(c) IN {hop[k] : k \in 1 .. Min(Stops(st, c, time))}

sched_task_get_next(st, c, time) ==
  LET last == Hop(c)[Min(Stops(st, c, time))]
  IN IF Runnable(st, last, time) THEN last ELSE LAZY

\* Mutant: every due task is readied, whatever its state.
_proc_task_state_due(st, c, time) ==
  [p \in Pid |-> IF p \notin Visited(st, c, time) THEN st[p]
                 ELSE IF p = LAZY THEN "WAITING"
                 ELSE IF time >= activation[p] THEN "READY" ELSE st[p]]

\* The states the walk leaves behind.
_proc_task_state(st, c, time) ==
  LET seen == Visited(st, c, time)
  IN [p \in Pid |->
        IF p \notin seen THEN st[p]
        ELSE IF p = LAZY THEN "WAITING"
        ELSE IF st[p] = "SLEEPING" /\ time >= activation[p] THEN "READY"
        ELSE st[p]]

\* A terminated task the walk passes loses its pid (tasks_erase_task).
ErasedPids(st, c, time) ==
  {p \in Visited(st, c, time) : p # LAZY /\ st[p] = "TERMINATED"}

---------------------------------------------------------------------------
(* Switching: task_switch_from_isr, reached by int 0x30 and by the timer.  *)

\* Mutant: task_switch_prepare_state forgets the task that leaves.
Switch_forgets(st, time) ==
  /\ WalkEnds(st, current, time)
  /\ current' \in {sched_task_get_next(st, current, time)}
  /\ state' = [_proc_task_state(st, current, time) EXCEPT ![current'] = "RUNNING"]
  /\ used' = used \ ErasedPids(st, current, time)

\* task_switch_prepare with the task states st.
Switch(st, time) ==
  /\ WalkEnds(st, current, time)
  /\ \E next \in Pid :
       /\ next = sched_task_get_next(st, current, time)
       /\ LET seen == _proc_task_state(st, current, time)
          IN state' = [seen EXCEPT ![current] = IF @ = "RUNNING" THEN "READY" ELSE @,
                                   ![next] = "RUNNING"]
       /\ current' = next
  /\ used' = used \ ErasedPids(st, current, time)

Stay(st) == state' = st /\ UNCHANGED <<current, used>>

\* Mutant: the ticks skipped inside a section are lost.
YieldIfSkipped_lost(st, n) == Stay(st)

\* The end of task_unlock, when the counter has come down to n.
YieldIfSkipped(st, n) ==
  IF n = 0 /\ skipped THEN Switch(st, now) ELSE Stay(st)

\* Mutants: the counter of task_lock is not asked; the clock stands still
\* while it is not zero.
Tick_preempts ==
  /\ reap[current] = <<>>
  /\ now' = IF now < MaxTime THEN now + 1 ELSE now
  /\ Switch(state, now')
  /\ UNCHANGED <<ring, activation, prId, taskCount, locked, skipped, acc, waiters,
                 pending, at, depth, spawning, reap>>
Tick_stands ==
  /\ reap[current] = <<>>
  /\ now' = IF now < MaxTime /\ locked = 0 THEN now + 1 ELSE now
  /\ IF locked > 0 THEN skipped' = TRUE /\ Stay(state)
                   ELSE Switch(state, now') /\ UNCHANGED skipped
  /\ UNCHANGED <<ring, activation, prId, taskCount, locked, acc, waiters, pending, at,
                 depth, spawning, reap>>

\* IRQ0.  The counter of the timer advances, tasks_tick asks for a switch
\* unless somebody holds the lock, and irq_common makes it.  The flag
\* skipped_tasks_tick is set here and never cleared.
Tick ==
  /\ reap[current] = <<>>   \* task_exit runs with interrupts disabled
  /\ now' = IF now < MaxTime THEN now + 1 ELSE now
  /\ IF locked > 0
     THEN /\ skipped' = TRUE
          /\ Stay(state)
     ELSE /\ WalkEnds(state, current, now')
          /\ IF sched_task_get_next(state, current, now') # current
             THEN Switch(state, now')
             ELSE /\ state' = _proc_task_state(state, current, now')
                  /\ used' = used \ ErasedPids(state, current, now')
                  /\ UNCHANGED current
          /\ UNCHANGED skipped
  /\ UNCHANGED <<ring, activation, prId, taskCount, locked, acc, waiters, pending, at,
                 depth, spawning, reap>>

---------------------------------------------------------------------------
(* The services.  Idle(U): the running task belongs to U and executes its  *)
(* own code.                                                               *)

At(place) == reap[current] = <<>> /\ at[current] = place
Idle(U) == current \in U /\ At("run")
Goto(place) == at' = [at EXCEPT ![current] = place]

\* Mutant: only the outermost exit counts.
task_unlock_outermost ==
  /\ At("run")
  /\ depth[current] > 0
  /\ locked' = IF depth[current] = 1 THEN locked - 1 ELSE locked
  /\ depth' = [depth EXCEPT ![current] = @ - 1]
  /\ YieldIfSkipped(state, locked')
  /\ UNCHANGED <<ring, activation, prId, taskCount, skipped, acc, now, waiters, pending,
                 at, spawning, reap>>

task_lock ==
  /\ Idle(Lockers)
  /\ depth[current] < MaxDepth
  /\ locked' = locked + 1
  /\ depth' = [depth EXCEPT ![current] = @ + 1]
  /\ UNCHANGED <<state, ring, activation, slots, current, skipped, acc, now,
                 waiters, pending, at, spawning, reap>>

task_unlock ==
  /\ At("run")
  /\ depth[current] > 0
  /\ locked' = locked - 1
  /\ depth' = [depth EXCEPT ![current] = @ - 1]
  /\ YieldIfSkipped(state, locked - 1)
  /\ UNCHANGED <<ring, activation, prId, taskCount, skipped, acc, now, waiters, pending,
                 at, spawning, reap>>

\* One turn of a loop `while (busy) task_yield()` of the disk driver.
HwWait ==
  /\ current \in HwUsers
  /\ At("run") \/ At("hw")
  /\ depth[current] \in HwDepths
  /\ Goto("hw")
  /\ Switch(state, now)
  /\ UNCHANGED <<ring, activation, prId, taskCount, locked, skipped, acc, now,
                 waiters, pending, depth, spawning, reap>>

\* The controller has answered: the loop ends.
HwDone ==
  /\ At("hw")
  /\ Goto("run")
  /\ UNCHANGED <<state, ring, activation, slots, current, locked, skipped, acc,
                 now, waiters, pending, depth, spawning, reap>>

\* task_sleep: the state first, then the deadline, then int 0x30.
SleepState ==
  /\ Idle(Sleepers)
  /\ depth[current] = 0
  /\ state' = [state EXCEPT ![current] = "SLEEPING"]
  /\ Goto("sleep_set")
  /\ UNCHANGED <<ring, activation, slots, current, locked, skipped, acc, now,
                 waiters, pending, depth, spawning, reap>>

SleepDeadline ==
  /\ At("sleep_set")
  /\ \E ms \in SleepTimes :
       activation' = [activation EXCEPT ![current] = IF now + ms < MaxTime THEN now + ms ELSE MaxTime]
  /\ Goto("sleep_due")
  /\ UNCHANGED <<state, ring, slots, current, locked, skipped, acc, now,
                 waiters, pending, depth, spawning, reap>>

SleepYield ==
  /\ At("sleep_due")
  /\ Goto("asleep")
  /\ Switch(state, now)
  /\ UNCHANGED <<ring, activation, prId, taskCount, locked, skipped, acc, now,
                 waiters, pending, depth, spawning, reap>>

SleepReturn ==
  /\ At("asleep")
  /\ Goto("run")
  /\ UNCHANGED <<state, ring, activation, slots, current, locked, skipped, acc,
                 now, waiters, pending, depth, spawning, reap>>

\* task_wait_until: task_event_add under the lock, then int 0x30.
task_event_add ==
  /\ Idle(Waiters)
  /\ depth[current] = 0
  /\ waiters' = waiters \union {current}
  /\ Goto("event_added")
  /\ YieldIfSkipped([state EXCEPT ![current] = "WAITING"], locked)
  /\ UNCHANGED <<ring, activation, prId, taskCount, locked, skipped, acc, now,
                 pending, depth, spawning, reap>>

EventYield ==
  /\ At("event_added")
  /\ Goto("run")
  /\ Switch(state, now)
  /\ UNCHANGED <<ring, activation, prId, taskCount, locked, skipped, acc, now,
                 waiters, pending, depth, spawning, reap>>

\* Mutant: the list is dropped after its first waiter.
task_event_flush_first ==
  /\ Idle(Wakers)
  /\ waiters' = {}
  /\ YieldIfSkipped([p \in Pid |-> IF waiters # {} /\ p = Min(waiters) THEN "READY" ELSE state[p]],
                    locked)
  /\ UNCHANGED <<ring, activation, prId, taskCount, locked, skipped, acc, now,
                 pending, at, depth, spawning, reap>>

task_event_flush ==
  /\ Idle(Wakers)
  /\ waiters' = {}
  /\ YieldIfSkipped([p \in Pid |-> IF p \in waiters THEN "READY" ELSE state[p]], locked)
  /\ UNCHANGED <<ring, activation, prId, taskCount, locked, skipped, acc, now,
                 pending, at, depth, spawning, reap>>

---------------------------------------------------------------------------
(* The bottom half of the interrupts: int_worker.c, without its queue,     *)
(* which is the subject of module IntWorker.                               *)

\* A device interrupt: int_worker_add readies the worker whatever its state.
DeviceIrq ==
  /\ reap[current] = <<>>
  /\ pending' = TRUE
  /\ state' = [state EXCEPT ![INT_WORKER] = "READY"]
  /\ UNCHANGED <<ring, activation, slots, current, locked, skipped, acc, now,
                 waiters, at, depth, spawning, reap>>

\* The head of int_worker_task's loop, with interrupts disabled.
IntWorkerLoop ==
  /\ Idle({INT_WORKER})
  /\ depth[current] = 0
  /\ IF pending
     THEN Stay(state)
     ELSE Switch([state EXCEPT ![INT_WORKER] = "WAITING"], now)
  /\ pending' = FALSE
  /\ UNCHANGED <<ring, activation, prId, taskCount, locked, skipped, acc, now,
                 waiters, at, depth, spawning, reap>>

---------------------------------------------------------------------------
(* Creating a task.                                                        *)

\* bitmap_alloc_interval(tasks_used_bitmap, from, 1)
FirstFree(from) ==
  LET free == {p \in Pid : p >= from /\ p \notin used}
  IN IF free = {} THEN MAX_TASKS ELSE Min(free)

_tasks_get_free_id ==
  IF FirstFree(prId) # MAX_TASKS THEN FirstFree(prId) ELSE FirstFree(0)

\* _task_init_prefix up to ++task_count: no lock is held, and the slot is
\* READY before it is on the ring.
SpawnSlot ==
  /\ Idle(Spawners)
  /\ spawned < MaxSpawn
  /\ LateSpawn \/ \A p \in Pid : at[p] # "dead"
  /\ taskCount < MAX_TASKS   \* ASSERT
  /\ \E p \in Pid :          \* ASSERT: a pid is free
       /\ p = _tasks_get_free_id
       /\ used' = used \union {p}
       /\ prId' = p
       /\ state' = [state EXCEPT ![p] = "READY"]
       /\ child' = [child EXCEPT ![current] = p]
       /\ at' = [at EXCEPT ![current] = "prefix", ![p] = "run"]
       /\ reap' = [reap EXCEPT ![p] = <<>>]
  /\ taskCount' = taskCount + 1
  /\ spawned' = spawned + 1
  /\ UNCHANGED <<ring, activation, current, locked, skipped, acc, now, waiters, pending,
                 depth, neighbour>>

\* The rest of _task_init_prefix: alligned_malloc, the input streams and the
\* FPU context each open and close a locked section.
SpawnAllocate ==
  /\ At("prefix")
  /\ Goto("link_read")
  /\ YieldIfSkipped(state, locked)
  /\ UNCHANGED <<ring, activation, prId, taskCount, locked, skipped, acc, now,
                 waiters, pending, depth, spawning, reap>>

\* sched_task_add_new reads the node left of current_task ...
SpawnNeighbour ==
  /\ At("link_read")
  /\ neighbour' = [neighbour EXCEPT ![current] = left[current]]
  /\ Goto("link_write")
  /\ UNCHANGED <<state, ring, activation, slots, current, locked, skipped, acc,
                 now, waiters, pending, depth, child, spawned, reap>>

\* Mutant: the right neighbour keeps its old left link.
list_add_one_way(l, node) ==
  /\ right' = [right EXCEPT ![l] = node, ![node] = right[l]]
  /\ left' = [left EXCEPT ![node] = l]

\* ... and list_add puts the new node to the right of it.
list_add(l, node) ==
  LET r == IF l = node THEN None ELSE right[l]
  IN /\ right' = [right EXCEPT ![l] = node, ![node] = r]
     /\ left' = [p \in Pid |-> IF p = r THEN node ELSE IF p = node THEN l ELSE left[p]]

sched_task_add_new ==
  /\ At("link_write")
  /\ neighbour[current] \in Pid
  /\ child[current] \in Pid
  /\ list_add(neighbour[current], child[current])
  /\ Goto("run")
  /\ UNCHANGED <<state, activation, slots, current, locked, skipped, acc, now,
                 waiters, pending, depth, spawning, reap>>

---------------------------------------------------------------------------
(* Destroying a task.                                                      *)

\* Mutant: goto_current_task does not look at the accumulator.
task_exit_unclaimed ==
  /\ Idle(Mortals)
  /\ depth[current] = 0
  /\ spawned = MaxSpawn /\ \A p \in Pid : at[p] \notin Busy
  /\ acc' = current
  /\ Switch([state EXCEPT ![current] = "TERMINATED"], now)
  /\ Goto("dead")
  /\ UNCHANGED <<ring, activation, prId, taskCount, locked, skipped, now,
                 waiters, pending, depth, spawning, reap>>

\* Interrupts go off; the victim hands itself to the next task, which
\* destroys it on its own stack before it resumes (goto_current_task).
task_exit ==
  /\ Idle(Mortals)
  /\ depth[current] = 0
  /\ LateSpawn \/ (spawned = MaxSpawn /\ \A p \in Pid : at[p] \notin Busy)
  /\ acc' = current
  /\ LET st == [state EXCEPT ![current] = "TERMINATED"]
     IN /\ WalkEnds(st, current, now)
        /\ \E next \in Pid :
             /\ next = sched_task_get_next(st, current, now)
             /\ state' = [_proc_task_state(st, current, now) EXCEPT ![next] = "RUNNING"]
             /\ current' = next
             /\ reap' = [reap EXCEPT ![next] = Append(@, [victim |-> current, frees |-> FreeSteps])]
        /\ used' = used \ ErasedPids(st, current, now)
  /\ Goto("dead")
  /\ UNCHANGED <<ring, activation, prId, taskCount, locked, skipped, now,
                 waiters, pending, depth, spawning>>

Frame == reap[current][Len(reap[current])]

\* One of the calls that release the victim's memory.  Each opens and closes
\* a locked section, and so may yield although interrupts are disabled.
ReapFree ==
  /\ reap[current] # <<>>
  /\ Frame.frees > 0
  /\ reap' = [reap EXCEPT ![current][Len(reap[current])].frees = @ - 1]
  /\ YieldIfSkipped(state, locked)
  /\ UNCHANGED <<ring, activation, prId, taskCount, locked, skipped, acc, now,
                 waiters, pending, at, depth, spawning>>

list_erase_cycle(node) ==
  /\ right' = [p \in Pid |-> IF p = node THEN None
                             ELSE IF p = left[node] THEN right[node] ELSE right[p]]
  /\ left' = [p \in Pid |-> IF p = node THEN None
                            ELSE IF p = right[node] THEN left[node] ELSE left[p]]

\* The end of task_destroy_from_accumulator; the task's own code resumes.
ReapDone ==
  /\ reap[current] # <<>>
  /\ Frame.frees = 0
  /\ used' = used \ {Frame.victim}
  /\ taskCount' = taskCount - 1
  /\ waiters' = waiters \ {Frame.victim}   \* task_input_unregister
  /\ list_erase_cycle(Frame.victim)
  /\ acc' = None
  /\ reap' = [reap EXCEPT ![current] = SubSeq(@, 1, Len(@) - 1)]
  /\ UNCHANGED <<state, activation, prId, current, locked, skipped, now,
                 pending, at, depth, spawning>>

---------------------------------------------------------------------------

\* tasks_init and tasks_start: three tasks, each linked to the left of
\* current_task, and the kernel task is entered while its state is READY.
Boot == {LAZY, KERNEL, INT_WORKER}

Init ==
  /\ state = [p \in Pid |-> IF p \in Boot THEN "READY" ELSE "FREE"]
  /\ right = [p \in Pid |-> CASE p = LAZY -> INT_WORKER [] p = INT_WORKER -> KERNEL
                              [] p = KERNEL -> LAZY [] OTHER -> None]
  /\ left = [p \in Pid |-> CASE p = LAZY -> KERNEL [] p = INT_WORKER -> LAZY
                             [] p = KERNEL -> INT_WORKER [] OTHER -> None]
  /\ activation = [p \in Pid |-> 0]
  /\ used = Boot
  /\ prId = INT_WORKER
  /\ taskCount = 3
  /\ current = KERNEL
  /\ locked = 0
  /\ skipped = FALSE
  /\ acc = None
  /\ now = 0
  /\ waiters = {}
  /\ pending = FALSE
  /\ at = [p \in Pid |-> IF p \in Boot THEN "run" ELSE "free"]
  /\ depth = [p \in Pid |-> 0]
  /\ child = [p \in Pid |-> None]
  /\ neighbour = [p \in Pid |-> None]
  /\ reap = [p \in Pid |-> <<>>]
  /\ spawned = 0

Sleep == SleepState \/ SleepDeadline \/ SleepYield \/ SleepReturn
Event == task_event_add \/ EventYield \/ task_event_flush
Spawn == SpawnSlot \/ SpawnAllocate \/ SpawnNeighbour \/ sched_task_add_new
Destroy == task_exit \/ ReapFree \/ ReapDone

Next ==
  \/ Tick
  \/ task_lock \/ task_unlock
  \/ HwWait \/ HwDone
  \/ Sleep
  \/ Event
  \/ DeviceIrq
  \/ IntWorkerLoop
  \/ Spawn
  \/ Destroy

Spec == Init /\ [][Next]_vars

---------------------------------------------------------------------------
(* Fairness.  IRQ0 keeps firing; a locked section ends, and so does what   *)
(* runs inside one, since nothing takes the processor away from it; a      *)
(* destruction runs with interrupts disabled.  Nothing else is promised: a *)
(* program may compute, sleep or wait as long as it likes.                 *)

Fairness ==
  /\ WF_vars(Tick)
  /\ WF_vars(task_unlock)
  /\ WF_vars(SpawnAllocate \/ SpawnNeighbour \/ sched_task_add_new)
  /\ WF_vars(ReapFree \/ ReapDone)
FairSpec == Spec /\ Fairness

---------------------------------------------------------------------------
(* Properties.                                                             *)

\* Every variable has its type; the counters never go below zero.
TypeOK ==
  /\ state \in [Pid -> TaskState]
  /\ right \in [Pid -> Pid \union {None}]
  /\ left \in [Pid -> Pid \union {None}]
  /\ activation \in [Pid -> Nat]
  /\ used \subseteq Pid
  /\ prId \in Pid
  /\ taskCount \in Int
  /\ current \in Pid
  /\ locked \in Nat
  /\ skipped \in BOOLEAN
  /\ acc \in Pid \union {None}
  /\ now \in Nat
  /\ waiters \subseteq Pid
  /\ pending \in BOOLEAN
  /\ at \in [Pid -> Place]
  /\ depth \in [Pid -> Nat]
  /\ child \in [Pid -> Pid \union {None}]
  /\ neighbour \in [Pid -> Pid \union {None}]
  /\ reap \in [Pid -> Seq(Frames)]
  /\ spawned \in Nat

\* The guards of TASK_LOCKED_FUNCTION that are open: one pair per nesting level.
HeldLevels == UNION {{p} \X (1 .. depth[p]) : p \in Pid}

\* The global counter of task_lock/task_unlock counts exactly the guards open
\* in all the tasks, also across the switches made while it is not zero: it is
\* what tasks_tick and task_unlock decide by.
LockCount == locked = Cardinality(HeldLevels)

\* A task that is not running is outside every locked section, unless it left
\* the processor itself in the disk driver's wait loop: the timer and the
\* yield of task_unlock never take the processor away inside a section.
HoldersRunOrWait == \A p \in Pid : depth[p] > 0 /\ p # current => at[p] = "hw"

Linked == {p \in Pid : right[p] # None}
InCreation == {child[p] : p \in {q \in Pid : at[q] \in Busy}}

\* The scheduler's ring is one doubly linked cycle through current_task, and
\* task_count and the pid bitmap agree with what is on it: list_add and
\* list_erase_cycle run without the lock, between arbitrary switches.
RingIntact ==
  /\ \A p \in Linked : left[p] \in Linked /\ right[left[p]] = p /\ left[right[p]] = p
  /\ {Hop(current)[k] : k \in 1 .. MAX_TASKS} = Linked
  /\ taskCount = Cardinality(Linked \union InCreation)
  /\ \A p \in Linked \union InCreation : state[p] # "TERMINATED" => p \in used

\* At most one task is RUNNING, it is current_task, and current_task is a live
\* task, whichever of sleep, event, tick, exit and yield chose it.
OneRunner ==
  /\ \A p \in Pid : state[p] = "RUNNING" => p = current
  /\ state[current] \notin {"FREE", "TERMINATED"}

\* A task is WAITING exactly while it is on the list of the event, so that a
\* flush finds every waiting task and wakes no other (task_event_add and
\* task_event_flush against preemption between add and yield).
NoLostWaiter ==
  \A p \in Pid \ {LAZY, INT_WORKER} : state[p] = "WAITING" <=> p \in waiters

\* A slot under destruction still holds the terminated task, is still on the
\* ring, and is destroyed by one frame only, although the destroying task may
\* be switched away from in the middle (task_destroy_from_accumulator).
VictimsStayTerminated ==
  \A p \in Pid :
    LET frames == {f \in Pid \X (1 .. MAX_TASKS) :
                     f[2] <= Len(reap[f[1]]) /\ reap[f[1]][f[2]].victim = p}
    IN /\ frames # {} => state[p] = "TERMINATED" /\ p \in Linked
       /\ Cardinality(frames) <= 1

\* task_sleep(ms) does not return before ms have passed since the deadline was
\* computed (sys_sleep, sys_nanosleep).
SleepLastsLongEnough == [][SleepReturn => now >= activation[current]]_vars

\* A READY task on the ring is run again: ticks skipped inside locked sections
\* are made up for by task_unlock.
ReadyRuns == \A p \in Pid \ {LAZY} : (state[p] = "READY" /\ p \in Linked) ~> (current = p)

\* A sleeping task is woken, though only the walk of sched_task_get_next looks
\* at its deadline.
SleeperWakes == \A p \in Pid : state[p] = "SLEEPING" ~> (current = p /\ state[p] = "RUNNING")

\* A task that has exited is taken off the ring, though its destroyer may be
\* switched away from half way.
ExitCompletes == \A p \in Pid : at[p] = "dead" ~> (p \notin Linked)
=============================================================================
