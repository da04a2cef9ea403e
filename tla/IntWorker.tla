----------------------------- MODULE IntWorker -----------------------------
(***************************************************************************)
(* Deferred interrupt handling: kernel/int_worker.c over the ring of       *)
(* lib/ring.c, and its caller in arch/isr.c.                               *)
(*                                                                         *)
(* The producer is the interrupt (int_worker_add runs with interrupts      *)
(* disabled, so an action is one interrupt); the consumer is the kernel    *)
(* task int_worker_task, which an interrupt may split anywhere but between *)
(* its cli and its sti.  The scheduler is what module Sched shows of it:   *)
(* it may take the processor away at any tick and gives it to a READY task *)
(* again.                                                                  *)
(***************************************************************************)
EXTENDS Ring

Interrupts == Elements  \* numbers that have a bottom handler (keyboard, mouse)

VARIABLES
  irq_queue, \* int_worker_queue
  pending,   \* int_worker_pending
  state,     \* the task state of the worker
  running,   \* is the worker current_task?
  at,        \* where the worker is in int_worker_task
  data,      \* its local isr_data_t; {} before the first pop
  handling,  \* the interrupt whose handler was called last, {} at first
  flip,      \* of the number of interrupts taken so far: a history variable
  halted     \* PANIC or a failed ASSERT has stopped the machine

worker == <<at, data, handling>>
intVars == <<irq_queue, pending, state, running, worker, flip, halted>>

---------------------------------------------------------------------------
(* The interrupt.                                                          *)

\* Mutant: a full queue drops the interrupt.
int_worker_add_drops(i) ==
  /\ irq_queue' = IF ring_full(irq_queue) THEN irq_queue ELSE Pushed(irq_queue, i)
  /\ pending' = TRUE
  /\ state' = "READY"
  /\ flip' = 1 - flip
  /\ UNCHANGED <<running, worker, halted>>

int_worker_add(i) ==
  IF ring_full(irq_queue)
  THEN /\ halted' = TRUE   \* PANIC("INT WORKER QUEUE OVERFLOW")
       /\ UNCHANGED <<irq_queue, pending, state, running, worker, flip>>
  ELSE /\ irq_queue' = Pushed(irq_queue, i)
       /\ pending' = TRUE
       /\ state' = "READY"
       /\ flip' = 1 - flip
       /\ UNCHANGED <<running, worker, halted>>

\* irq_common: the top handler, then invoke_deffered_bottom_handler.
Irq == ~halted /\ \E i \in Interrupts : int_worker_add(i)

---------------------------------------------------------------------------
(* The scheduler, as far as the worker sees it.                            *)

SwitchAway ==
  /\ running' = FALSE
  /\ state' = IF state = "RUNNING" THEN "READY" ELSE state

\* A tick takes the processor away.
Preempt ==
  /\ running /\ ~halted
  /\ SwitchAway
  /\ UNCHANGED <<irq_queue, pending, worker, flip, halted>>

Dispatch ==
  /\ ~running /\ ~halted
  /\ state = "READY"
  /\ running' = TRUE
  /\ state' = "RUNNING"
  /\ UNCHANGED <<irq_queue, pending, worker, flip, halted>>

---------------------------------------------------------------------------
(* int_worker_task, from the head of its loop.                             *)

Step(from, to) == running /\ ~halted /\ at = from /\ at' = to

\* Mutant: without the cli an interrupt comes between the test and the state.
Check_interruptible ==
  \/ /\ pending
     /\ Step("check", "assert")
     /\ UNCHANGED <<irq_queue, pending, state, running, data, handling, flip, halted>>
  \/ /\ Step("check", "yield")
     /\ state' = "WAITING"
     /\ UNCHANGED <<irq_queue, pending, running, data, handling, flip, halted>>

\* The test of the flag and, when it is clear, the state, under cli.
Check ==
  \/ /\ pending
     /\ Step("check", "assert")
     /\ UNCHANGED <<irq_queue, pending, state, running, data, handling, flip, halted>>
  \/ /\ ~pending
     /\ Step("check", "yield")
     /\ state' = "WAITING"
     /\ UNCHANGED <<irq_queue, pending, running, data, handling, flip, halted>>

\* task_yield, with interrupts enabled again: one may have come before it.
Yield ==
  /\ Step("yield", "assert")
  /\ SwitchAway
  /\ UNCHANGED <<irq_queue, pending, data, handling, flip, halted>>

\* ASSERT(!ring_full(irq_queue))
Assert ==
  /\ IF ring_full(irq_queue)
     THEN /\ running /\ ~halted /\ at = "assert"
          /\ halted' = TRUE
          /\ UNCHANGED at
     ELSE /\ Step("assert", "clear")
          /\ UNCHANGED halted
  /\ UNCHANGED <<irq_queue, pending, state, running, data, handling, flip>>

Clear ==
  /\ Step("clear", "loop")
  /\ pending' = FALSE
  /\ UNCHANGED <<irq_queue, state, running, data, handling, flip, halted>>

\* while (!ring_empty(irq_queue))
Loop ==
  /\ Step("loop", IF ring_empty(irq_queue) THEN "check" ELSE "copy")
  /\ UNCHANGED <<irq_queue, pending, state, running, data, handling, flip, halted>>

\* ring_pop_front: the element is copied out, then start moves on.
PopCopy ==
  /\ Step("copy", "advance")
  /\ data' = {Front(irq_queue)}
  /\ UNCHANGED <<irq_queue, pending, state, running, handling, flip, halted>>

PopAdvance ==
  /\ Step("advance", "call")
  /\ irq_queue' = Popped(irq_queue)
  /\ UNCHANGED <<pending, state, running, data, handling, flip, halted>>

_call_curr_handler ==
  /\ Step("call", "loop")
  /\ handling' = data
  /\ UNCHANGED <<irq_queue, pending, state, running, data, flip, halted>>

int_worker_task ==
  \/ Check \/ Yield \/ Assert \/ Clear \/ Loop
  \/ PopCopy \/ PopAdvance \/ _call_curr_handler

---------------------------------------------------------------------------

\* int_worker_init: the ring is allocated, not cleared, and the new task is
\* READY; no interrupt is enabled yet.
IntInit ==
  /\ irq_queue \in {r \in Rings : r.start = 0 /\ r.end = 0}
  /\ pending = FALSE
  /\ state = "READY"
  /\ running = FALSE
  /\ at = "check"
  /\ data = {}
  /\ handling = {}
  /\ flip = 0
  /\ halted = FALSE

\* A machine that has halted stays so.
Halted == halted /\ UNCHANGED intVars

IntNext == Irq \/ Preempt \/ Dispatch \/ int_worker_task \/ Halted

IntSpec == IntInit /\ [][IntNext]_intVars

\* The scheduler runs a READY task (ReadyRuns of Sched), and a task that is
\* given the processor again and again makes progress between the ticks.
IntFairSpec == IntSpec /\ WF_intVars(Dispatch) /\ SF_intVars(int_worker_task)

---------------------------------------------------------------------------
(* Properties.                                                             *)

\* Every variable has its type.
IntTypeOK ==
  /\ irq_queue \in Rings
  /\ pending \in BOOLEAN
  /\ state \in {"READY", "RUNNING", "WAITING"}
  /\ running \in BOOLEAN
  /\ at \in {"check", "yield", "assert", "clear", "loop", "copy", "advance", "call"}
  /\ data \in {{}} \union {{i} : i \in Interrupts}
  /\ handling \in {{}} \union {{i} : i \in Interrupts}
  /\ flip \in {0, 1}
  /\ halted \in BOOLEAN

\* The worker is put to sleep only when there is nothing to handle: the test of
\* int_worker_pending, the state, and an interrupt between any two lines of
\* int_worker_task never leave an accepted interrupt behind a sleeping worker.
NoSleepingOnWork == state = "WAITING" => ring_empty(irq_queue) /\ ~pending

\* Accepted and not yet given to a handler, oldest first.
Unhandled(p, d, r) ==
  IF p = "call" THEN <<CHOOSE i \in d : TRUE>> \o Contents(r) ELSE Contents(r)
Waiting == Unhandled(at, data, irq_queue)

\* The worker and its ring implement the queue of interrupts of IntQueue: each
\* accepted interrupt is handled once, in order and eventually, and the machine
\* halts only when SIZE - 1 interrupts or more are waiting.
Promise == INSTANCE IntQueue WITH queue <- Waiting, parity <- flip, Capacity <- SIZE - 1
QueuePromise == Promise!Spec
=============================================================================
