---------------------------- MODULE InputManager ----------------------------
(***************************************************************************)
(* Keyboard input: kernel/input_manager.c, its callers task_wait_for_input *)
(* and task_input_get in kernel/sched/task.c, and its readers sys_read,    *)
(* sys_poll (syscall/sys_common.c) and the terminal (kernel/terminal.c).   *)
(*                                                                         *)
(* The functions of input_manager.c that change streams and events hold    *)
(* the task lock, and so are one action each (HoldersRunOrWait of Sched);  *)
(* the readers hold nothing, and a tick may put any other task between two *)
(* of their actions.  A task takes a step when it is not WAITING, which    *)
(* includes READY: the scheduler may choose it at any moment.              *)
(*                                                                         *)
(* A stream's ring is the sequence of its contents, which is what the      *)
(* operations of module Ring do to it (PushAppends and PopTakesFirst of    *)
(* IntWorkerProofs).  Freed events may be given out again by malloc.       *)
(***************************************************************************)
EXTENDS Integers, Sequences, FiniteSets

CONSTANTS
  Readers,           \* user tasks, which read by sys_read and sys_poll
  Terminal,          \* kernel_task, which runs the terminal and creates them
  Keys,              \* keyboard events
  INPUT_STREAMS,     \* slots of a channel's input_streams, 32 in the code
  INPUT_QUEUE_SIZE,  \* size of a stream's ring, 64 in the code
  Events,            \* addresses malloc may return for an event
  None               \* TASK_INPUT_NONE, NULL

ASSUME InputAssumption ==
  /\ Terminal \notin Readers
  /\ INPUT_STREAMS \in Nat \ {0}
  /\ INPUT_QUEUE_SIZE \in Nat \ {0}
  /\ None \notin Keys \union Events \union Nat

Tasks == Readers \union {Terminal}
Sid == 0 .. INPUT_STREAMS - 1
Capacity == INPUT_QUEUE_SIZE - 1

VARIABLES
  active,   \* the streams with IS_FLAG_ACTIVE
  queue,    \* is->input_queue, oldest first
  event,    \* is->event
  refs,     \* is->ref_count
  listed,   \* the pids on an event's list
  live,     \* the events that are allocated
  sids,     \* task->input_sids[INPUT_CHANNEL_KEYBOARD]
  waiting,  \* the tasks whose state is TASK_WAITING
  pc,       \* where a task is
  held,     \* the event task_wait_for_input has fetched
  copied,   \* the element ring_pop_front has copied out
  last,     \* the element the task was given last
  parity    \* of the number of elements so far: a history variable

streams == <<active, queue, event, refs>>
events == <<listed, live>>
vars == <<streams, events, sids, waiting, pc, held, copied, last, parity>>

Place == {"none", "run", "polled", "get", "advance", "wait", "add", "yield", "dead"}

---------------------------------------------------------------------------
(* Streams and their users.                                                *)

\* Mutant: a stream in use is taken for free.
_find_free_stream_any == Sid

\* The first free slot, if there is one.
_find_free_stream ==
  LET free == Sid \ active IN {s \in free : \A r \in free : s <= r}

\* A stream that is still active is destroyed first; then a new ring and a
\* new event are allocated.
_input_stream_init_default(s, e) ==
  /\ active' = active \union {s}
  /\ event' = [event EXCEPT ![s] = e]
  /\ queue' = [queue EXCEPT ![s] = <<>>]
  /\ live' = (live \ (IF s \in active THEN {event[s]} ELSE {})) \union {e}
  /\ listed' = [listed EXCEPT ![e] = {}]

\* _task_init_prefix with TASK_INPUT_NEW: input_manager_register_to_new_stream,
\* which calls input_manager_register_to_stream.
register_to_new_stream(t) ==
  IF _find_free_stream = {}
  THEN /\ sids' = [sids EXCEPT ![t] = None]
       /\ UNCHANGED <<streams, events>>
  ELSE \E s \in _find_free_stream, e \in Events \ live :
         /\ _input_stream_init_default(s, e)
         /\ refs' = [refs EXCEPT ![s] = 1]
         /\ sids' = [sids EXCEPT ![t] = s]

\* The terminal runs a program.
Spawn(t) ==
  /\ Terminal \notin waiting /\ pc[Terminal] = "run"
  /\ t \in Readers /\ pc[t] = "none"
  /\ register_to_new_stream(t)
  /\ pc' = [pc EXCEPT ![t] = "run"]
  /\ UNCHANGED <<waiting, held, copied, last, parity>>

\* sys_exit; the task destroyed later still owns its stream.
Exit(t) ==
  /\ t \in Readers /\ pc[t] = "run"
  /\ pc' = [pc EXCEPT ![t] = "dead"]
  /\ UNCHANGED <<streams, events, sids, waiting, held, copied, last, parity>>

\* Mutant: the last user leaves the stream behind.
unregister_from_stream_leaks(s, t) ==
  /\ s \in active
  /\ refs' = [refs EXCEPT ![s] = @ - 1]
  /\ listed' = [listed EXCEPT ![event[s]] = @ \ {t}]
  /\ UNCHANGED <<active, event, queue, live>>

unregister_from_stream(s, t) ==
  /\ s \in active
  /\ refs' = [refs EXCEPT ![s] = @ - 1]
  /\ IF refs[s] = 1
     THEN /\ active' = active \ {s}
          /\ event' = [event EXCEPT ![s] = None]
          /\ queue' = [queue EXCEPT ![s] = <<>>]
          /\ live' = live \ {event[s]}
          /\ listed' = [listed EXCEPT ![event[s]] = {}]
     ELSE /\ listed' = [listed EXCEPT ![event[s]] = @ \ {t}]
          /\ UNCHANGED <<active, event, queue, live>>

\* task_input_unregister, called by task_destroy_from_accumulator; the sid that
\* stays behind in the free slot is forgotten, as the next creation sets it.
Unregister(t) ==
  /\ pc[t] = "dead"
  /\ \/ unregister_from_stream(sids[t], t)
     \/ sids[t] \notin active /\ UNCHANGED <<streams, events>>
  /\ sids' = [sids EXCEPT ![t] = None]
  /\ pc' = [pc EXCEPT ![t] = "none"]
  /\ last' = [last EXCEPT ![t] = None]
  /\ UNCHANGED <<waiting, held, copied, parity>>

---------------------------------------------------------------------------
(* The keyboard's bottom half.                                             *)

\* Mutant: the loop over the streams ends at the first full one.
PushedBy_stops(k) ==
  LET full == {s \in active : Len(queue[s]) >= Capacity}
  IN [s \in Sid |-> IF s \in active /\ \A f \in full : s < f
                     THEN Append(queue[s], k) ELSE queue[s]]

PushedBy(k) ==
  [s \in Sid |-> IF s \in active /\ Len(queue[s]) < Capacity
                 THEN Append(queue[s], k) ELSE queue[s]]

\* Mutants: only the streams that took the element are flushed; the lists
\* are left as they are.
add_input_el_flush_on_push(k) ==
  LET flushed == {event[s] : s \in {a \in active : Len(queue[a]) < Capacity}}
  IN /\ queue' = PushedBy(k)
     /\ waiting' = waiting \ UNION {listed[e] : e \in flushed}
     /\ listed' = [e \in Events |-> IF e \in flushed THEN {} ELSE listed[e]]
add_input_el_keeps_list(k) ==
  /\ queue' = PushedBy(k)
  /\ waiting' = waiting \ UNION {listed[event[s]] : s \in active}
  /\ UNCHANGED listed

\* Every active stream gets the element, or drops it when its ring is full;
\* its event is flushed either way.
input_manager_add_input_el(k) ==
  LET flushed == {event[s] : s \in active}
  IN /\ queue' = PushedBy(k)
     /\ waiting' = waiting \ UNION {listed[e] : e \in flushed}
     /\ listed' = [e \in Events |-> IF e \in flushed THEN {} ELSE listed[e]]

AddInput ==
  /\ \E k \in Keys : input_manager_add_input_el(k)
  /\ parity' = 1 - parity
  /\ UNCHANGED <<active, event, refs, live, sids, pc, held, copied, last>>

---------------------------------------------------------------------------
(* The readers.                                                            *)

Runs(t, place) == t \notin waiting /\ pc[t] = place
Goto(t, place) == pc' = [pc EXCEPT ![t] = place]

\* What a task may call, from its own code.  sys_poll is a step only when it
\* returns 1; the terminal waits before it looks.
sys_read(t) == t \in Readers /\ Goto(t, "get")
sys_poll(t) == t \in Readers /\ queue[sids[t]] # <<>> /\ Goto(t, "polled")
terminal_get_input_line(t) == t = Terminal /\ Goto(t, "wait")

\* Without a stream each of them returns at once.
Call(t) ==
  /\ Runs(t, "run")
  /\ sids[t] # None
  /\ sys_read(t) \/ sys_poll(t) \/ terminal_get_input_line(t)
  /\ UNCHANGED <<streams, events, sids, waiting, held, copied, last, parity>>

\* The program reads because sys_poll has returned 1.
ReadPolled(t) ==
  /\ Runs(t, "polled")
  /\ Goto(t, "get")
  /\ UNCHANGED <<streams, events, sids, waiting, held, copied, last, parity>>

\* input_manager_get_input_el: the test and the copy of ring_pop_front.  On
\* an empty ring sys_read waits; the terminal leaves its drain loop and waits,
\* or has its line.
Get(t) ==
  /\ Runs(t, "get")
  /\ \/ /\ sids[t] \in active
        /\ queue[sids[t]] # <<>>
        /\ copied' = [copied EXCEPT ![t] = Head(queue[sids[t]])]
        /\ Goto(t, "advance")
     \/ /\ sids[t] \in active => queue[sids[t]] = <<>>
        /\ Goto(t, "wait") \/ (t = Terminal /\ Goto(t, "run"))
        /\ UNCHANGED copied
  /\ UNCHANGED <<streams, events, sids, waiting, held, last, parity>>

\* The rest of ring_pop_front; sys_read returns, the terminal goes on draining.
Advance(t) ==
  /\ Runs(t, "advance")
  /\ queue' = [queue EXCEPT ![sids[t]] = Tail(@)]
  /\ last' = [last EXCEPT ![t] = copied[t]]
  /\ copied' = [copied EXCEPT ![t] = None]
  /\ Goto(t, IF t = Terminal THEN "get" ELSE "run")
  /\ UNCHANGED <<active, event, refs, events, sids, waiting, held, parity>>

\* task_wait_for_input fetches the event ...
Wait(t) ==
  /\ Runs(t, "wait")
  /\ \/ /\ sids[t] \in active
        /\ held' = [held EXCEPT ![t] = event[sids[t]]]
        /\ Goto(t, "add")
     \/ /\ sids[t] \notin active
        /\ Goto(t, "get")
        /\ UNCHANGED held
  /\ UNCHANGED <<streams, events, sids, waiting, copied, last, parity>>

\* ... and task_wait_until adds the task to its list, under the lock.
Add(t) ==
  /\ Runs(t, "add")
  /\ listed' = [listed EXCEPT ![held[t]] = @ \union {t}]
  /\ waiting' = waiting \union {t}
  /\ held' = [held EXCEPT ![t] = None]
  /\ Goto(t, "yield")
  /\ UNCHANGED <<streams, live, sids, copied, last, parity>>

\* task_yield returns.
Woken(t) ==
  /\ Runs(t, "yield")
  /\ Goto(t, "get")
  /\ UNCHANGED <<streams, events, sids, waiting, held, copied, last, parity>>

Reading(t) == ReadPolled(t) \/ Get(t) \/ Advance(t) \/ Wait(t) \/ Add(t) \/ Woken(t)

---------------------------------------------------------------------------

\* The kernel task has been created with task_sids_keyboard_only.
Init ==
  /\ active = {0}
  /\ queue = [s \in Sid |-> <<>>]
  /\ \E e \in Events :
       /\ event = [s \in Sid |-> IF s = 0 THEN e ELSE None]
       /\ live = {e}
  /\ refs = [s \in Sid |-> IF s = 0 THEN 1 ELSE 0]
  /\ listed = [e \in Events |-> {}]
  /\ sids = [t \in Tasks |-> IF t = Terminal THEN 0 ELSE None]
  /\ waiting = {}
  /\ pc = [t \in Tasks |-> IF t = Terminal THEN "run" ELSE "none"]
  /\ held = [t \in Tasks |-> None]
  /\ copied = [t \in Tasks |-> None]
  /\ last = [t \in Tasks |-> None]
  /\ parity = 0

Next ==
  \/ AddInput
  \/ \E t \in Tasks : Spawn(t) \/ Exit(t) \/ Unregister(t) \/ Call(t) \/ Reading(t)

Spec == Init /\ [][Next]_vars

\* Keys go on being pressed, and a task that is not WAITING is run (ReadyRuns
\* of Sched).  Whether a program reads at all is its own affair.
FairSpec == Spec /\ WF_vars(AddInput) /\ \A t \in Tasks : WF_vars(Reading(t))

---------------------------------------------------------------------------
(* Properties.                                                             *)

\* Every variable has its type.
TypeOK ==
  /\ active \subseteq Sid
  /\ queue \in [Sid -> Seq(Keys)]
  /\ event \in [Sid -> Events \union {None}]
  /\ refs \in [Sid -> Nat]
  /\ listed \in [Events -> SUBSET Tasks]
  /\ live \subseteq Events
  /\ sids \in [Tasks -> Sid \union {None}]
  /\ waiting \subseteq Tasks
  /\ pc \in [Tasks -> Place]
  /\ held \in [Tasks -> Events \union {None}]
  /\ copied \in [Tasks -> Keys \union {None}]
  /\ last \in [Tasks -> Keys \union {None}]
  /\ parity \in {0, 1}

Users(s) == {t \in Tasks : sids[t] = s}

\* A stream's count is the number of tasks that use it, dead ones not yet
\* destroyed included, and the stream is active exactly while there is one:
\* creation, exit and the late destruction never leave one over or free one early.
RefsMatchUsers ==
  \A s \in Sid : refs[s] = Cardinality(Users(s)) /\ (s \in active <=> Users(s) # {})

\* The event a task has fetched and not yet used, without a lock, is still
\* allocated and still that of its stream; no event outlives its stream, and no
\* two streams share one.
EventsLive ==
  /\ \A t \in Tasks : pc[t] = "add" => held[t] \in live /\ held[t] = event[sids[t]]
  /\ live = {event[s] : s \in active}
  /\ \A r, s \in active : event[r] = event[s] => r = s

\* A task is WAITING exactly while it is on the list of its own stream's event,
\* so that the next key wakes it, and no flush touches another task.
WaitersFound ==
  \A t \in Tasks : \A s \in active :
    t \in listed[event[s]] <=> t \in waiting /\ sids[t] = s

\* A read that follows a sys_poll of 1 finds its element, whatever comes between.
PolledReadReturns == \A t \in Tasks : pc[t] = "polled" => queue[sids[t]] # <<>>

\* Streams, their rings and their reuse implement one mailbox per task.
Open == {t \in Tasks : sids[t] \in active}
Mailbox == [t \in Tasks |-> IF t \in Open THEN queue[sids[t]] ELSE <<>>]
Channel == INSTANCE InputChannel WITH open <- Open, mailbox <- Mailbox, First <- Terminal
MailboxPromise == Channel!Spec

\* While keys are pressed a sys_read returns, although a key that comes between
\* its test and its wait does not wake it.
ReadReturns == \A t \in Readers : pc[t] = "get" ~> pc[t] = "run"

\* The comment in sys_read has the read block its task, which is right while
\* there is nothing to read: no reader waits while its ring holds input.
NoSleepOnInput == \A t \in Readers : t \in waiting => queue[sids[t]] = <<>>
=============================================================================
