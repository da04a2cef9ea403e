------------------------------ MODULE IntQueue ------------------------------
(***************************************************************************)
(* What the deferred interrupt handling promises the drivers: the bottom   *)
(* handlers run once for every accepted interrupt, in the order of         *)
(* acceptance, and the machine stops rather than lose one, which may       *)
(* happen only when Capacity interrupts are waiting.                       *)
(***************************************************************************)
EXTENDS Integers, Sequences

CONSTANTS
  Interrupts,  \* interrupts that have a bottom handler
  Capacity     \* RING_SIZE - 1

VARIABLES
  queue,    \* accepted and not yet given to a handler
  handling, \* the interrupt given to a handler last
  parity,   \* of the number of interrupts taken
  halted    \* PANIC

vars == <<queue, handling, parity, halted>>

Init == queue = <<>> /\ handling = {} /\ parity = 0 /\ halted = FALSE

Accept(i) ==
  /\ ~halted
  /\ Len(queue) <= Capacity   \* one more may be between the ring and its handler
  /\ queue' = Append(queue, i)
  /\ parity' = 1 - parity
  /\ UNCHANGED <<handling, halted>>

Handle ==
  /\ ~halted
  /\ queue # <<>>
  /\ queue' = Tail(queue)
  /\ handling' = {Head(queue)}
  /\ UNCHANGED <<parity, halted>>

Halt ==
  /\ ~halted
  /\ Len(queue) >= Capacity
  /\ halted' = TRUE
  /\ UNCHANGED <<queue, handling, parity>>

Next == Handle \/ Halt \/ \E i \in Interrupts : Accept(i)

\* A waiting interrupt is handled, however many more arrive.
Spec == Init /\ [][Next]_vars /\ WF_vars(Handle)
=============================================================================
