----------------------------- MODULE Semaphore ------------------------------
(***************************************************************************)
(* The counting semaphore of kernel/syncapi.c, which runs without          *)
(* task_lock: every action is what lies between two atomic instructions,   *)
(* and a tick may come between any two actions.  Nothing in the repository *)
(* calls it yet, so the tasks here are any callers: each acquires, uses    *)
(* and releases, and one destroys after which none begins to acquire.      *)
(***************************************************************************)
EXTENDS Integers, FiniteSets

CONSTANTS Tasks, MaxUnits,
  WORD      \* 2^32, made small: the counter is unsigned

ASSUME SemaphoreAssumption ==
  /\ IsFiniteSet(Tasks)
  /\ MaxUnits \in Nat \ {0}
  /\ WORD \in Nat /\ WORD > MaxUnits

VARIABLES
  count, owners, destroyed, freed,  \* semaphore_t, and whether it was freed
  step,  \* where each task is: "out", "trying", "read", "holding", "released"
  units, \* how many units its call asks for, or holds
  old    \* the count it has read

semaphoreVars == <<count, owners, destroyed, freed, step, units, old>>

max_count == MaxUnits

Go(t, s) == step' = [step EXCEPT ![t] = s]

\* The call, up to the increment of owners.
Enter(t) ==
  /\ step[t] = "out" /\ ~destroyed
  /\ owners' = owners + 1
  /\ Go(t, "trying")
  /\ \E n \in 1..MaxUnits : units' = [units EXCEPT ![t] = n]
  /\ UNCHANGED <<count, destroyed, freed, old>>

\* The semaphore is being destroyed, or the time is up (at any moment).
GiveUp(t) ==
  /\ step[t] = "trying"
  /\ owners' = owners - 1
  /\ Go(t, "out") /\ units' = [units EXCEPT ![t] = 0]
  /\ UNCHANGED <<count, destroyed, freed, old>>

\* old = semaphore->count, and a task_yield() when it is too small: the
\* code then goes on to the exchange all the same.
ReadCount(t) ==
  /\ step[t] = "trying" /\ ~destroyed
  /\ old' = [old EXCEPT ![t] = count]
  /\ Go(t, "read")
  /\ UNCHANGED <<count, owners, destroyed, freed, units>>

\* Mutant: a store instead of the compare-and-swap.
Exchange_unchecked(t) ==
  /\ step[t] = "read"
  /\ count' = (old[t] - units[t]) % WORD /\ Go(t, "holding")
  /\ old' = [old EXCEPT ![t] = 0]
  /\ UNCHANGED <<owners, destroyed, freed, units>>

\* The compare-and-swap, of an unsigned difference.
Exchange(t) ==
  /\ step[t] = "read"
  /\ IF count = old[t]
     THEN count' = (old[t] - units[t]) % WORD /\ Go(t, "holding")
     ELSE UNCHANGED count /\ Go(t, "trying")
  /\ old' = [old EXCEPT ![t] = 0]
  /\ UNCHANGED <<owners, destroyed, freed, units>>

\* semaphore_release: the units first, then the ownership.
GiveBack(t) ==
  /\ step[t] = "holding"
  /\ count' = (count + units[t]) % WORD
  /\ units' = [units EXCEPT ![t] = 0]
  /\ Go(t, "released")
  /\ UNCHANGED <<owners, destroyed, freed, old>>

Leave(t) ==
  /\ step[t] = "released"
  /\ owners' = owners - 1
  /\ Go(t, "out")
  /\ UNCHANGED <<count, destroyed, freed, units, old>>

semaphore_destroy ==
  /\ ~destroyed /\ destroyed' = TRUE
  /\ UNCHANGED <<count, owners, freed, step, units, old>>

\* The wait for the owners ends.
FreeSemaphore ==
  /\ destroyed /\ ~freed /\ owners = 0
  /\ freed' = TRUE
  /\ UNCHANGED <<count, owners, destroyed, step, units, old>>

SemaphoreInit ==
  /\ count = max_count /\ owners = 0 /\ destroyed = FALSE /\ freed = FALSE
  /\ step = [t \in Tasks |-> "out"]
  /\ units = [t \in Tasks |-> 0] /\ old = [t \in Tasks |-> 0]

SemaphoreNext ==
  \/ \E t \in Tasks :
       Enter(t) \/ GiveUp(t) \/ ReadCount(t) \/ Exchange(t) \/ GiveBack(t) \/ Leave(t)
  \/ semaphore_destroy \/ FreeSemaphore

SemaphoreSpec == SemaphoreInit /\ [][SemaphoreNext]_semaphoreVars

\* The units in the hands of tasks, each with a number of its own.
Held ==
  {u \in Tasks \X (1 .. MaxUnits) : step[u[1]] = "holding" /\ u[2] <= units[u[1]]}

(***************************************************************************)
(* No unit is lost or made by tasks that race for the counter, and the     *)
(* semaphore is freed only when no task is anywhere in a call or holds     *)
(* units (syncapi.c:20, 58).                                               *)
(***************************************************************************)
UnitsConserved ==
  /\ (count + Cardinality(Held)) % WORD = max_count
  /\ freed => \A t \in Tasks : step[t] = "out"

(***************************************************************************)
(* syncapi.c:20: "if semaphore->count >= count, we subtract".  Violated: a *)
(* task that finds too few units yields once and subtracts all the same.   *)
(***************************************************************************)
NeverOverdrawn == count <= max_count
=============================================================================
