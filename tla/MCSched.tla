------------------------------ MODULE MCSched ------------------------------
(***************************************************************************)
(* Instances of Sched for TLC.  The kernel task (1) is the only spawner,   *)
(* as in the code (the terminal's exec and the boot), the int_worker (2)   *)
(* is the waker, and user tasks are created in the slots after it.         *)
(***************************************************************************)
EXTENDS Sched
=============================================================================
