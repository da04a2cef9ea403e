------------------------------- MODULE MCInput -------------------------------
(***************************************************************************)
(* The way of a key for TLC: the deferred interrupts (IntWorker), with a   *)
(* ring of four slots that three interrupts fill, and the input streams    *)
(* (InputManager), with the terminal, one or two user tasks and a slot of  *)
(* the channel for each.  A behaviour is one of a single part, which the   *)
(* initial state picks; the variables of the other stay as they are.       *)
(***************************************************************************)
EXTENDS InputManager, IntWorker

VARIABLE part

Everything == <<part, vars, intVars>>

\* The part that does not run starts in one of its initial states.  Addresses
\* are interchangeable, and the terminal keeps its event: it has the same always.
MCInit ==
  /\ part \in {"streams", "interrupts"} /\ Init /\ IntInit
  /\ part = "streams" =>
       \A s \in DOMAIN irq_queue.buffer : irq_queue.buffer[s] = CHOOSE i \in Elements : TRUE
  /\ live = {CHOOSE e \in Events : TRUE}

MCNext ==
  /\ UNCHANGED part
  /\ \/ part = "streams" /\ Next /\ UNCHANGED intVars
     \/ part = "interrupts" /\ IntNext /\ UNCHANGED vars

MCSpec == MCInit /\ [][MCNext]_Everything

\* The fairness of each part, while it runs.
MCFairSpec ==
  /\ MCSpec
  /\ WF_Everything(part = "streams" /\ AddInput /\ UNCHANGED <<part, intVars>>)
  /\ \A t \in Tasks :
       WF_Everything(part = "streams" /\ Reading(t) /\ UNCHANGED <<part, intVars>>)
  /\ WF_Everything(part = "interrupts" /\ Dispatch /\ UNCHANGED <<part, vars>>)
  /\ SF_Everything(part = "interrupts" /\ int_worker_task /\ UNCHANGED <<part, vars>>)
=============================================================================
