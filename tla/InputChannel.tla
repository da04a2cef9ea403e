---------------------------- MODULE InputChannel ----------------------------
(***************************************************************************)
(* What a task may rely on when it reads the keyboard: a mailbox of its    *)
(* own from the moment it is created, which receives every key in order    *)
(* while it is not full, loses the newest key when it is, and passes each  *)
(* key on once.                                                            *)
(***************************************************************************)
EXTENDS Integers, Sequences

CONSTANTS
  Tasks,
  Keys,
  Capacity,  \* of a mailbox
  First,     \* the task that has a mailbox at boot
  None

VARIABLES
  open,     \* the tasks that have a mailbox
  mailbox,  \* its contents, oldest first
  last,     \* the key a task has read last
  parity    \* of the number of keys so far

vars == <<open, mailbox, last, parity>>

Init ==
  /\ open = {First}
  /\ mailbox = [t \in Tasks |-> <<>>]
  /\ last = [t \in Tasks |-> None]
  /\ parity = 0

Open(t) ==
  /\ t \notin open
  /\ open' = open \union {t}
  /\ UNCHANGED <<mailbox, last, parity>>

Close(t) ==
  /\ t \in open
  /\ open' = open \ {t}
  /\ mailbox' = [mailbox EXCEPT ![t] = <<>>]
  /\ last' = [last EXCEPT ![t] = None]
  /\ UNCHANGED parity

Key(k) ==
  /\ mailbox' = [t \in Tasks |-> IF t \in open /\ Len(mailbox[t]) < Capacity
                                 THEN Append(mailbox[t], k) ELSE mailbox[t]]
  /\ parity' = 1 - parity
  /\ UNCHANGED <<open, last>>

Read(t) ==
  /\ t \in open
  /\ mailbox[t] # <<>>
  /\ last' = [last EXCEPT ![t] = Head(mailbox[t])]
  /\ mailbox' = [mailbox EXCEPT ![t] = Tail(@)]
  /\ UNCHANGED <<open, parity>>

Next == (\E t \in Tasks : Open(t) \/ Close(t) \/ Read(t)) \/ \E k \in Keys : Key(k)

Spec == Init /\ [][Next]_vars
=============================================================================
