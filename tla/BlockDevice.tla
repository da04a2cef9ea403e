----------------------------- MODULE BlockDevice -----------------------------
(***************************************************************************)
(* What disk_read_sync, disk_write_sync and disk_flush_cache_sync promise  *)
(* their callers: an array of sectors.  A read returns what was written    *)
(* last, a write touches its own sectors only, a successful flush makes    *)
(* everything durable, and power lost leaves each sector with a value it   *)
(* was given since.                                                        *)
(***************************************************************************)
EXTENDS Integers

CONSTANTS Sectors, Values,
  Ranges   \* the sets of sectors that a call may transfer

VARIABLES
  now,    \* the value a read returns
  kept,   \* the values that a loss of power may leave
  failed  \* the last call was a write that returned false

vars == <<now, kept, failed>>

Init ==
  /\ now \in [Sectors -> Values]
  /\ kept = [s \in Sectors |-> {now[s]}]
  /\ failed = FALSE

Kept(range, v) == [s \in Sectors |-> IF s \in range THEN kept[s] \union {v} ELSE kept[s]]

Write(range, v) ==
  /\ ~ failed'
  /\ kept' = Kept(range, v)
  /\ now' = [s \in Sectors |-> IF s \in range THEN v ELSE now[s]]

\* A write that fails may have reached some of its sectors.
WriteFails(range, v) ==
  /\ failed'
  /\ kept' = Kept(range, v)
  /\ \E reached \in SUBSET range : now' = [s \in Sectors |-> IF s \in reached THEN v ELSE now[s]]

\* A read, or a flush that fails.
Other == ~ failed' /\ UNCHANGED <<now, kept>>

Flush ==
  /\ ~ failed'
  /\ kept' = [s \in Sectors |-> {now[s]}]
  /\ UNCHANGED now

PowerLost ==
  /\ ~ failed'
  /\ \E left \in [Sectors -> Values] :
       /\ \A s \in Sectors : left[s] \in kept[s]
       /\ kept' = [s \in Sectors |-> {left[s]}]
       /\ now' = left

Next ==
  \/ Other
  \/ Flush
  \/ PowerLost
  \/ \E range \in Ranges, v \in Values : Write(range, v) \/ WriteFails(range, v)

Spec == Init /\ [][Next]_vars
=============================================================================
