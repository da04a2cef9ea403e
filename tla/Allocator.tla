------------------------------- MODULE Allocator -------------------------------
(***************************************************************************)
(* What kernel/heap.h promises the kernel: every block that was handed out *)
(* and not returned keeps bytes of its own.  A block is [ptr, size] *)
(* and owns ptr .. ptr + size - 1, with the sizes the caller asked for.    *)
(***************************************************************************)
EXTENDS Integers

CONSTANTS KHEAP_START, KHEAP_END, Sizes

VARIABLE live   \* the blocks in the hands of callers

Block == [ptr : KHEAP_START .. KHEAP_END, size : Sizes]

Apart(b, c) == b.ptr + b.size <= c.ptr \/ c.ptr + c.size <= b.ptr

(* A block may be handed out: it lies in the arena and overlaps nothing    *)
(* that is in use.                                                         *)
Usable(b, used) ==
  /\ b \in Block
  /\ b.ptr + b.size <= KHEAP_END
  /\ \A c \in used : Apart(b, c)

Init == live = {}

Allocate == \E b \in Block : Usable(b, live) /\ live' = live \cup {b}

Return == \E b \in live : live' = live \ {b}

(* A block changes size where it is, or moves: its old bytes are copied,   *)
(* so the new place may not overlap the old one.                           *)
Resize ==
  \E b \in live, c \in Block :
    /\ Usable(c, live \ {b})
    /\ c.ptr = b.ptr \/ Apart(b, c)
    /\ live' = (live \ {b}) \cup {c}

Next == Allocate \/ Return \/ Resize

Spec == Init /\ [][Next]_live
================================================================================
