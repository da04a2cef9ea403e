-------------------------------- MODULE Ring --------------------------------
(***************************************************************************)
(* The single-producer single-consumer ring of src/lib/ring.c, as          *)
(* operators on a ring: a record of the buffer and its two cursors.  The   *)
(* producer writes buffer[end] and then end, the consumer reads            *)
(* buffer[start] and then writes start; one slot is always left free.      *)
(***************************************************************************)
EXTENDS Integers, Sequences

CONSTANTS
  SIZE,     \* ring->size
  Elements  \* what the ring holds

\* ring_create refuses a size that is not a power of two: only then is the
\* masking of ring.c the remainder of a division.
ASSUME RingAssumption == SIZE \in Nat \ {0} /\ \E k \in 0 .. 31 : SIZE = 2 ^ k

Slots == 0 .. SIZE - 1

Rings == [buffer : [Slots -> Elements], start : Slots, end : Slots]

_ring_next(idx) == (idx + 1) % SIZE

ring_full(r) == _ring_next(r.end) = r.start
ring_empty(r) == r.start = r.end
ring_count(r) == (r.end - r.start) % SIZE

\* ring_push_back and ring_pop_front, where the ring is neither full nor empty.
Pushed(r, element) ==
  [r EXCEPT !.buffer[r.end] = element, !.end = _ring_next(r.end)]
Front(r) == r.buffer[r.start]
Popped(r) == [r EXCEPT !.start = _ring_next(r.start)]

\* What the ring holds, oldest first.
Contents(r) == [k \in 1 .. ring_count(r) |-> r.buffer[(r.start + k - 1) % SIZE]]
=============================================================================
