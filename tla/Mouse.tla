-------------------------------- MODULE Mouse --------------------------------
(***************************************************************************)
(* The mouse driver, drivers/mouse.c: the top half puts every byte of the  *)
(* device into a ring, the bottom half gathers packets of three, moves the *)
(* cursor and sends an event.                                              *)
(***************************************************************************)
EXTENDS Integers, Sequences

CONSTANTS
  MOUSE_RING_SIZE,
  Packets,          \* the packets the device may send: <<flags, x, y>>
  WIDTH, HEIGHT     \* of the framebuffer

\* Bit 3 of the first byte of a packet is set, which the driver relies on.
ASSUME MouseAssumption ==
  /\ MOUSE_RING_SIZE \in Nat \ {0} /\ WIDTH \in Nat \ {0} /\ HEIGHT \in Nat \ {0}
  /\ \A p \in Packets : p \in [1 .. 3 -> 0 .. 255] /\ (p[1] \div 8) % 2 = 1

VARIABLES
  sending,      \* bytes of a packet that the device has still to send
  due,          \* packets sent and not yet handled, until a byte is lost (history)
  mouse_ring,
  packet,       \* the bytes gathered so far
  cursor,       \* [x, y]: mouse_x and mouse_y
  mouse_event,  \* the event sent last: [dx, dy, buttons]
  mouse_lost    \* a byte was dropped

mouseVars == <<sending, due, mouse_ring, packet, cursor, mouse_event, mouse_lost>>

Bit(byte, weight) == (byte \div weight) % 2 = 1

\* The motion of a packet: the sign bits are in the flags.
dx(p) == p[2] - (IF Bit(p[1], 16) THEN 256 ELSE 0)
dy(p) == p[3] - (IF Bit(p[1], 32) THEN 256 ELSE 0)

\* A value as the event's int8_t fields hold it.
Int8(v) == ((v + 128) % 256) - 128

Clamped(v, size) == IF v < 0 THEN 0 ELSE IF v >= size THEN size - 1 ELSE v

Moved(c, p) == [x |-> Clamped(c.x + dx(p), WIDTH), y |-> Clamped(c.y - dy(p), HEIGHT)]
EventOf(p) == [dx |-> Int8(dx(p)), dy |-> Int8(dy(p)), buttons |-> p[1] % 8]

-----------------------------------------------------------------------------
(***************************************************************************)
(* The device sends a packet byte by byte, with an interrupt for each; a   *)
(* full ring drops the byte (mouse.c:133).                                 *)
(***************************************************************************)
Report(p) ==
  /\ sending = <<>> /\ Len(due) < 2
  /\ sending' = p
  /\ due' = IF mouse_lost THEN due ELSE Append(due, p)
  /\ UNCHANGED <<mouse_ring, packet, cursor, mouse_event, mouse_lost>>

mouse_top_callback ==
  /\ sending # <<>>
  /\ sending' = Tail(sending)
  /\ IF Len(mouse_ring) = MOUSE_RING_SIZE - 1
     THEN mouse_lost' = TRUE /\ due' = <<>> /\ UNCHANGED mouse_ring
     ELSE mouse_ring' = Append(mouse_ring, Head(sending)) /\ UNCHANGED <<mouse_lost, due>>
  /\ UNCHANGED <<packet, cursor, mouse_event>>

\* Mutant: bit 3 is asked of every byte of a packet.
mouse_bottom_callback_strict ==
  /\ mouse_ring # <<>>
  /\ mouse_ring' = Tail(mouse_ring)
  /\ LET byte == Head(mouse_ring)
         gathered == Append(packet, byte)
     IN  IF ~ Bit(byte, 8) THEN UNCHANGED <<packet, cursor, mouse_event, due>>
         ELSE IF Len(gathered) < 3
         THEN packet' = gathered /\ UNCHANGED <<cursor, mouse_event, due>>
         ELSE /\ packet' = <<>> /\ cursor' = Moved(cursor, gathered)
              /\ mouse_event' = EventOf(gathered)
              /\ due' = IF due = <<>> THEN due ELSE Tail(due)
  /\ UNCHANGED <<sending, mouse_lost>>

\* One round of its loop.  A first byte without bit 3 is skipped.
mouse_bottom_callback ==
  /\ mouse_ring # <<>>
  /\ mouse_ring' = Tail(mouse_ring)
  /\ LET byte == Head(mouse_ring)
         gathered == Append(packet, byte)
     IN  IF packet = <<>> /\ ~ Bit(byte, 8) THEN UNCHANGED <<packet, cursor, mouse_event, due>>
         ELSE IF Len(gathered) < 3
         THEN packet' = gathered /\ UNCHANGED <<cursor, mouse_event, due>>
         ELSE /\ packet' = <<>>
              /\ cursor' = Moved(cursor, gathered)
              /\ mouse_event' = EventOf(gathered)
              /\ due' = IF due = <<>> THEN due ELSE Tail(due)
  /\ UNCHANGED <<sending, mouse_lost>>

MouseInit ==
  /\ sending = <<>> /\ due = <<>> /\ mouse_ring = <<>> /\ packet = <<>>
  /\ cursor = [x |-> WIDTH \div 2, y |-> HEIGHT \div 2]
  /\ mouse_event = [dx |-> 0, dy |-> 0, buttons |-> 0]
  /\ mouse_lost = FALSE

MouseNext ==
  \/ \E p \in Packets : Report(p)
  \/ mouse_top_callback
  \/ mouse_bottom_callback

MouseSpec == MouseInit /\ [][MouseNext]_mouseVars

-----------------------------------------------------------------------------
(***************************************************************************)
(* As long as the ring never overflows, the driver stays in step with the  *)
(* device: what it has gathered, what is in the ring and what the device   *)
(* still sends are the packets that are due, although the bytes of a       *)
(* motion may look like the first byte of a packet.                        *)
(***************************************************************************)
Flat(packets) ==
  IF Len(packets) = 0 THEN <<>>
  ELSE IF Len(packets) = 1 THEN packets[1] ELSE packets[1] \o packets[2]

PacketsInOrder == ~ mouse_lost => packet \o mouse_ring \o sending = Flat(due)

(***************************************************************************)
(* The cursor stays on the screen, in step or not.                         *)
(***************************************************************************)
CursorOnScreen == cursor.x \in 0 .. WIDTH - 1 /\ cursor.y \in 0 .. HEIGHT - 1

(***************************************************************************)
(* The driver stays in step with the packets of the device, and the cursor *)
(* on the screen (mouse.c:151, 175).                                       *)
(***************************************************************************)
InStep == PacketsInOrder /\ CursorOnScreen
=============================================================================
