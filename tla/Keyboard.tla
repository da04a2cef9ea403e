------------------------------ MODULE Keyboard -------------------------------
(***************************************************************************)
(* The keyboard driver, drivers/keyboard.c.  The top half takes scan codes *)
(* at interrupt time into a buffer; the bottom half, in the int_worker,    *)
(* turns them into events some time later.  An interrupt may come between  *)
(* any two codes that the bottom half handles.                             *)
(***************************************************************************)
EXTENDS Integers, FiniteSets, Sequences

CONSTANTS
  SCANCODE_BUFFER_SIZE,
  Shifts,        \* keys that set MOD_SHIFT: there are two
  Ctrls,         \* keys that set MOD_CTRL (MOD_ALT works alike)
  Caps,          \* CapsLock, which toggles MOD_CAPSLOCK
  Letters        \* keys that have a character

ASSUME KeyboardAssumption ==
  /\ SCANCODE_BUFFER_SIZE \in Nat \ {0}
  /\ Shifts \cap Ctrls = {} /\ (Shifts \union Ctrls) \cap Caps = {}

VARIABLES
  held,               \* the keys that are down: the world outside
  scancode_buffer,    \* codes, with the modifiers that were down with them
  current_modifiers,
  key_event,          \* the event given to the input manager last
  key_lost,           \* a code was dropped
  mixed               \* two keys of one modifier were down together

keyboardVars == <<held, scancode_buffer, current_modifiers, key_event, key_lost, mixed>>

Keys == Shifts \union Ctrls \union Caps \union Letters
NoEvent == [pressed |-> FALSE, modifiers |-> {}, keycode |-> "none", meant |-> {}]

\* What the keys that are down mean, given the state of CapsLock.
Meant(down, caps) ==
  (IF down \cap Shifts # {} THEN {"SHIFT"} ELSE {})
    \union (IF down \cap Ctrls # {} THEN {"CTRL"} ELSE {}) \union caps

(***************************************************************************)
(* update_modifiers and scancode_to_keycode.  Shift and CapsLock cancel    *)
(* each other; a key without a character has code 0.                       *)
(***************************************************************************)
Switched(set, flag, on) == IF on THEN set \union {flag} ELSE set \ {flag}

update_modifiers(modifiers, key, pressed) ==
  IF key \in Shifts THEN Switched(modifiers, "SHIFT", pressed)
  ELSE IF key \in Ctrls THEN Switched(modifiers, "CTRL", pressed)
  ELSE IF key \in Caps /\ pressed
  THEN Switched(modifiers, "CAPSLOCK", "CAPSLOCK" \notin modifiers)
  ELSE modifiers

scancode_to_keycode(key, modifiers) ==
  IF key \notin Letters THEN "none"
  ELSE IF Cardinality(modifiers \cap {"SHIFT", "CAPSLOCK"}) = 1 THEN "upper" ELSE "lower"

-----------------------------------------------------------------------------
(***************************************************************************)
(* A key goes down or up, and the top half pushes its code; a full buffer  *)
(* drops it (keyboard.c:213).  Nothing is claimed after that, so no more   *)
(* keys move then.                                                         *)
(***************************************************************************)
keyboard_top_callback(key, pressed, meant) ==
  IF Len(scancode_buffer) = SCANCODE_BUFFER_SIZE - 1
  THEN key_lost' = TRUE /\ UNCHANGED scancode_buffer
  ELSE /\ scancode_buffer' =
            Append(scancode_buffer, [key |-> key, pressed |-> pressed, meant |-> meant])
       /\ UNCHANGED key_lost

\* CapsLock as the user has toggled it, by the last code or by the driver.
CapsMeant ==
  IF scancode_buffer = <<>> THEN current_modifiers \cap {"CAPSLOCK"}
  ELSE scancode_buffer[Len(scancode_buffer)].meant \cap {"CAPSLOCK"}

\* Two of the keys that share a bit.
Twice(keys_down) == \E p, q \in keys_down : p # q

PressKey(key) ==
  LET caps == IF key \in Caps THEN {"CAPSLOCK"} \ CapsMeant ELSE CapsMeant
  IN  /\ key \notin held /\ ~ key_lost
      /\ held' = held \union {key}
      /\ mixed' = (mixed \/ Twice(held' \cap Shifts) \/ Twice(held' \cap Ctrls))
      /\ keyboard_top_callback(key, TRUE, Meant(held', caps))
      /\ UNCHANGED <<current_modifiers, key_event>>

ReleaseKey(key) ==
  /\ key \in held /\ ~ key_lost
  /\ held' = held \ {key}
  /\ keyboard_top_callback(key, FALSE, Meant(held', CapsMeant))
  /\ UNCHANGED <<current_modifiers, key_event, mixed>>

\* Mutant: the modifiers are those of the moment the event is made.
keyboard_bottom_callback_late ==
  /\ scancode_buffer # <<>>
  /\ LET code == Head(scancode_buffer)
         modifiers == Meant(held, CapsMeant)
         keycode == scancode_to_keycode(code.key, modifiers)
     IN  /\ current_modifiers' = modifiers
         /\ key_event' = IF keycode = "none" THEN key_event
                         ELSE [pressed |-> code.pressed, modifiers |-> modifiers,
                               keycode |-> keycode, meant |-> code.meant]
  /\ scancode_buffer' = Tail(scancode_buffer)
  /\ UNCHANGED <<held, key_lost, mixed>>

\* One round of its loop; an event without a character is not sent.
keyboard_bottom_callback ==
  /\ scancode_buffer # <<>>
  /\ LET code == Head(scancode_buffer)
         modifiers == update_modifiers(current_modifiers, code.key, code.pressed)
         keycode == scancode_to_keycode(code.key, modifiers)
     IN  /\ current_modifiers' = modifiers
         /\ key_event' = IF keycode = "none" THEN key_event
                         ELSE [pressed |-> code.pressed, modifiers |-> modifiers,
                               keycode |-> keycode, meant |-> code.meant]
  /\ scancode_buffer' = Tail(scancode_buffer)
  /\ UNCHANGED <<held, key_lost, mixed>>

KeyboardInit ==
  /\ held = {} /\ scancode_buffer = <<>> /\ current_modifiers = {}
  /\ key_event = NoEvent /\ key_lost = FALSE /\ mixed = FALSE

KeyboardNext ==
  \/ \E key \in Keys : PressKey(key) \/ ReleaseKey(key)
  \/ keyboard_bottom_callback

KeyboardSpec == KeyboardInit /\ [][KeyboardNext]_keyboardVars

-----------------------------------------------------------------------------
(***************************************************************************)
(* However late the int_worker comes, an event carries the modifiers that  *)
(* were down when its key moved, unless a code was dropped or two keys     *)
(* that share a bit were down together.                                    *)
(***************************************************************************)
EventsAsTyped == ~ key_lost /\ ~ mixed => key_event.modifiers = key_event.meant

(***************************************************************************)
(* No modifier sticks: when no shift is down and every code is handled,    *)
(* none is set, whichever shifts were used in whatever order; so for Ctrl. *)
(***************************************************************************)
NoModifierSticks ==
  ~ key_lost /\ scancode_buffer = <<>> =>
    /\ held \cap Shifts = {} => "SHIFT" \notin current_modifiers
    /\ held \cap Ctrls = {} => "CTRL" \notin current_modifiers

(***************************************************************************)
(* An event has the modifiers of the moment its key moved, and none stays  *)
(* set when its keys are up (keyboard.c:75).                               *)
(***************************************************************************)
ModifiersAsTyped == EventsAsTyped /\ NoModifierSticks
=============================================================================
