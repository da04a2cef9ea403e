\* Four keys; small buffers, so that they overflow; three tasks.
SPECIFICATION Spec
CONSTANTS
  Tasks = {t1, t2, t3}
  MaxUnits = 2
  WORD = 16
  MOUSE_RING_SIZE = 3
  WIDTH = 3
  HEIGHT = 2
  Packets <- MCPackets
  SCANCODE_BUFFER_SIZE = 3
  Shifts = {"left", "right"}
  Ctrls = {"ctrl"}
  Caps = {"caps"}
  Letters = {"letter"}
  TERMINAL_INPUT_BUFF_SIZE = 4
  Symbols = {"a"}
  QUEUE = 1
  MaxHistory = 2
  NULL = null
  OFF = off
  konsole_w = 2
  konsole_h = 2
  Glyphs = {"a"}
  MaxCells = 10
  Elements = {1, 2}
  JUNK = 0
  MaxCount = 8
  MaxSorted = 4
INVARIANTS CommandIsTyped ModifiersAsTyped InStep TableIsMap ArrayIsSequence TextKept   ArgumentsAsTyped
CHECK_DEADLOCK FALSE
