SPECIFICATION Spec
CONSTANTS
  Users = {u1, u2}
  Printers = {}
  Warners = {}
  Terminal = terminal
  composer_task = composer
  int_worker = worker
  MouseMoves = TRUE
  Addresses = {a1, a2}
  Console = console
  Cursor = cursor
  MAX_WINDOWS = 2
  ZIndices = {500}
  None = None
INVARIANTS LayersLive CleanMeansShown
SYMMETRY Symmetry
VIEW WithoutOrder
