------------------------------ MODULE Console -------------------------------
(***************************************************************************)
(* The text console of gui/konsole.c: the history of everything printed, a *)
(* window of konsole_h rows on it that starts at                           *)
(* konsole_output_history_start_index, and a cursor in the window.  Any    *)
(* task prints, one locked call for each character (sys_write); only the   *)
(* terminal's task moves the window, and it does so without a lock.        *)
(*                                                                         *)
(* A row is konsole_w cells, so the history is modelled by its cells.  A   *)
(* cell is a symbol: BLANK for the space of an empty row, ERASED for the   *)
(* symbol 0 that a backspace leaves.  What the window draws is the matter  *)
(* of Composer; here a redraw is the reads of the history it makes.        *)
(***************************************************************************)
EXTENDS Integers, Sequences

CONSTANTS konsole_w, konsole_h,
  Glyphs,      \* what is printed, other than newlines and backspaces
  MaxCells     \* bound of the model on the history, which the code lets grow

ASSUME ConsoleAssumption ==
  /\ konsole_w \in Nat \ {0} /\ konsole_h \in Nat \ {0}
  /\ MaxCells \in Nat

VARIABLES
  konsole_output_history,  \* the cells, a sequence
  start_index,             \* konsole_output_history_start_index
  konsole_curr_x, konsole_curr_y,
  scrolling,               \* where the terminal is in an unlocked scroll
  seen,                    \* the start index its test has read
  asserted,                \* a read of the history was out of its range
  paper, pen               \* history: what an endless sheet would show, and
                           \* the <<row, column>> of its next symbol

consoleVars == <<konsole_output_history, start_index, konsole_curr_x, konsole_curr_y,
                 scrolling, seen, asserted, paper, pen>>

BLANK == "blank"
ERASED == "erased"

cells_count == Len(konsole_output_history)
window == konsole_w * konsole_h
EmptyRow == [i \in 1..konsole_w |-> BLANK]
Screen == [i \in 1..window |-> BLANK]

-----------------------------------------------------------------------------
(***************************************************************************)
(* The console as a record, for the calls that make several changes.       *)
(***************************************************************************)
Now == [cells |-> konsole_output_history, start |-> start_index,
        x |-> konsole_curr_x, y |-> konsole_curr_y, bad |-> asserted]

\* dynamic_array_set_by_index asserts the index; so does a redraw, of every
\* cell of the window.
konsole_set_value(c, symbol) ==
  LET i == c.start + c.y * konsole_w + c.x + 1
  IN IF i <= Len(c.cells) THEN [c EXCEPT !.cells[i] = symbol] ELSE [c EXCEPT !.bad = TRUE]

Redrawn(c) == [c EXCEPT !.bad = @ \/ c.start + window > Len(c.cells)]

konsole_scroll_down(c) ==
  Redrawn([c EXCEPT !.cells = @ \o EmptyRow, !.start = @ + konsole_w, !.y = konsole_h - 1])

ScrolledIfBelow(c) == IF c.y >= konsole_h THEN konsole_scroll_down(c) ELSE c

\* konsole_pos_shift by one, forward and back; back never leaves the row.
Forward(c) ==
  ScrolledIfBelow([c EXCEPT !.x = (@ + 1) % konsole_w, !.y = @ + (c.x + 1) \div konsole_w])
Back(c) == [c EXCEPT !.x = @ - 1]

CanScrollDown(c) == c.start + window + konsole_w <= Len(c.cells)

\* Mutant: the window stays where the user scrolled it.
ToBottom_not(c) == c

\* while (konsole_view_scroll_down()): the window goes to the bottom.
ToBottom(c) ==
  LET rows == IF CanScrollDown(c) THEN (Len(c.cells) - c.start - window) \div konsole_w ELSE 0
  IN [c EXCEPT !.start = @ + rows * konsole_w]

Printed(c, ch) ==
  IF ch = "newline" THEN ScrolledIfBelow([c EXCEPT !.x = 0, !.y = @ + 1])
  ELSE IF ch # "backspace" THEN Forward(konsole_set_value(c, ch))
  ELSE IF c.x > 0 THEN konsole_set_value(Back(c), ERASED)
  ELSE c

-----------------------------------------------------------------------------
\* The endless sheet, a function on the cells, and its pen.
OnPaper(ch) ==
  LET row == pen[1]
      col == pen[2]
  IN \/ /\ ch = "newline"
        /\ paper' = paper /\ pen' = <<row + 1, 0>>
     \/ /\ ch = "backspace" /\ col > 0
        /\ paper' = [paper EXCEPT ![row * konsole_w + col] = ERASED] /\ pen' = <<row, col - 1>>
     \/ /\ ch = "backspace" /\ col = 0
        /\ UNCHANGED <<paper, pen>>
     \/ /\ ch \notin {"newline", "backspace"}
        /\ paper' = [paper EXCEPT ![row * konsole_w + col + 1] = ch]
        /\ pen' = IF col + 1 = konsole_w THEN <<row + 1, 0>> ELSE <<row, col + 1>>

Becomes(c) ==
  /\ konsole_output_history' = c.cells /\ start_index' = c.start
  /\ konsole_curr_x' = c.x /\ konsole_curr_y' = c.y /\ asserted' = c.bad

Room == cells_count + konsole_w <= MaxCells

konsole_putch(ch) ==
  /\ Room
  /\ Becomes(Printed(ToBottom(Now), ch))
  /\ OnPaper(ch)
  /\ UNCHANGED <<scrolling, seen>>

\* The command "clear": the oldest cells go, the rest is blanked.
konsole_clear ==
  /\ scrolling = "no"
  /\ Becomes([Now EXCEPT !.cells = Screen, !.start = 0, !.x = 0, !.y = 0])
  /\ paper' = [i \in 1..MaxCells |-> BLANK] /\ pen' = <<0, 0>>
  /\ UNCHANGED <<scrolling, seen>>

(***************************************************************************)
(* Ctrl+Up and Ctrl+Down: the bound is tested, then the index changed,     *)
(* then the window read; a tick may come between any two of these.  The    *)
(* change adds to the index as the test has read it (the build with -O2    *)
(* keeps it in a register) or reads it again (the build with -O0).         *)
(***************************************************************************)
Unscrolled == <<konsole_output_history, konsole_curr_x, konsole_curr_y, paper, pen>>

konsole_view_scroll_up_test ==
  /\ scrolling = "no" /\ start_index >= konsole_w
  /\ scrolling' = "up" /\ seen' = start_index
  /\ UNCHANGED <<start_index, asserted, Unscrolled>>

konsole_view_scroll_down_test ==
  /\ scrolling = "no" /\ CanScrollDown(Now)
  /\ scrolling' = "down" /\ seen' = start_index
  /\ UNCHANGED <<start_index, asserted, Unscrolled>>

Scroll ==
  /\ scrolling \in {"up", "down"}
  /\ \E from \in {seen, start_index} :
       start_index' = from + (IF scrolling = "up" THEN -konsole_w ELSE konsole_w)
  /\ scrolling' = "redraw" /\ seen' = 0
  /\ UNCHANGED <<asserted, Unscrolled>>

konsole_redraw_from_history ==
  /\ scrolling = "redraw"
  /\ asserted' = Redrawn(Now).bad
  /\ scrolling' = "no"
  /\ UNCHANGED <<start_index, seen, Unscrolled>>

ConsoleInit ==
  /\ konsole_output_history = Screen /\ start_index = 0
  /\ konsole_curr_x = 0 /\ konsole_curr_y = 0
  /\ scrolling = "no" /\ seen = 0 /\ asserted = FALSE
  /\ paper = [i \in 1..MaxCells |-> BLANK] /\ pen = <<0, 0>>

\* A failed assertion panics.
ConsoleNext ==
  /\ ~asserted
  /\ \/ \E ch \in Glyphs \union {"newline", "backspace"} : konsole_putch(ch)
     \/ konsole_clear
     \/ konsole_view_scroll_up_test \/ konsole_view_scroll_down_test
     \/ Scroll \/ konsole_redraw_from_history

ConsoleSpec == ConsoleInit /\ [][ConsoleNext]_consoleVars

(***************************************************************************)
(* Nothing printed is lost or put in a wrong place: whatever the window    *)
(* does meanwhile, the history is what an endless sheet of paper would     *)
(* show, and the cursor of a window at the bottom is the sheet's pen       *)
(* (konsole.c:170, "so that curr_x and curr_y are in sight").              *)
(***************************************************************************)
TextKept ==
  ~asserted =>
    /\ \A i \in 1..MaxCells : paper[i] = IF i <= cells_count THEN konsole_output_history[i] ELSE BLANK
    /\ pen[2] = konsole_curr_x
    /\ pen[1] * konsole_w = cells_count - window + konsole_curr_y * konsole_w

(***************************************************************************)
(* konsole.c:90: a scroll reports "whether it could be done so as not to   *)
(* leave the bounds of the array".  Violated: another task prints between  *)
(* the test and the change, which moves the window to the bottom, and the  *)
(* change takes it one row further (in the debug build, which reads the    *)
(* index again); the redraw then panics, and prints on the same console.   *)
(***************************************************************************)
ScrollStaysInBounds == ~asserted
=============================================================================
