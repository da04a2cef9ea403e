------------------------------ MODULE LineEditor -----------------------------
(***************************************************************************)
(* The line editor of the terminal, kernel/terminal.c: a line is gathered  *)
(* in terminal_input_buff until Enter or Ctrl+C, and a line that Enter     *)
(* ended joins the history and is run as a command.  Keys arrive in the    *)
(* terminal's input stream (module InputManager) at any time; the terminal *)
(* takes all that are there when it wakes.                                 *)
(***************************************************************************)
EXTENDS Integers, Sequences

CONSTANTS
  TERMINAL_INPUT_BUFF_SIZE,
  Symbols,          \* characters, the space among them
  QUEUE,            \* keys the input stream holds
  MaxHistory        \* bound on the lines that are run

ASSUME LineEditorAssumption ==
  TERMINAL_INPUT_BUFF_SIZE \in Nat \ {0} /\ QUEUE \in Nat /\ MaxHistory \in Nat
    /\ Symbols \cap {"enter", "cancel", "backspace", "up", "down", "end"} = {}

VARIABLES
  keys,             \* the input stream
  at,               \* "asleep" in task_wait_until, "awake", or in a "command"
  buff,             \* terminal_input_buff
  length,           \* terminal_input_buff_lenght
  EOI, cancelled,   \* terminal_EOI_flag, terminal_cancelled_flag
  history,          \* command_history: the arrays that were copied
  index,            \* command_history_index
  typed,            \* the line as typed so far (history variable)
  ran,              \* the lines that were run as the user typed them; one that late
                    \* keys changed, as the history has it (history variable)
  late              \* a key came after the end of the line and in the same batch

editorVars == <<keys, at, buff, length, EOI, cancelled, history, index, typed, ran, late>>

EditorKeys == Symbols \union {"enter", "cancel", "backspace", "up", "down"}
LIMIT == TERMINAL_INPUT_BUFF_SIZE - 1
END == "end"    \* the character 0

\* The string in an array from 0: up to the first END.
CString(array) ==
  LET ends == {i \in DOMAIN array : array[i] = END}
      n == CHOOSE i \in ends : \A j \in ends : i <= j
  IN  [i \in 1 .. n |-> array[i - 1]]

-----------------------------------------------------------------------------
(***************************************************************************)
(* The edits of the buffer, on a line [buff, length].                      *)
(***************************************************************************)
terminal_input_buff_add_symbol(line, symbol) ==
  IF line.length >= LIMIT THEN line
  ELSE [buff |-> [line.buff EXCEPT ![line.length] = symbol], length |-> line.length + 1]

terminal_command_erase_last(line) ==
  IF line.length = 0 THEN line
  ELSE [buff |-> [line.buff EXCEPT ![line.length - 1] = END], length |-> line.length - 1]

terminal_command_clear(line) ==
  [buff |-> [i \in DOMAIN line.buff |-> IF i < line.length THEN END ELSE line.buff[i]],
   length |-> 0]

\* terminal_input_buff_reload_from_command_history, for the new index n.
\* Mutant: the line is not cleared first.
reload_over(line, n) ==
  IF n = Len(history) THEN terminal_command_clear(line)
  ELSE LET command == CString(history[n + 1])
       IN  [buff |-> [i \in DOMAIN line.buff |->
                        IF i < Len(command) THEN command[i + 1] ELSE line.buff[i]],
            length |-> IF line.length > Len(command) THEN line.length ELSE Len(command)]

reload_from_command_history(line, n) ==
  LET cleared == terminal_command_clear(line)
  IN  IF n = Len(history) THEN cleared
      ELSE LET command == CString(history[n + 1])
           IN  [buff |-> [i \in DOMAIN line.buff |->
                            IF i < Len(command) THEN command[i + 1] ELSE cleared.buff[i]],
                length |-> Len(command)]

Line == [buff |-> buff, length |-> length]
SetLine(line) == buff' = line.buff /\ length' = line.length

-----------------------------------------------------------------------------
(***************************************************************************)
(* A key arrives, if the stream has room, and wakes the terminal.          *)
(***************************************************************************)
Arrive(key) ==
  /\ Len(keys) < QUEUE
  /\ keys' = Append(keys, key)
  /\ at' = IF at = "asleep" THEN "awake" ELSE at
  /\ UNCHANGED <<buff, length, EOI, cancelled, history, index, typed, ran, late>>

(***************************************************************************)
(* One round of terminal_process_keyboard_input.  A symbol that no longer  *)
(* fits is echoed all the same (terminal.c:155); the keys after Enter or   *)
(* Ctrl+C in the same batch still edit the line (terminal.c:89).           *)
(***************************************************************************)
NewIndex(key) ==
  IF key = "up" /\ index > 0 THEN index - 1
  ELSE IF key = "down" /\ index < Len(history) THEN index + 1 ELSE index

Typed(key) ==
  IF key \in Symbols THEN IF Len(typed) < LIMIT THEN Append(typed, key) ELSE typed
  ELSE IF key = "backspace" THEN IF typed = <<>> THEN <<>> ELSE SubSeq(typed, 1, Len(typed) - 1)
  ELSE IF key \in {"up", "down"}
  THEN IF NewIndex(key) = Len(ran) THEN <<>> ELSE ran[NewIndex(key) + 1]
  ELSE typed

Edited(key) ==
  IF key \in Symbols THEN terminal_input_buff_add_symbol(Line, key)
  ELSE IF key \in {"enter", "cancel"} THEN terminal_input_buff_add_symbol(Line, END)
  ELSE IF key = "backspace" THEN terminal_command_erase_last(Line)
  ELSE reload_from_command_history(Line, NewIndex(key))

ProcessKey ==
  LET key == Head(keys)
  IN  /\ at = "awake" /\ keys # <<>>
      /\ keys' = Tail(keys)
      /\ SetLine(Edited(key))
      /\ index' = NewIndex(key)
      /\ EOI' = (EOI \/ key = "enter")
      /\ cancelled' = (cancelled \/ key = "cancel")
      /\ typed' = Typed(key)
      /\ late' = (late \/ EOI \/ cancelled)
      /\ UNCHANGED <<at, history, ran>>

(***************************************************************************)
(* The stream is empty: terminal_get_input_line goes back to sleep, or     *)
(* returns; a line that Enter ended is copied to the history and is run.   *)
(***************************************************************************)
terminal_command_history_add ==
  /\ history' = Append(history, [i \in 0 .. length |-> IF i < length THEN buff[i] ELSE END])
  /\ index' = Len(history) + 1
  /\ ran' = Append(ran, IF late THEN CString(history'[Len(history) + 1]) ELSE typed)

BatchEnd ==
  /\ at = "awake" /\ keys = <<>>
  /\ at' = IF EOI \/ cancelled THEN "command" ELSE "asleep"
  /\ IF EOI THEN Len(history) < MaxHistory /\ terminal_command_history_add
     ELSE UNCHANGED <<history, index, ran>>
  /\ UNCHANGED <<keys, buff, length, EOI, cancelled, typed, late>>

(***************************************************************************)
(* terminal_main_loop: the command is done, and the next line begins, with *)
(* a wait before the first look at the stream (terminal.c:174).            *)
(***************************************************************************)
terminal_get_input_line ==
  /\ at = "command"
  /\ at' = "asleep"
  /\ length' = 0 /\ EOI' = FALSE /\ cancelled' = FALSE
  /\ typed' = <<>> /\ late' = FALSE
  /\ UNCHANGED <<keys, buff, history, index, ran>>

EditorInit ==
  /\ keys = <<>> /\ at = "asleep"
  /\ buff = [i \in 0 .. LIMIT |-> END] /\ length = 0
  /\ EOI = FALSE /\ cancelled = FALSE
  /\ history = <<>> /\ index = 0
  /\ typed = <<>> /\ ran = <<>> /\ late = FALSE

EditorNext ==
  \/ \E key \in EditorKeys : Arrive(key)
  \/ ProcessKey \/ BatchEnd \/ terminal_get_input_line

EditorSpec == EditorInit /\ [][EditorNext]_editorVars

-----------------------------------------------------------------------------
(***************************************************************************)
(* The command that is run is the line that was typed, with its edits and  *)
(* what was called back from the history, cut at the size of the buffer,   *)
(* unless keys followed Enter in the same batch: nothing of an earlier,    *)
(* longer line that is still in the buffer ever shows through.             *)
(***************************************************************************)
LineIsTyped == at = "command" /\ EOI /\ ~ late => CString(buff) = typed

(***************************************************************************)
(* The buffer always ends a string, even when keys follow Enter, so that   *)
(* no command, prompt or copy into the history reads past it.              *)
(***************************************************************************)
BufferEnds == buff[LIMIT] = END

(***************************************************************************)
(* The history holds the commands as they were run, and the place in it is *)
(* always one of them or the empty line after them.                        *)
(***************************************************************************)
HistoryIsRan ==
  /\ index \in 0 .. Len(history)
  /\ Len(history) = Len(ran)
  /\ \A i \in DOMAIN history : CString(history[i]) = ran[i]
(***************************************************************************)
(* The command that is run is the one that was typed, the buffer always    *)
(* ends a string, and the history is what was run (terminal.c:36-166).     *)
(***************************************************************************)
CommandIsTyped == LineIsTyped /\ BufferEnds /\ HistoryIsRan
=============================================================================
