----------------------------- MODULE MCServices ------------------------------
(***************************************************************************)
(* The services over the kernel's core, for TLC: the terminal's line       *)
(* editor and parser of commands, the console and its printf, the keyboard *)
(* and the mouse, the containers and the semaphore.  A behaviour is one of *)
(* a single part, which the initial state picks; the variables of the      *)
(* others are OFF, or stay in their initial states.                        *)
(***************************************************************************)
EXTENDS Semaphore, Mouse, Keyboard, LineEditor, Console,
  DynamicArray

CONSTANTS NULL, OFF

VARIABLES part,
  table, stored,
  directive, argument, out, taken,
  typed_args, parsed

\* A motion to the left and down, and one whose x looks like flags.
MCPackets == {<<56, 250, 253>>, <<8, 12, 1>>}

\* Keys that share buckets of 5, of 11 and of 37, enough of them for 37.
Table == INSTANCE HashTable WITH Keys <- {0, 5, 11, 16, 37, 55}, Values <- {1, 2}

\* Words of two hexadecimal digits: 128 is the smallest signed number.
Printer == INSTANCE Printf WITH
  WORD <- 256, Values <- {0, 1, 10, 127, 128, 255},
  Widths <- {0, 3, 7, -7}, Precisions <- {-1, -2, 0, 2, 5}

Parser == INSTANCE Argparse WITH MaxArguments <- 2,
  Words <- {<<"a">>, <<"b", " ", "a">>, <<"a", "/">>, <<" ">>}

ASSUME
  /\ Table!HashTableAssumption /\ Printer!PrintfAssumption /\ Parser!ArgparseAssumption

-----------------------------------------------------------------------------
table_vars == <<table, stored>>
printf_vars == <<directive, argument, out, taken>>
parser_vars == <<typed_args, parsed>>

service_vars == <<table_vars, parser_vars, printf_vars>>
extended_vars == <<mouseVars, keyboardVars, editorVars, semaphoreVars, consoleVars, arrayVars>>

vars == <<part, service_vars, extended_vars>>

OffInit ==
  /\ IF part = "table" THEN Table!Init ELSE table = OFF /\ stored = OFF
  /\ IF part = "printf" THEN Printer!Init
     ELSE directive = OFF /\ argument = OFF /\ out = OFF /\ taken = OFF
  /\ IF part = "parser" THEN Parser!Init ELSE typed_args = OFF /\ parsed = OFF

Init ==
  /\ part \in {"editor", "keyboard", "mouse", "table", "array", "console", "semaphore",
               "printf", "parser"}
  /\ EditorInit /\ KeyboardInit /\ MouseInit
  /\ ConsoleInit /\ SemaphoreInit /\ ArrayInit /\ OffInit

\* The steps of the parts whose variables are OFF in the others.
ServiceNext ==
  \/ part = "table" /\ Table!Next /\ UNCHANGED <<parser_vars, printf_vars>>
  \/ part = "parser" /\ Parser!Next /\ UNCHANGED <<table_vars, printf_vars>>
  \/ part = "printf" /\ Printer!Next /\ UNCHANGED <<table_vars, parser_vars>>

Next ==
  /\ UNCHANGED part
  /\ \/ ServiceNext /\ UNCHANGED extended_vars
     \/ /\ UNCHANGED service_vars
        /\ \/ /\ part = "mouse" /\ MouseNext
              /\ UNCHANGED <<keyboardVars, editorVars, semaphoreVars, consoleVars, arrayVars>>
           \/ /\ part = "keyboard" /\ KeyboardNext
              /\ UNCHANGED <<mouseVars, editorVars, semaphoreVars, consoleVars, arrayVars>>
           \/ /\ part = "editor" /\ EditorNext
              /\ UNCHANGED <<mouseVars, keyboardVars, semaphoreVars, consoleVars, arrayVars>>
           \/ /\ part = "console" /\ ConsoleNext
              /\ UNCHANGED <<mouseVars, keyboardVars, editorVars, semaphoreVars, arrayVars>>
           \/ /\ part = "semaphore" /\ SemaphoreNext
              /\ UNCHANGED <<mouseVars, keyboardVars, editorVars, consoleVars, arrayVars>>
           \/ /\ part = "array" /\ ArrayNext
              /\ UNCHANGED <<mouseVars, keyboardVars, editorVars, semaphoreVars, consoleVars>>

Spec == Init /\ [][Next]_vars

-----------------------------------------------------------------------------
(***************************************************************************)
(* The properties of these parts, over their behaviours.                   *)
(***************************************************************************)
\* HashTable: a lookup gives what was stored last (hash_table.c:93).
TableIsMap == part = "table" => Table!TableIsMap
\* Printf: a printed number can be read back (konsole.c:285).
NumbersReadBack == part = "printf" => Printer!NumbersReadBack
\* Argparse: a command gets the arguments that were typed (argparse.c:4).
ArgumentsAsTyped == part = "parser" => Parser!ArgumentsAsTyped

\* What the code does otherwise: see the modules.
WideNumbersReadBack == part = "printf" => Printer!WideNumbersReadBack
=============================================================================
