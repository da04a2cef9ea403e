------------------------------ MODULE Argparse ------------------------------
(***************************************************************************)
(* argparse_parse_command of lib/argparse.c: the terminal's line becomes   *)
(* the command's name and its arguments, plain words and named ones        *)
(* ("-name value").  The line is a sequence of characters; the parser is a *)
(* machine of four states that reads it character by character, the        *)
(* closing NUL included.                                                   *)
(***************************************************************************)
EXTENDS Integers, Sequences, SequencesExt

CONSTANTS Words, MaxArguments   \* bounds of the model on what is typed

ArgparseAssumption == MaxArguments \in Nat

VARIABLES
  typed_args,  \* what the user means: a sequence of arguments
  parsed       \* the result of the parser, or NOTHING before it

vars == <<typed_args, parsed>>

NUL == "NUL"
QUOTE == "quote"
BLANK == " "
NOTHING == [command_name |-> <<>>, arguments |-> <<>>]

\* argparse_argument_t: value is "NULL" for a plain word.
Plain(word) == [name |-> word, value |-> <<"NULL">>]
Named(word, value) == [name |-> word, value |-> value]

Start == [state |-> "CMDNAME", quotes |-> FALSE, text |-> <<>>, name |-> <<>>,
          command_name |-> <<>>, arguments |-> <<>>]

\* An unquoted blank, or the end of the line, ends a token.
Ends(s, ch) == ch = NUL \/ (ch = BLANK /\ ~s.quotes)

\* A value also ends at an unquoted slash.
EndsValue(s, ch) == Ends(s, ch) \/ (ch = "/" /\ ~s.quotes)

Adding(s, ch) == [s EXCEPT !.text = Append(@, ch)]
Push(s, argument) == [s EXCEPT !.arguments = Append(@, argument), !.text = <<>>]

InCommandName(s, ch) ==
  IF Ends(s, ch) THEN [s EXCEPT !.state = "INPUT", !.command_name = s.text, !.text = <<>>]
  ELSE Adding(s, ch)

\* A dash begins a name wherever it stands, and keeps what precedes it.
InInput(s, ch) ==
  IF ch = "-" THEN [s EXCEPT !.state = "ARGNAME"]
  ELSE IF Ends(s, ch) THEN Push(s, Plain(s.text))
  ELSE Adding(s, ch)

InName(s, ch) ==
  IF Ends(s, ch) THEN [s EXCEPT !.state = "ARGVAL", !.name = s.text, !.text = <<>>]
  ELSE Adding(s, ch)

InValue(s, ch) ==
  IF EndsValue(s, ch) THEN [Push(s, Named(s.name, s.text)) EXCEPT !.state = "INPUT"]
  ELSE Adding(s, ch)

\* Mutant: a name at the end of the line is dropped.
AtEnd_silent(s, ch) == s

\* A name at the end of the line has an empty value.
AtEnd(s, ch) ==
  IF ch = NUL /\ s.state = "ARGVAL" THEN Push(s, Named(s.name, <<>>)) ELSE s

Step(s, ch) ==
  IF s.text = <<>> /\ ~s.quotes /\ ch = BLANK THEN s
  ELSE IF ch = QUOTE THEN [s EXCEPT !.quotes = ~@]
  ELSE AtEnd(CASE s.state = "CMDNAME" -> InCommandName(s, ch)
               [] s.state = "INPUT" -> InInput(s, ch)
               [] s.state = "ARGNAME" -> InName(s, ch)
               [] s.state = "ARGVAL" -> InValue(s, ch), ch)

argparse_parse_command(buffer) ==
  LET end == FoldLeft(Step, Start, Append(buffer, NUL))
  IN [command_name |-> end.command_name, arguments |-> end.arguments]

-----------------------------------------------------------------------------
(***************************************************************************)
(* What a user types: a word with a blank or a slash goes in quotes, any   *)
(* number of blanks separates the arguments, none follows the last.  A     *)
(* dash inside a word, a blank at the end of the line and an argument      *)
(* after a name without a value are parsed as something else than meant.   *)
(***************************************************************************)
NeedsQuotes(word) == word = <<>> \/ \E i \in DOMAIN word : word[i] \in {BLANK, "/"}
Typing(word) == IF NeedsQuotes(word) THEN <<QUOTE>> \o word \o <<QUOTE>> ELSE word
TypingOf(argument) ==
  IF argument.value = <<"NULL">> THEN Typing(argument.name)
  ELSE <<"-">> \o Typing(argument.name) \o
       (IF argument.value = <<>> THEN <<>> ELSE <<BLANK, BLANK>> \o Typing(argument.value))

Line(arguments) ==
  <<BLANK, "c">> \o FlattenSeq([i \in DOMAIN arguments |-> <<BLANK>> \o TypingOf(arguments[i])])

Arguments == {Plain(w) : w \in Words} \union {Named(w, v) : w \in Words, v \in Words}

Init ==
  /\ \E n \in 0..MaxArguments : \E args \in [1..n -> Arguments], last \in BOOLEAN, w \in Words :
       typed_args = IF last THEN Append(args, Named(w, <<>>)) ELSE args
  /\ parsed = NOTHING

Parse ==
  /\ parsed = NOTHING
  /\ parsed' = argparse_parse_command(Line(typed_args))
  /\ UNCHANGED typed_args

Next == Parse

(***************************************************************************)
(* The command gets the arguments that were typed, in their order: quotes  *)
(* protect blanks and slashes, names keep their values, and a name at the  *)
(* end of the line is not lost (argparse.c:106).                            *)
(***************************************************************************)
ArgumentsAsTyped ==
  parsed # NOTHING => parsed = [command_name |-> <<"c">>, arguments |-> typed_args]
=============================================================================
