------------------------------- MODULE Printf -------------------------------
(***************************************************************************)
(* konsole_vprintf of gui/konsole.c.  A directive is the record of its     *)
(* parts, in the order the parser takes them; its output is a sequence of  *)
(* characters, each a string of length one; its arguments are 32-bit words *)
(* on the caller's stack.  Upper case is as lower case, and a word is      *)
(* shorter than 32 bits, a number of whole hexadecimal digits.             *)
(***************************************************************************)
EXTENDS Integers, Sequences, SequencesExt

CONSTANTS
  WORD,     \* 2^32, made small: a power of 16
  Values,   \* the words that are printed
  Widths, Precisions   \* a negative width can only come from "*"

PrintfAssumption ==
  /\ WORD \in {16, 256, 4096} /\ Values \subseteq 0..WORD - 1
  /\ Widths \subseteq Int /\ Precisions \subseteq Int

VARIABLES
  directive,  \* [flags, width, precision, length, specifier]
  argument,   \* [low, high], the second word for a 64-bit argument
  out,        \* what was printed
  taken       \* how many words va_arg took; -1 before the call

vars == <<directive, argument, out, taken>>

Digit == [n \in 0..15 |-> <<"0", "1", "2", "3", "4", "5", "6", "7",
                            "8", "9", "a", "b", "c", "d", "e", "f">>[n + 1]]

Times(ch, n) == [i \in 1..(IF n > 0 THEN n ELSE 0) |-> ch]

\* The digits of value, most significant first; of 0, none.
RECURSIVE DigitsOf(_, _)
DigitsOf(value, base) ==
  IF value = 0 THEN <<>> ELSE Append(DigitsOf(value \div base, base), Digit[value % base])

\* Precision is the least number of digits; without one (-1) zero is "0".
WithPrecision(digits, precision) ==
  LET shown == IF digits = <<>> /\ precision # 0 THEN <<"0">> ELSE digits
  IN Times("0", precision - Len(shown)) \o shown

Prefix(base, alternate, digits) ==
  IF ~alternate \/ digits = <<>> THEN <<>>
  ELSE CASE base = 16 -> <<"0", "x">> [] base = 8 -> <<"0">> [] OTHER -> <<>>

Aligned(body, width, left) ==
  LET padding == Times(" ", width - Len(body))
  IN IF left THEN body \o padding ELSE padding \o body

konsole_put_uint32(value, base, width, precision, left, zero_pad, alternate, sign) ==
  LET digits == WithPrecision(DigitsOf(value, base), precision)
      head == sign \o Prefix(base, alternate, digits)
  IN IF zero_pad /\ ~left /\ precision < 0
     THEN head \o Times("0", width - Len(head) - Len(digits)) \o digits
     ELSE Aligned(head \o digits, width, left)

\* A word as a signed number, its sign and its magnitude: -(value + 1), then
\* one more, which the smallest value survives.
Signed(word) == IF word < WORD \div 2 THEN word ELSE word - WORD
SignOf(value, plus, space) ==
  IF value < 0 THEN <<"-">> ELSE IF plus THEN <<"+">> ELSE IF space THEN <<" ">> ELSE <<>>

\* Mutant: the smallest value is not corrected.
Magnitude_saturated(value) == IF value < 0 THEN -(value + 1) ELSE value

Magnitude(value) == IF value < 0 THEN (-(value + 1) + 1) % WORD ELSE value

konsole_put_int32(value, width, precision, left, zero_pad, plus, space) ==
  konsole_put_uint32(Magnitude(value), 10, width, precision, left, zero_pad, FALSE,
                     SignOf(value, plus, space))

\* The nibbles of the low word up to its last that is not 0, then those of
\* the high word.
konsole_put_hex64(high, low, width, precision, left, alternate) ==
  LET digits == WithPrecision(DigitsOf(high, 16) \o DigitsOf(low, 16), precision)
  IN Aligned(Prefix(16, alternate, digits) \o digits, width, left)

\* Text stands for a string of three characters.
Text == <<"s", "t", "r">>
konsole_put_string(str, width, precision, left) ==
  Aligned(IF precision >= 0 /\ precision < Len(str) THEN SubSeq(str, 1, precision) ELSE str,
          width, left)

-----------------------------------------------------------------------------
(***************************************************************************)
(* The parser's results: a negative width of "*" means "-"; a negative     *)
(* precision of "*" is none, and a precision switches the flag "0" off,    *)
(* even one that was then found to be none.                                *)
(***************************************************************************)
left == "-" \in directive.flags \/ directive.width < 0
width == IF directive.width < 0 THEN -directive.width ELSE directive.width
precision == IF directive.precision < 0 THEN -1 ELSE directive.precision
zero == "0" \in directive.flags /\ directive.precision = -1
alternate == "#" \in directive.flags
long_long == directive.length = "ll"

\* What is printed for d and u; a 64-bit one is refused with an empty pair.
Decimal ==
  CASE long_long -> <<"[", "]">>
    [] directive.specifier = "d" ->
         konsole_put_int32(Signed(argument.low), width, precision, left, zero,
                           "+" \in directive.flags, " " \in directive.flags)
    [] OTHER -> konsole_put_uint32(argument.low, 10, width, precision, left, zero, FALSE, <<>>)

HexOrOctal ==
  IF directive.specifier = "x" /\ long_long
  THEN konsole_put_hex64(argument.high, argument.low, width, precision, left, alternate)
  ELSE konsole_put_uint32(argument.low, IF directive.specifier = "x" THEN 16 ELSE 8,
                          width, precision, left, zero, alternate, <<>>)

\* A pointer has a layout of its own.
TextOrPointer ==
  CASE directive.specifier = "c" -> Aligned(<<"c">>, width, left)
    [] directive.specifier = "s" -> konsole_put_string(Text, width, precision, left)
    [] OTHER ->
         <<"0", "x">> \o konsole_put_uint32(argument.low, 16, 8, 8, FALSE, TRUE, FALSE, <<>>)

Shown ==
  CASE directive.specifier \in {"d", "u"} -> Decimal
    [] directive.specifier \in {"x", "o"} -> HexOrOctal
    [] OTHER -> TextOrPointer

WordsTaken == IF long_long /\ directive.specifier \in {"d", "u", "x"} THEN 2 ELSE 1

konsole_vprintf ==
  /\ taken = -1
  /\ out' = Shown /\ taken' = WordsTaken
  /\ UNCHANGED <<directive, argument>>

\* Every layout of a number, and every length with no layout.
Directives ==
  [flags : SUBSET {"-", "+", " ", "0", "#"}, width : Widths, precision : Precisions,
   length : {""}, specifier : {"d", "u", "x", "o"}]
    \union
  [flags : {{}, {"-"}, {"#"}}, width : Widths, precision : Precisions,
   length : {"hh", "h", "l", "ll", "z", "t"}, specifier : {"d", "u", "x", "c", "s", "p"}]

Arguments ==
  {[low |-> v, high |-> 0] : v \in Values} \union {[low |-> v, high |-> 1] : v \in {1, WORD - 1}}

Init ==
  /\ directive \in Directives /\ argument \in Arguments
  /\ argument.high = 0 \/ (long_long /\ directive.specifier \in {"d", "u", "x"})
  /\ out = <<>> /\ taken = -1

Next == konsole_vprintf

-----------------------------------------------------------------------------
(***************************************************************************)
(* A reader of the output: it drops blanks, a sign and a prefix, and reads *)
(* the rest in the directive's base.                                       *)
(***************************************************************************)
Base == CASE directive.specifier \in {"d", "u"} -> 10
          [] directive.specifier = "o" -> 8 [] OTHER -> 16
Marks == SelectSeq(out, LAMBDA ch : ch \notin {" ", "+", "-"})
Number == IF Len(Marks) > 1 /\ Marks[2] = "x" THEN SubSeq(Marks, 3, Len(Marks)) ELSE Marks
Weight(ch) == CHOOSE n \in 0..15 : Digit[n] = ch
ValueRead ==
  (IF Contains(out, "-") THEN -1 ELSE 1) *
    FoldLeft(LAMBDA acc, ch : acc * Base + Weight(ch), 0, Number)

Numeric == directive.specifier \in {"d", "u", "x", "o", "p"} /\
           ~(long_long /\ directive.specifier \in {"d", "u"})
ValuePassed ==
  IF directive.specifier = "d" THEN Signed(argument.low)
  ELSE IF long_long THEN argument.high * WORD + argument.low ELSE argument.low

\* The 64-bit numbers that put_hex64 gets right have no leading zeros to
\* lose in the low word.
LowWordFull == argument.high = 0 \/ argument.low >= WORD \div 16

(***************************************************************************)
(* A number is printed so that it can be read back, whatever the flags,    *)
(* the width and the precision, down to the smallest signed number, and    *)
(* it fills its width without ever being cut to it (konsole.c:455, 353).   *)
(***************************************************************************)
NumbersReadBack ==
  (taken # -1 /\ Numeric /\ LowWordFull) =>
    /\ ValueRead = ValuePassed
    /\ directive.specifier # "p" => Len(out) >= width
    /\ (directive.specifier # "p" /\ Len(out) > width) =>
         Len(SelectSeq(out, LAMBDA ch : ch = " ")) <= 1

(***************************************************************************)
(* konsole.c:240: "%llx 64-bit hex".  Violated: put_hex64 stops at the low *)
(* word's last nibble that is not 0 and then appends the high word's.      *)
(***************************************************************************)
WideNumbersReadBack ==
  (taken # -1 /\ directive.specifier = "x" /\ long_long) => ValueRead = ValuePassed
=============================================================================
