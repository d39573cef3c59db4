------------------------------- MODULE Printing -------------------------------
(***************************************************************************)
(* The two small printf of the HAL, character by character: alt_printf     *)
(* (%% %c %x %s) and alt_log_private_printf (%d %i %u %o %x %X %c %s with  *)
(* width and leading zeros). Both write to what is left of the format      *)
(* pointer; numbers are words of IntBits bits.                             *)
(***************************************************************************)
EXTENDS Integers, Sequences

CONSTANTS
    Formats,        \* format strings, as sequences of characters
    Values,         \* what an argument may be, an unsigned word
    String,         \* what a string argument may be
    IntBits         \* of a word, a multiple of four

ASSUME PrintingConstants ==
    /\ IntBits \in Nat \ {0} /\ IntBits % 4 = 0
    /\ Values \subseteq 0..2^IntBits - 1

VARIABLES
    printer,        \* "none", "alt_printf" or "alt_log"
    format, value,  \* of the call
    w,              \* the format pointer
    pfState,        \* "chars", "first", "other" or "done"
    fmt,            \* LeadingZero, BeforeDecimal, AfterDecimal
    out             \* what was printed

printVars == <<printer, format, value, w, pfState, fmt, out>>

Digits == <<"0", "1", "2", "3", "4", "5", "6", "7", "8", "9">>
Lower == Digits \o <<"a", "b", "c", "d", "e", "f">>
Upper == Digits \o <<"A", "B", "C", "D", "E", "F">>
IsDigit(c) == \E i \in DOMAIN Digits : Digits[i] = c
DigitOf(c) == (CHOOSE i \in DOMAIN Digits : Digits[i] = c) - 1
Plain == [LeadingZero |-> FALSE, BeforeDecimal |-> -1, AfterDecimal |-> -1]

PrintType ==
    /\ printer \in {"none", "alt_printf", "alt_log"}
    /\ w \in Nat /\ value \in Values
    /\ pfState \in {"chars", "first", "other", "done"}
    /\ fmt.LeadingZero \in BOOLEAN
    /\ {fmt.BeforeDecimal, fmt.AfterDecimal} \subseteq Int

PrintInit ==
    /\ printer = "none" /\ format \in Formats /\ value \in Values
    /\ w = 1 /\ pfState = "chars" /\ fmt = Plain /\ out = <<>>

-----------------------------------------------------------------------------
(* Numbers                                                                 *)

\* alt_printf: the first digit that is not zero is searched for, then one
\* digit after the other is shifted out.
Nibble(v, shift) == (v \div 2^shift) % 16
SearchShift(v) ==
    LET from[s \in 0..IntBits - 4] ==
            IF s = 0 \/ Nibble(v, s) # 0 THEN s ELSE from[s - 4]
    IN  from[IntBits - 4]

HexFrom(v, shift) ==
    [i \in 1..shift \div 4 + 1 |-> Lower[Nibble(v, shift - 4 * (i - 1)) + 1]]
HexDigits(v) == IF v = 0 THEN <<"0">> ELSE HexFrom(v, SearchShift(v))

\* alt_log_private_printf: the largest power of the base in v and how many
\* digits that makes, then a division by every power down to one.
PlaceValueBeyond(v, base) ==        \* mutant of PlaceValue
    LET grow[x \in 0..v] ==
            IF x = 0 THEN [p |-> 1, count |-> 1]
            ELSE LET up == grow[x \div base]
                 IN  [p |-> up.p * base, count |-> up.count + 1]
    IN  grow[v]
PlaceValue(v, base) ==
    LET grow[x \in 0..v] ==
            IF x \div base = 0 THEN [p |-> 1, count |-> 1]
            ELSE LET up == grow[x \div base]
                 IN  [p |-> up.p * base, count |-> up.count + 1]
    IN  grow[v]

NumberDigits(v, base, letters) ==
    LET place == PlaceValue(v, base)
        left[i \in 1..place.count] ==
            IF i = 1 THEN [v |-> v, p |-> place.p]
            ELSE [v |-> left[i - 1].v % left[i - 1].p, p |-> left[i - 1].p \div base]
    IN  [i \in 1..place.count |-> letters[left[i].v \div left[i].p + 1]]

Repeated(c, n) == [i \in 1..(IF n > 0 THEN n ELSE 0) |-> c]

\* A minus sign goes before leading zeros and after leading blanks.
Padding(f, sign, count) == f.BeforeDecimal - count - Len(sign)

Integer(v, f, base, signed, letters) ==
    LET negative == signed /\ v >= 2^(IntBits - 1)
        magnitude == IF negative THEN 2^IntBits - v ELSE v
        sign == IF negative THEN <<"-">> ELSE <<>>
        digits == NumberDigits(magnitude, base, letters)
        pad == Padding(f, sign, Len(digits))
    IN  IF f.LeadingZero THEN sign \o Repeated("0", pad) \o digits
        ELSE Repeated(" ", pad) \o sign \o digits

-----------------------------------------------------------------------------
(* The two printers                                                        *)

Begin(p) ==
    /\ printer = "none"
    /\ printer' = p
    /\ UNCHANGED <<format, value, w, pfState, fmt, out>>

Prints(p) == printer = p /\ pfState # "done"
More == w <= Len(format)
Emit(text) == out' = out \o text
Char == <<"c">>                     \* of %c
Keep == UNCHANGED <<printer, format, value>>
ToState(s) == pfState' = s

EndOfFormat ==
    /\ printer # "none" /\ pfState # "done" /\ ~More
    /\ ToState("done")
    /\ UNCHANGED <<w, fmt, out>> /\ Keep

\* alt_printf: letters it does not know print nothing.
AltConversion(c) ==
    CASE c = "%" -> <<"%">> [] c = "c" -> Char
      [] c = "x" -> HexDigits(value) [] c = "s" -> String
      [] OTHER -> <<>>

AltPrintf ==
    /\ Prints("alt_printf") /\ More
    /\ w' = w + 1
    /\ IF pfState = "chars"
       THEN IF format[w] = "%" THEN ToState("first") /\ UNCHANGED out
            ELSE Emit(<<format[w]>>) /\ UNCHANGED pfState
       ELSE Emit(AltConversion(format[w])) /\ ToState("chars")
    /\ UNCHANGED fmt /\ Keep

\* alt_log_private_printf: text, and the character after '%'
LogText ==
    /\ Prints("alt_log") /\ More /\ pfState = "chars"
    /\ w' = w + 1
    /\ IF format[w] = "%" THEN ToState("first") /\ fmt' = Plain /\ UNCHANGED out
       ELSE Emit(<<format[w]>>) /\ UNCHANGED <<pfState, fmt>>
    /\ Keep

LogFirst ==
    /\ Prints("alt_log") /\ More /\ pfState = "first"
    /\ CASE format[w] = "0" -> /\ ToState("other") /\ w' = w + 1
                               /\ fmt' = [fmt EXCEPT !.LeadingZero = TRUE]
                               /\ UNCHANGED out
         [] format[w] = "%" -> /\ ToState("chars") /\ w' = w + 1
                               /\ Emit(<<"%">>) /\ UNCHANGED fmt
         [] OTHER -> ToState("other") /\ UNCHANGED <<w, fmt, out>>
    /\ Keep

WidthDigit(f, d) ==
    IF f.AfterDecimal < 0
    THEN [f EXCEPT !.BeforeDecimal = IF @ < 0 THEN d ELSE @ * 10 + d]
    ELSE [f EXCEPT !.AfterDecimal = @ * 10 + d]

Modifies(c) == c \in {".", "l"} \/ IsDigit(c)

LogModifier ==
    /\ Prints("alt_log") /\ More /\ pfState = "other" /\ Modifies(format[w])
    /\ w' = w + 1
    /\ fmt' = IF format[w] = "." THEN [fmt EXCEPT !.AfterDecimal = 0]
              ELSE IF format[w] = "l" THEN fmt
              ELSE WidthDigit(fmt, DigitOf(format[w]))
    /\ UNCHANGED <<pfState, out>> /\ Keep

\* The letter that says what to print
LogConversion(c) ==
    CASE c \in {"d", "i"} -> Integer(value, fmt, 10, TRUE, Lower)
      [] c = "u" -> Integer(value, fmt, 10, FALSE, Lower)
      [] c = "o" -> Integer(value, fmt, 8, FALSE, Lower)
      [] c = "x" -> Integer(value, fmt, 16, FALSE, Lower)
      [] c = "X" -> Integer(value, fmt, 16, FALSE, Upper)
      [] c = "c" -> Repeated(" ", fmt.BeforeDecimal - 1) \o Char
      [] c = "s" -> Repeated(" ", fmt.BeforeDecimal - Len(String)) \o String
      [] OTHER -> <<>>

LogLetter ==
    /\ Prints("alt_log") /\ More /\ pfState = "other" /\ ~Modifies(format[w])
    /\ w' = w + 1
    /\ Emit(LogConversion(format[w])) /\ ToState("chars")
    /\ UNCHANGED fmt /\ Keep

PrintNext ==
    \/ \E p \in {"alt_printf", "alt_log"} : Begin(p)
    \/ EndOfFormat \/ AltPrintf
    \/ LogText \/ LogFirst \/ LogModifier \/ LogLetter

PrintSpec == PrintInit /\ [][PrintNext]_printVars

-----------------------------------------------------------------------------
(* What a format means, said without a state machine: the conversion that  *)
(* starts at a '%' ends at its first letter that is no modifier.           *)

Last(s) == s[Len(s)]
DigitValue(letters, c) == (CHOOSE i \in DOMAIN letters : letters[i] = c) - 1
Decode(text, base, letters) ==
    LET sum[i \in 0..Len(text)] ==
            IF i = 0 THEN 0 ELSE sum[i - 1] * base + DigitValue(letters, text[i])
    IN  sum[Len(text)]

IsConversion(f) ==
    /\ Len(f) >= 2 /\ f[1] = "%" /\ ~Modifies(Last(f)) /\ Last(f) # "%"
    /\ \A i \in 2..Len(f) - 1 : Modifies(f[i])

WidthOf(f) ==
    LET upTo(i) == \A j \in 2..i : f[j] # "."
        ds == SelectSeq([i \in 1..Len(f) |-> IF upTo(i) THEN f[i] ELSE "l"], IsDigit)
    IN  IF ds = <<>> THEN 0 ELSE Decode(ds, 10, Digits)

BaseOf(c) == CASE c = "o" -> 8 [] c \in {"x", "X"} -> 16 [] OTHER -> 10

(* A number printed with %d %i %u %o %x or %X reads back as the argument:  *)
(* its digits, after blanks, zeros and a sign, are those of the value, the *)
(* most negative one included, and padding fills the width and no more.    *)
NumbersReadBack ==
    LET c == Last(format)
        letters == IF c = "X" THEN Upper ELSE Lower
        text == SelectSeq(out, LAMBDA x : x \notin {" ", "-"})
        negative == c \in {"d", "i"} /\ value >= 2^(IntBits - 1)
        magnitude == IF negative THEN 2^IntBits - value ELSE value
        padded == out[1] = " " \/ (Len(text) > 1 /\ text[1] = "0")
    IN  printer = "alt_log" /\ pfState = "done" /\ IsConversion(format)
        /\ c \in {"d", "i", "u", "o", "x", "X"}
        => /\ Decode(text, BaseOf(c), letters) = magnitude
           /\ negative <=> \E i \in DOMAIN out : out[i] = "-"
           /\ Len(out) >= WidthOf(format)
           /\ padded => Len(out) = WidthOf(format)

(* alt_printf and the log print the same text for the conversions both     *)
(* know, by different arithmetic.                                          *)
PrintersAgree ==
    printer = "alt_printf" /\ pfState = "done" /\ format = <<"%", "x">>
    => out = Integer(value, Plain, 16, FALSE, Lower)

(* Both printers write the digits of the number they are given.            *)
PrintsNumbers == NumbersReadBack /\ PrintersAgree
==============================================================================
