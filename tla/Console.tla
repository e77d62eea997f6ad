------------------------------ MODULE Console ------------------------------
(***************************************************************************)
(* The formatted output of the two programs on the serial line: UARTprintf *)
(* of uartstdio.c, which both have, and usprintf of ustdlib.c, which the   *)
(* simulator has as sprintf.                                               *)
(*                                                                         *)
(* A token is one character, or a piece of text that is written as a       *)
(* whole.  Of the conversions there are %s and %d; %u and %x, which these  *)
(* two programs do not use on the line, differ from %d by base and sign.   *)
(***************************************************************************)
EXTENDS Integers, Sequences, SequencesExt

CONSTANT WORD       (* Numbers are words of WORD values, 2^32 in the code. *)

ASSUME WordAssumption ==
    WORD \in Nat /\ WORD >= 32 /\ WORD % 2 = 0 /\ WORD \div 4 <= 1073741824

Int32 == -(WORD \div 2) .. WORD \div 2 - 1

CR == [kind |-> "cr"]
LF == [kind |-> "lf"]
Minus == [kind |-> "minus"]
Space == [kind |-> "fill"]
Word(text) == [kind |-> "word", of |-> text]
Digit(n) == [kind |-> "digit", value |-> n]

\* A format is a sequence of these.
Text(t) == [as |-> "text", of |-> <<t>>]
String(text) == [as |-> "text", of |-> text]
Decimal(value, width, fill) == [as |-> "decimal", of |-> value, width |-> width, fill |-> fill]

-----------------------------------------------------------------------------
(* Numbers. *)

\* What ulIdx may be, ulBase being 10.
Powers == <<1, 10, 100, 1000, 10000, 100000, 1000000, 10000000, 100000000, 1000000000>>

\* The loop of convert: the digits behind the first one, which is the number of
\* times that ulIdx is multiplied before it is beyond the value or a word.
Exponent(ulValue) ==
    LET powers == { k \in 0 .. 9 : Powers[k + 1] < WORD /\ Powers[k + 1] <= ulValue }
    IN IF powers = {} THEN 0 ELSE CHOOSE k \in powers : \A j \in powers : j <= k

\* The second loop: (ulValue / ulIdx) % ulBase.
Numerals(ulValue) ==
    LET k == Exponent(ulValue)
    IN [j \in 1 .. k + 1 |-> Digit((ulValue \div Powers[k + 2 - j]) % 10)]

\* Padding, if the count, which wraps below 0, asks for some.
Pad(ulCount, cFill) ==
    IF ulCount > 1 /\ ulCount < 16 THEN [j \in 1 .. ulCount - 1 |-> cFill] ELSE <<>>

Sign(value) == IF value < 0 THEN <<Minus>> ELSE <<>>

Magnitude(value) == IF value < 0 THEN -value ELSE value

\* %d of UARTprintf: the sign is in front of zeros, and behind spaces.
UARTDecimal(value, width, fill) ==
    LET ulValue == Magnitude(value)
        ulCount == (width - Exponent(ulValue) - Len(Sign(value))) % WORD
    IN IF fill = Digit(0) THEN Sign(value) \o Pad(ulCount, fill) \o Numerals(ulValue)
       ELSE Pad(ulCount, fill) \o Sign(value) \o Numerals(ulValue)

\* %d of uvsnprintf: the sign comes first, and is not counted.
StringDecimal(value, width, fill) ==
    LET ulValue == Magnitude(value)
        ulCount == (width - Exponent(ulValue)) % WORD
    IN Sign(value) \o Pad(ulCount, fill) \o Numerals(ulValue)

\* atoi of the C library: a sign, and digits up to something else.
Atoi(text) ==
    LET sign == text # <<>> /\ text[1] = Minus
        from == IF sign THEN Tail(text) ELSE text
        stops == { k \in DOMAIN from : from[k].kind # "digit" }
        n == IF stops = {} THEN Len(from) ELSE (CHOOSE k \in stops : \A j \in stops : k <= j) - 1
        value[k \in 0 .. n] == IF k = 0 THEN 0 ELSE 10 * value[k - 1] + from[k].value
        signed == IF sign THEN -value[n] ELSE value[n]
    IN IF signed < -(WORD \div 2) THEN -(WORD \div 2)
       ELSE IF signed >= WORD \div 2 THEN WORD \div 2 - 1 ELSE signed

-----------------------------------------------------------------------------
(* Formats. *)

\* UARTwrite puts a CR in front of each LF.
UARTwrite(text) ==
    FlattenSeq([k \in DOMAIN text |-> IF text[k] = LF THEN <<CR, LF>> ELSE <<text[k]>>])

\* What UARTprintf sends.
UARTprintf(format) ==
    FlattenSeq([k \in DOMAIN format |->
        UARTwrite(IF format[k].as = "text" THEN format[k].of
                  ELSE UARTDecimal(format[k].of, format[k].width, format[k].fill))])

\* What uvsnprintf makes of a format.
Converted(format) ==
    FlattenSeq([k \in DOMAIN format |->
        IF format[k].as = "text" THEN format[k].of
        ELSE StringDecimal(format[k].of, format[k].width, format[k].fill)])

\* It is copied as far as there is room.
Copied(text, ulSize) == SubSeq(text, 1, IF Len(text) < ulSize THEN Len(text) ELSE ulSize - 1)

\* What it leaves in a buffer of ulSize, and what it returns, the length of all.
uvsnprintf(ulSize, format) ==
    [pcBuf |-> Copied(Converted(format), ulSize), iConvertCount |-> Len(Converted(format))]

\* usprintf: the buffer is taken to be large.
usprintf(format) == uvsnprintf(65535, format).pcBuf
=============================================================================
