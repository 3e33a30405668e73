------------------------------- MODULE Numbers -------------------------------
(***************************************************************************)
(* The number the firmware takes a word for (parse_u16 in replug_core.c),   *)
(* digit by digit, and the one the word is in decimal, by the places of its *)
(* digits.  Characters are their codes.                                     *)
(***************************************************************************)
EXTENDS Integers, Sequences

(* parse_u16 returns zero.                                                 *)
NotANumber == -1

UINT16_MAX == 65535

IsDigit(c) == c \in 48 .. 57
DigitValue(c) == c - 48

\* mutant: a number is kept in 16 bits while it is read
Parse_Wraps(parsed, c) ==
    IF parsed = NotANumber \/ ~IsDigit(c) THEN NotANumber
    ELSE (10 * parsed + DigitValue(c)) % (UINT16_MAX + 1)

(* One turn of the loop, with the character c.                             *)
Parse(parsed, c) ==
    IF parsed = NotANumber \/ ~IsDigit(c) \/ 10 * parsed + DigitValue(c) > UINT16_MAX
    THEN NotANumber ELSE 10 * parsed + DigitValue(c)

(* What there is after n characters.                                       *)
Parsed(word) ==
    LET parsed[n \in 0 .. Len(word)] ==
            IF n = 0 THEN 0 ELSE Parse(parsed[n - 1], word[n])
    IN  parsed

parse_u16(word) == IF word = <<>> THEN NotANumber ELSE Parsed(word)[Len(word)]

-----------------------------------------------------------------------------
(* The value of a one with k zeros behind it, up to k = n.                 *)
Ten(weight, k) == IF k = 0 THEN 1 ELSE 10 * weight[k - 1]
Weights(n) == LET weight[k \in 0 .. n] == Ten(weight, k) IN weight

(* The value of the last k digits.                                         *)
Place(word, value, k) ==
    IF k = 0 THEN 0
    ELSE value[k - 1] + DigitValue(word[Len(word) - k + 1]) * Weights(Len(word))[k - 1]
Values(word) == LET value[k \in 0 .. Len(word)] == Place(word, value, k) IN value

Decimal(word) == Values(word)[Len(word)]

AllDigits(word) == \A i \in 1 .. Len(word) : IsDigit(word[i])
=============================================================================
