------------------------------ MODULE LineWords ------------------------------
(***************************************************************************)
(* What process_line makes of a line (tokenize and parse_u16 in             *)
(* replug_core.c), for every line LineReceiver can hand to it, against      *)
(* definitions of words and numbers that do not scan.                       *)
(***************************************************************************)
EXTENDS LineReceiver, Numbers, FiniteSetsExt

CONSTANT REPLUG_MAX_ARGS    \* the most words of a command, 3 in the code

ASSUME WordsAssumption == REPLUG_MAX_ARGS \in Nat

is_space(c) == c \in {9, 32}

(* The place of the separator behind a word, or of the NUL.                *)
WordEnd(buffer, cursor) ==
    Min({i \in cursor .. Len(buffer) + 1 : i \leq Len(buffer) => is_space(buffer[i])})

\* mutant: the character after a word is not skipped before the limit is tested
Scan_Limit(buffer, scanned, cursor, count) ==
    IF cursor > Len(buffer) THEN [argc |-> count, args |-> <<>>]
    ELSE IF count = REPLUG_MAX_ARGS THEN [argc |-> REPLUG_MAX_ARGS + 1, args |-> <<>>]
    ELSE IF is_space(buffer[cursor]) THEN scanned[<<cursor + 1, count>>]
    ELSE LET end == WordEnd(buffer, cursor) IN
         [scanned[<<end + 1, count + 1>>] EXCEPT
            !.args = <<SubSeq(buffer, cursor, end - 1)>> \o @]

(* What tokenize finds from the cursor on, when it has found count words   *)
(* before, by what it finds further on: the words, and what it returns.    *)
Scan(buffer, scanned, cursor, count) ==
    IF cursor > Len(buffer) THEN [argc |-> count, args |-> <<>>]
    ELSE IF is_space(buffer[cursor]) THEN scanned[<<cursor + 1, count>>]
    ELSE IF count = REPLUG_MAX_ARGS THEN [argc |-> REPLUG_MAX_ARGS + 1, args |-> <<>>]
    ELSE LET end == WordEnd(buffer, cursor) IN
         [scanned[<<end + 1, count + 1>>] EXCEPT
            !.args = <<SubSeq(buffer, cursor, end - 1)>> \o @]

Scanned(buffer) ==
    LET scanned[at \in (1 .. Len(buffer) + 2) \X (0 .. REPLUG_MAX_ARGS)] ==
            Scan(buffer, scanned, at[1], at[2])
    IN  scanned

tokenize(buffer) == Scanned(buffer)[<<1, 0>>]

-----------------------------------------------------------------------------
(* A word begins at a character that is no separator and follows one, or   *)
(* follows nothing.                                                        *)
Starts(buffer) ==
    {i \in 1 .. Len(buffer) : ~is_space(buffer[i]) /\ (i = 1 \/ is_space(buffer[i - 1]))}

IsWordAt(buffer, word, i) ==
    LET next == i + Len(word) IN
    /\ word # <<>> /\ next \leq Len(buffer) + 1
    /\ word = SubSeq(buffer, i, next - 1)
    /\ \A k \in 1 .. Len(word) : ~is_space(word[k])
    /\ next \leq Len(buffer) => is_space(buffer[next])

(* Whatever separators stand before, between and after them, tokenize finds *)
(* the words of the line, each whole and in order; a line of more than     *)
(* REPLUG_MAX_ARGS, and only that, is refused.                             *)
WordsRight ==
    line_ready /\ ~line_overflow =>
        LET words == tokenize(line_buffer)
            count == Cardinality(Starts(line_buffer)) IN
        IF count > REPLUG_MAX_ARGS
        THEN words.argc = REPLUG_MAX_ARGS + 1
        ELSE /\ words.argc = count /\ Len(words.args) = count
             /\ \A i \in Starts(line_buffer) :
                    IsWordAt(line_buffer,
                             words.args[Cardinality({k \in Starts(line_buffer) : k \leq i})], i)

(* parse_u16 takes a word for the number it is in decimal, leading zeros   *)
(* and all, and refuses what is no number or does not fit in 16 bits.      *)
NumbersRight ==
    line_ready /\ ~line_overflow =>
        LET words == tokenize(line_buffer).args IN
        \A k \in 1 .. Len(words) :
            parse_u16(words[k]) =
                IF AllDigits(words[k]) /\ Decimal(words[k]) \leq UINT16_MAX
                THEN Decimal(words[k]) ELSE NotANumber
=============================================================================
