----------------------------- MODULE LineReceiver -----------------------------
(***************************************************************************)
(* How bytes become a line (replug_core_feed_byte and the end of            *)
(* replug_core_poll in replug_core.c, called by the main loop): one buffer, *)
(* a flag that says it holds a line, and a flag that says the line is not   *)
(* what was sent.  The command core reads the buffer in the poll that       *)
(* follows every byte.                                                      *)
(***************************************************************************)
EXTENDS Integers, Sequences

CONSTANTS
    Bytes,                  \* the bytes the host may send
    REPLUG_LINE_CAPACITY,   \* of line_buffer, its final NUL included
    MaxText                 \* bound: the bytes of a line, as it is sent

CR == 13
LF == 10
Terminators == {CR, LF}

ASSUME ReceiverAssumption ==
    /\ Bytes \subseteq 0 .. 255
    /\ REPLUG_LINE_CAPACITY \in Nat \ {0}
    /\ MaxText \in Nat

VARIABLES
    pc,             \* the main loop: at its next byte, or in the poll after one
    line_buffer,    \* its first line_length characters
    line_ready,
    line_overflow,
    text            \* the line as the host sent it so far; read by no code

vars == <<pc, line_buffer, line_ready, line_overflow, text>>

(* replug_core_init.                                                       *)
Init ==
    /\ pc = "main" /\ line_buffer = <<>> /\ text = <<>>
    /\ line_ready = FALSE /\ line_overflow = FALSE

IsCapital(byte) == byte \in 65 .. 90
Lower(byte) == IF IsCapital(byte) THEN byte + 32 ELSE byte

(* A tab, or a character between space and tilde.  Bytes above 127 are     *)
(* refused whether char is signed or not.                                  *)
Printable(byte) == byte = 9 \/ byte \in 32 .. 126

-----------------------------------------------------------------------------
EndOfLine(byte) ==
    /\ byte \in Terminators
    /\ line_ready' = (line_buffer # <<>> \/ line_overflow)
    /\ UNCHANGED <<line_buffer, line_overflow, text>>

\* mutant: the place of the NUL is not kept free
Character_OneMore(byte) ==
    /\ byte \notin Terminators
    /\ IF Printable(byte) /\ Len(line_buffer) < REPLUG_LINE_CAPACITY
       THEN line_buffer' = Append(line_buffer, Lower(byte)) /\ UNCHANGED line_overflow
       ELSE line_overflow' = TRUE /\ UNCHANGED line_buffer
    /\ text' = Append(text, byte)
    /\ UNCHANGED line_ready

(* A character that does not fit, or is none, spoils the line; those after *)
(* it are still stored.                                                    *)
Character(byte) ==
    /\ byte \notin Terminators
    /\ IF Printable(byte) /\ Len(line_buffer) < REPLUG_LINE_CAPACITY - 1
       THEN line_buffer' = Append(line_buffer, Lower(byte)) /\ UNCHANGED line_overflow
       ELSE line_overflow' = TRUE /\ UNCHANGED line_buffer
    /\ text' = Append(text, byte)
    /\ UNCHANGED line_ready

(* While a line waits to be processed, a byte would be lost.               *)
Lost(byte) ==
    /\ text' = IF byte \in Terminators THEN text ELSE Append(text, byte)
    /\ UNCHANGED <<line_buffer, line_ready, line_overflow>>

FeedByte(byte) ==
    /\ pc = "main" /\ pc' = "poll"
    /\ Len(text) < MaxText \/ byte \in Terminators
    /\ IF line_ready THEN Lost(byte) ELSE EndOfLine(byte) \/ Character(byte)

\* mutant: the flag of one line is kept for the next
Poll_KeepsOverflow ==
    /\ pc = "poll" /\ pc' = "main"
    /\ IF line_ready
       THEN /\ line_buffer' = <<>> /\ line_ready' = FALSE
            /\ text' = <<>> /\ UNCHANGED line_overflow
       ELSE UNCHANGED <<line_buffer, line_ready, line_overflow, text>>

(* The line has been processed when process_line returns.                  *)
Poll ==
    /\ pc = "poll" /\ pc' = "main"
    /\ IF line_ready
       THEN /\ line_buffer' = <<>> /\ line_ready' = FALSE /\ line_overflow' = FALSE
            /\ text' = <<>>
       ELSE UNCHANGED <<line_buffer, line_ready, line_overflow, text>>

(* A reset of the processor, which may come in the middle of a line.       *)
Restart ==
    /\ pc' = "main" /\ line_buffer' = <<>> /\ text' = <<>>
    /\ line_ready' = FALSE /\ line_overflow' = FALSE

Next ==
    \/ \E byte \in Bytes : FeedByte(byte)
    \/ Poll
    \/ Restart

Spec == Init /\ [][Next]_vars

-----------------------------------------------------------------------------
(* The type invariant; line_buffer[line_length] = '\0' stays in the buffer. *)
TypeOK ==
    /\ pc \in {"main", "poll"}
    /\ line_buffer \in Seq(0 .. 255) /\ Len(line_buffer) < REPLUG_LINE_CAPACITY
    /\ line_ready \in BOOLEAN /\ line_overflow \in BOOLEAN
    /\ text \in Seq(0 .. 255)

(* A line that fits into the buffer with its NUL, in printable             *)
(* characters.                                                             *)
Acceptable(sent) ==
    /\ Len(sent) < REPLUG_LINE_CAPACITY
    /\ \A i \in 1 .. Len(sent) : Printable(sent[i])

(* A line is processed as the host sent it since the line before, but for  *)
(* the case of its letters; a line that is too long or not printable is    *)
(* known to be, wherever its bad character was, and it neither loses its   *)
(* flag nor leaves one to the next line; an empty line is no line.         *)
LineIntact ==
    line_ready =>
        /\ text # <<>>
        /\ line_overflow <=> ~Acceptable(text)
        /\ ~line_overflow => line_buffer = [i \in 1 .. Len(text) |-> Lower(text[i])]
=============================================================================
