----------------------------- MODULE CommandSet -----------------------------
(***************************************************************************)
(* The command set of the replug dongle: which request a received line is.  *)
(* This is process_line and the argument checks of its handlers            *)
(* (replug_core.c), on a line that tokenize has already cut into words.     *)
(*                                                                          *)
(* A word is a record: its text, and `number`, what parse_u16 makes of the  *)
(* text (NotANumber when it is no decimal number of 16 bits).  A line is a  *)
(* record: `overflow`, the line_overflow flag of the receiver, and `args`.  *)
(***************************************************************************)
EXTENDS Numbers

CONSTANTS
    Lines,                    \* the lines the host may send
    REPLUG_DEFAULT_CYCLE_MS,  \* the off time of `cycle` without argument
    REPLUG_MIN_CYCLE_MS,      \* the bounds of its argument
    REPLUG_MAX_CYCLE_MS

REPLUG_MAX_ARGS == 3

Word == [text : STRING, number : {NotANumber} \cup 0 .. 65535]
Line == [overflow : BOOLEAN, args : Seq(Word)]

(* No line is ready.  A line of separators is treated alike.               *)
NoLine == [overflow |-> FALSE, args |-> <<>>]

ASSUME LinesAssumption == Lines \subseteq Line

ASSUME CycleAssumption ==
    /\ REPLUG_MIN_CYCLE_MS \in Nat \ {0}
    /\ REPLUG_MAX_CYCLE_MS \in Nat
    /\ REPLUG_DEFAULT_CYCLE_MS \in REPLUG_MIN_CYCLE_MS .. REPLUG_MAX_CYCLE_MS
    /\ REPLUG_MAX_CYCLE_MS \leq 65535

valid_port_arg(word) == word.text = "1"

(* tokenize gives up at the fourth word.                                   *)
TooLong(l) == l.overflow \/ Len(l.args) > REPLUG_MAX_ARGS

(* Only separators: process_line returns without an answer.                *)
Blank(l) == ~l.overflow /\ l.args = <<>>

Named(l, name) == ~TooLong(l) /\ ~Blank(l) /\ l.args[1].text = name

(* `on`, `off` and `status` take the port number, or nothing.              *)
PortArgOk(l) ==
    \/ Len(l.args) = 1
    \/ Len(l.args) = 2 /\ valid_port_arg(l.args[2])

(* The off time `cycle` asks for: the last argument, after an optional port. *)
cycle_ms(l) ==
    CASE Len(l.args) = 1 -> REPLUG_DEFAULT_CYCLE_MS
      [] Len(l.args) = 2 -> l.args[2].number
      [] Len(l.args) = 3 /\ valid_port_arg(l.args[2]) -> l.args[3].number
      [] OTHER -> NotANumber

CycleArgsOk(l) == cycle_ms(l) \in REPLUG_MIN_CYCLE_MS .. REPLUG_MAX_CYCLE_MS

IsOn(l)     == Named(l, "on") /\ PortArgOk(l)
IsOff(l)    == Named(l, "off") /\ PortArgOk(l)
IsStatus(l) == Named(l, "status") /\ PortArgOk(l)
IsCycle(l)  == Named(l, "cycle") /\ CycleArgsOk(l)
IsFault(l)  == Named(l, "fault") /\ Len(l.args) = 1
IsInfo(l)   == Len(l.args) = 1 /\ \E n \in {"version", "help"} : Named(l, n)

(* ERR invalid_arg: a line too long, or a known command misused.           *)
IsBadArg(l) ==
    \/ TooLong(l)
    \/ \E n \in {"on", "off", "status"} : Named(l, n) /\ ~PortArgOk(l)
    \/ Named(l, "cycle") /\ ~CycleArgsOk(l)

(* ERR invalid_command: the rest.  `fault`, `version` and `help` with an   *)
(* argument fall through to it.                                            *)
IsUnknown(l) ==
    /\ ~TooLong(l) /\ ~Blank(l)
    /\ \A n \in {"on", "off", "cycle", "status"} : ~Named(l, n)
    /\ ~IsFault(l) /\ ~IsInfo(l)

-----------------------------------------------------------------------------
(* What transport_send_line is called with.                                *)
NoReply == "no reply"
OK == "OK"
ERR_fault_active == "ERR fault_active"
ERR_invalid_arg == "ERR invalid_arg"
ERR_invalid_command == "ERR invalid_command"
Info == "VERSION or COMMANDS"
State(on, faulty) ==
    IF on THEN IF faulty THEN "STATE on fault=1" ELSE "STATE on fault=0"
          ELSE IF faulty THEN "STATE off fault=1" ELSE "STATE off fault=0"
Fault(faulty) == IF faulty THEN "FAULT 1" ELSE "FAULT 0"
Replies ==
    {OK, ERR_fault_active, ERR_invalid_arg, ERR_invalid_command, Info}
      \cup {State(on, f) : on, f \in BOOLEAN} \cup {Fault(f) : f \in BOOLEAN}
=============================================================================
