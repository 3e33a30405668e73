---------------------------- MODULE ParserOverlay ----------------------------
(***************************************************************************)
(* How process_line (replug_core.c) finds out which command a line is, on   *)
(* the memory the linker gives it: it compares the first word with one      *)
(* name after another, character by character, and reads a delay digit by   *)
(* digit, while the USB interrupt handler may run.                          *)
(*                                                                          *)
(* SDCC puts the parameters and locals of functions that are not reentrant  *)
(* into one overlay area (artifacts/usb_replug_ch552.mem: 0x14 to 0x19).    *)
(* `right` of strings_equal and its working copy lie in it, and so does the *)
(* operand of the multiplication in parse_u16; but `count` of               *)
(* endpoint0_queue_next and the parameters of usb_descriptor_lookup, which  *)
(* the handler calls, lie in it too.  What a line means is in CommandSet;   *)
(* this module is how it is found.  Characters are their codes.             *)
(***************************************************************************)
EXTENDS CommandSet

CONSTANTS
    Spelling,       \* the characters of the text of a word
    Counts,         \* the sizes of the packets the handler queues
    MaxInterrupts   \* bound: how often it runs while a line is looked at

NUL == 0
Other == 255    \* a character that no line can have

Names == <<"on", "off", "cycle", "status", "fault", "version", "help">>

ASSUME OverlayAssumption ==
    /\ {Names[i] : i \in DOMAIN Names} \cup {"1"} \subseteq DOMAIN Spelling
    /\ \A l \in Lines : \A i \in DOMAIN l.args :
          /\ l.args[i].text \in DOMAIN Spelling
          /\ l.args[i].number = parse_u16(Spelling[l.args[i].text])
    /\ \A s, t \in DOMAIN Spelling : Spelling[s] = Spelling[t] => s = t
    /\ \A t \in DOMAIN Spelling :
          Spelling[t] \in Seq(Int) /\ \A i \in DOMAIN Spelling[t] : Spelling[t][i] \notin {NUL, Other}
    /\ Counts \subseteq 1 .. 8 /\ MaxInterrupts \in Nat

VARIABLES
    line,   \* the line process_line works on
    cpu,    \* its place, and what it keeps in registers
    ram,    \* the overlay area
    log     \* interrupts of this line, and where process_line used what they left

vars == <<line, cpu, ram, log>>

(* A pointer is the place in the name it points to, or points elsewhere.   *)
Stray == 0

Idle == [pc |-> "done", name |-> "on", word |-> 1, command |-> "none",
         i |-> 1, parsed |-> 0, low |-> 0, delay |-> 0]
Init ==
    /\ line = NoLine /\ cpu = Idle
    /\ ram = [right |-> Stray, working |-> Stray,    \* 0x14 and 0x17
              low |-> 0, high |-> 0]                 \* 0x14, and 0x15 to 0x17
    /\ log = [interrupts |-> 0, name |-> FALSE, delay |-> FALSE]

At(place) == cpu.pc = place
argc == Len(line.args)

(* The character of a text at a place, the NUL behind it included.         *)
CharAt(text, i) == IF i \in DOMAIN Spelling[text] THEN Spelling[text][i] ELSE NUL
Left == CharAt(line.args[cpu.word].text, cpu.i)
Right(pointer) ==
    IF pointer = Stray THEN {NUL, Left, Other} ELSE {CharAt(cpu.name, pointer)}
Reads(overwritten) == log' = [log EXCEPT !.name = @ \/ overwritten]
Multiplies(overwritten) == log' = [log EXCEPT !.delay = @ \/ overwritten]

-----------------------------------------------------------------------------
(* What process_line and the handlers do next: a call of strings_equal or  *)
(* of parse_u16, or the verdict.                                           *)
Compared(name, word) ==
    [cpu EXCEPT !.pc = "call", !.name = name, !.word = word, !.i = 1]
Parsing(word) == [cpu EXCEPT !.pc = "digit", !.word = word, !.i = 1, !.parsed = 0]
Verdict(command, delay) == [Idle EXCEPT !.command = command, !.delay = delay]

(* After the command is found, `cycle` with its delay still to be read.    *)
Handler(command) ==
    IF command \in {"fault", "version", "help"} THEN Verdict(command, 0)
    ELSE IF command = "cycle" /\ argc = 2 THEN [Parsing(2) EXCEPT !.command = command]
    ELSE IF command = "cycle" /\ argc = 1 THEN Verdict(command, REPLUG_DEFAULT_CYCLE_MS)
    ELSE IF argc = 1 THEN Verdict(command, 0)
    ELSE IF argc = 2 \/ command = "cycle"
    THEN [Compared("1", 2) EXCEPT !.command = command]
    ELSE Verdict(ERR_invalid_arg, 0)

Index(name) == CHOOSE i \in DOMAIN Names : Names[i] = name

(* valid_port_arg has returned.                                            *)
PortCompared(equal) ==
    IF ~equal THEN Verdict(ERR_invalid_arg, 0)
    ELSE IF cpu.command = "cycle" THEN Parsing(3) ELSE Verdict(cpu.command, 0)

(* strings_equal has returned for a name.                                  *)
NameCompared(equal) ==
    IF equal /\ (cpu.name \in {"fault", "version", "help"} => argc = 1)
    THEN Handler(cpu.name)
    ELSE IF Index(cpu.name) = Len(Names) THEN Verdict(ERR_invalid_command, 0)
    ELSE Compared(Names[Index(cpu.name) + 1], 1)

Return(equal) ==
    cpu' = IF cpu.name = "1" THEN PortCompared(equal) ELSE NameCompared(equal)

ProcessLine(l) ==
    /\ At("done")
    /\ line' = l /\ log' = [interrupts |-> 0, name |-> FALSE, delay |-> FALSE]
    /\ cpu' = IF TooLong(l) THEN Verdict(ERR_invalid_arg, 0)
              ELSE IF Blank(l) THEN Verdict(NoReply, 0)
              ELSE [Idle EXCEPT !.pc = "call"]
    /\ UNCHANGED ram

-----------------------------------------------------------------------------
(* strings_equal.                                                          *)
Call ==
    /\ At("call") /\ cpu' = [cpu EXCEPT !.pc = "copy"]
    /\ ram' = [ram EXCEPT !.right = 1]
    /\ UNCHANGED <<line, log>>

Copy ==
    /\ At("copy") /\ cpu' = [cpu EXCEPT !.pc = "compare"]
    /\ ram' = [ram EXCEPT !.working = ram.right]
    /\ Reads(ram.right = Stray)
    /\ UNCHANGED line

(* One turn of the loop; it leaves the loop with right behind working when *)
(* either string ends.                                                     *)
Compare ==
    /\ At("compare") /\ Left # NUL
    /\ \E right \in Right(ram.working) :
         IF right = Left
         THEN LET next == IF ram.working = Stray THEN Stray ELSE ram.working + 1 IN
              /\ cpu' = [cpu EXCEPT !.i = @ + 1]
              /\ ram' = [ram EXCEPT !.working = next, !.right = next]
         ELSE Return(FALSE) /\ UNCHANGED ram
    /\ Reads(ram.working = Stray)
    /\ UNCHANGED line

LeftEnds ==
    /\ At("compare") /\ Left = NUL
    /\ \E right \in Right(ram.right) : Return(right = NUL)
    /\ Reads(ram.right = Stray)
    /\ UNCHANGED <<line, ram>>

-----------------------------------------------------------------------------
(* parse_u16 and the check of its result in handle_cycle.                  *)
InRange(delay) == delay \in REPLUG_MIN_CYCLE_MS .. REPLUG_MAX_CYCLE_MS

\* mutant: any number is taken for a delay
ParseEnds_Unchecked ==
    /\ At("digit") /\ ~IsDigit(Left)
    /\ cpu' = IF Left = NUL /\ cpu.i > 1
              THEN Verdict("cycle", cpu.parsed) ELSE Verdict(ERR_invalid_arg, 0)
    /\ UNCHANGED <<line, ram, log>>

(* The end of the word, or a character that is no digit.                   *)
ParseEnds ==
    /\ At("digit") /\ ~IsDigit(Left)
    /\ cpu' = IF Left = NUL /\ cpu.i > 1 /\ InRange(cpu.parsed)
              THEN Verdict("cycle", cpu.parsed) ELSE Verdict(ERR_invalid_arg, 0)
    /\ UNCHANGED <<line, ram, log>>

(* The operand is stored, and its bytes are loaded one by one.             *)
StoreOperand ==
    /\ At("digit") /\ IsDigit(Left) /\ cpu' = [cpu EXCEPT !.pc = "multiply"]
    /\ ram' = [ram EXCEPT !.low = cpu.parsed % 256, !.high = cpu.parsed \div 256]
    /\ UNCHANGED <<line, log>>

LoadLow ==
    /\ At("multiply") /\ cpu' = [cpu EXCEPT !.pc = "multiply_high", !.low = ram.low]
    /\ Multiplies(ram.low # cpu.parsed % 256)
    /\ UNCHANGED <<line, ram>>

\* mutant: the product is kept in 16 bits
Multiply_16Bit ==
    /\ At("multiply_high")
    /\ LET parsed == (10 * (cpu.low + 256 * ram.high) + DigitValue(Left)) % 65536 IN
       cpu' = [cpu EXCEPT !.pc = "digit", !.i = @ + 1, !.parsed = parsed]
    /\ Multiplies(ram.high # cpu.parsed \div 256)
    /\ UNCHANGED <<line, ram>>

Multiply ==
    /\ At("multiply_high")
    /\ LET parsed == 10 * (cpu.low + 256 * ram.high) + DigitValue(Left) IN
       cpu' = IF parsed > 65535 THEN Verdict(ERR_invalid_arg, 0)
              ELSE [cpu EXCEPT !.pc = "digit", !.i = @ + 1, !.parsed = parsed]
    /\ Multiplies(ram.high # cpu.parsed \div 256)
    /\ UNCHANGED <<line, ram>>

-----------------------------------------------------------------------------
(* The handler queues a packet of an answer: count is at 0x14.             *)
QueueNext(count) ==
    ram' = [ram EXCEPT !.right = Stray, !.low = count]

(* Before the first packet of a descriptor, the lookup is passed an index  *)
(* at 0x14 and a pointer, 0x400063, at 0x15 to 0x17.  Pointer stands for   *)
(* it: ten times either of them is beyond 16 bits, also modulo 2^32, and   *)
(* when its last byte, 0x40, is the only one a multiplication has loaded.  *)
Pointer == 65536
Lookup(count) ==
    ram' = [right |-> Stray, working |-> Stray, low |-> count, high |-> Pointer]

Interrupt ==
    /\ ~At("done") /\ log.interrupts < MaxInterrupts
    /\ \E count \in Counts : QueueNext(count) \/ Lookup(count)
    /\ log' = [log EXCEPT !.interrupts = @ + 1]
    /\ UNCHANGED <<line, cpu>>

Next ==
    \/ \E l \in Lines : ProcessLine(l)
    \/ Call \/ Copy \/ Compare \/ LeftEnds
    \/ ParseEnds \/ StoreOperand \/ LoadLow \/ Multiply
    \/ Interrupt

Spec == Init /\ [][Next]_vars

-----------------------------------------------------------------------------
Asked(l) ==
    CASE IsBadArg(l) -> ERR_invalid_arg
      [] IsUnknown(l) -> ERR_invalid_command
      [] Blank(l) -> NoReply
      [] OTHER -> l.args[1].text

(* process_line finds the command of CommandSet, and the delay of a cycle, *)
(* whenever the interrupt handler runs, unless it runs between the storing *)
(* and the use of one of the shared cells: those are the only places where *)
(* a control transfer can change what a command means.                     *)
FoundAsAsked ==
    At("done") /\ line # NoLine /\ ~log.name /\ ~log.delay =>
        /\ cpu.command = Asked(line)
        /\ IsCycle(line) => cpu.delay = cycle_ms(line)

(* An interrupt that hits the multiplication, and no comparison, never     *)
(* makes another command of a line: at worst a `cycle` is refused, or one   *)
(* that should be refused is carried out.  And whatever it is made of, the  *)
(* off time of a cycle that is carried out lies in the bounds.              *)
OnlyDelayWrong ==
    At("done") /\ line # NoLine /\ ~log.name =>
        /\ \/ cpu.command = Asked(line)
           \/ Named(line, "cycle") /\ cpu.command \in {"cycle", ERR_invalid_arg}
        /\ cpu.command = "cycle" => InRange(cpu.delay)

(* The bring-up brief: `cycle` waits as long as it was asked to.           *)
DelayAsAsked ==
    At("done") /\ cpu.command = "cycle" /\ IsCycle(line) => cpu.delay = cycle_ms(line)
=============================================================================
