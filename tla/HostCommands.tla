----------------------------- MODULE HostCommands -----------------------------
(***************************************************************************)
(* The command lines the two host tools write for the arguments of their    *)
(* user, and what the dongle makes of them: `on`, `off`, `cycle`, `status`, *)
(* `fault`, `version` and `help`.                                           *)
(***************************************************************************)
EXTENDS CommandSet

Names == {"on", "off", "cycle", "status", "fault", "version", "help"}
None == -1    \* --delay-ms is not given

(* A number in decimal, as %d and str write it: the digits from the last to *)
(* the first are what remains of the number divided by ten again and again. *)
Quotients(n) ==
    LET rest[k \in 0 .. n + 1] == IF k = 0 THEN n ELSE rest[k - 1] \div 10
    IN  rest
Size(n) ==
    CHOOSE k \in 1 .. n + 1 :
        Quotients(n)[k] = 0 /\ \A j \in 1 .. k - 1 : Quotients(n)[j] # 0
Digits(n) == [i \in 1 .. Size(n) |-> 48 + (Quotients(n)[Size(n) - i] % 10)]
printed(n) == IF n < 0 THEN <<45>> \o Digits(-n) ELSE Digits(n)

(* What the dongle finds in a line of these words: names, and a delay, of   *)
(* which it reads the characters as a number.                              *)
Name(text) == [text |-> text, number |-> NotANumber]
DelayWord(ms) == [text |-> "delay", number |-> parse_u16(printed(ms))]
Written(words) == [overflow |-> FALSE, args |-> words]

(* usb_replug.py: cycle_delay_ms refuses a number out of the bounds.       *)
MIN_CYCLE_DELAY_MS == 100
MAX_CYCLE_DELAY_MS == 30000
cycle_delay_ms == MIN_CYCLE_DELAY_MS .. MAX_CYCLE_DELAY_MS
build_device_command(command, delay_ms) ==
    IF command = "cycle" /\ delay_ms # None
    THEN Written(<<Name("cycle"), DelayWord(delay_ms)>>) ELSE Written(<<Name(command)>>)

(* portpulse.c: always with a delay, 2000 unless given, any int.           *)
request(command, delay) ==
    IF command = "cycle"
    THEN Written(<<Name("cycle"), DelayWord(delay)>>) ELSE Written(<<Name(command)>>)

-----------------------------------------------------------------------------
Understood(command, l) ==
    CASE command = "on" -> IsOn(l)
      [] command = "off" -> IsOff(l)
      [] command = "cycle" -> IsCycle(l)
      [] command = "status" -> IsStatus(l)
      [] command = "fault" -> IsFault(l)
      [] command \in {"version", "help"} -> IsInfo(l)
=============================================================================
